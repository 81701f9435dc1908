------------------------------ MODULE Clipboard ------------------------------
(***************************************************************************)
(* Clipboard synchronisation between Android and the X clients             *)
(* (clipboard.c, cmdentrypoint.c, activity.c, LorieView.java).             *)
(*                                                                         *)
(* An Android copy is announced; the X server takes the CLIPBOARD          *)
(* selection and fetches the text when a client first pastes it.  A client *)
(* that takes the selection is asked for its targets and then its text,    *)
(* which is sent to Android at once.  The input thread of the server only  *)
(* queues announcements and texts; its main thread handles them.           *)
(***************************************************************************)
EXTENDS ClipboardText, FiniteSets

CONSTANTS
  Clients,       \* X clients
  Offers,        \* the text targets each client offers
  Text,          \* what each client or "android" copies as the n-th copy: code points
  MaxCopies,     \* bound: copies made, by anyone
  MaxPending,    \* bound: pastes waiting for the text
  MaxConnects,   \* bound: connections made
  MaxUp          \* bound: messages to the server while preferences change

Targets == {"STRING", "UTF8_STRING"}
Server == "server"
Nobody == "nobody"

ASSUME ClipboardAssumption ==
  /\ \A c \in Clients : Offers[c] \subseteq Targets
  /\ DOMAIN Text = Clients \cup {"android"}
  /\ {"android", Server, Nobody} \cap Clients = {}

VARIABLES
  clip,       \* the Android clipboard: which copy, and its bytes
  view,       \* LorieView: focus, listening, sync, seen (lastClipboardTimestamp), blind
  alive,      \* the two processes are connected
  up,         \* messages to the server, header and text together
  down,       \* bytes to the activity
  clipboardEnabled,
  owner,      \* owner of the CLIPBOARD selection
  own,        \* the copy each client holds
  asked,      \* SelectionRequests the clients have not answered
  cachedData, \* text fetched from Android, or NoData
  pending,    \* lorieDataTargetHead: pastes waiting for the text
  work,       \* work procedures of the server's main thread
  hist        \* history: see Init

vars == <<clip, view, alive, up, down, clipboardEnabled, owner, own, asked, cachedData, pending, work, hist>>
androidVars == <<clip, view>>
xVars == <<clipboardEnabled, owner, own, asked, cachedData, pending, work>>

\* A copy on its way; back is history: it replaced a newer one on Android.
Copy(n, b) == [id |-> n, bytes |-> b, back |-> FALSE]
NoData == Copy(-1, <<>>)
NoText == Copy(0, <<>>)

-----------------------------------------------------------------------------
(* Reference encodings, for what is copied and for the properties. *)

Low6(n) == 128 + (n % 64)
High(n) == n \div 64
Utf8Point(p) ==
  CASE p < 128 -> <<p>>
    [] 128 <= p /\ p < 2048 -> <<192 + High(p), Low6(p)>>
    [] 2048 <= p /\ p < 65536 -> <<224 + High(High(p)), Low6(High(p)), Low6(p)>>
    [] OTHER -> <<240 + High(High(High(p))), Low6(High(High(p))), Low6(High(p)), Low6(p)>>
Utf8(points) == FlattenSeq([i \in DOMAIN points |-> Utf8Point(points[i])])
Utf8Text == [c \in DOMAIN Text |-> [n \in 1..MaxCopies |-> Utf8(Text[c][n])]]

\* UTF-8 carries 21 bits; a 0 would end the text.
Decodable(p) == p > 0 /\ p < 2097152
AllDecodable(points) == \A i \in DOMAIN points : Decodable(points[i])

\* Texts are what their encodings carry, or a client offers them as UTF-8 only
\* and they are found not to be.
ASSUME TextAssumption ==
  /\ MaxCopies \in Nat
  /\ \A c \in DOMAIN Text, n \in 1..MaxCopies :
       /\ Text[c][n] \in Seq(Nat)
       /\ \/ AllDecodable(Text[c][n])
          \/ c \in Clients /\ "STRING" \notin Offers[c] /\ ~lorieCheckUTF8(Utf8Text[c][n])
       /\ c \in Clients /\ "STRING" \in Offers[c] => \A i \in DOMAIN Text[c][n] : Text[c][n][i] < 256

NothingPasted == [target |-> "UTF8_STRING", need |-> 0, data |-> NoText, bytes |-> <<>>]
NewCopy == hist.copies + 1
CopyMade(by) == [hist EXCEPT !.copies = @ + 1, !.by = Append(@, by), !.missed = FALSE, !.crossed = FALSE,
                              !.pasted = NothingPasted]

-----------------------------------------------------------------------------
(* The socket to the activity.  An event is its first byte, the type, and   *)
(* the rest of it; a text is one byte.  The requests stand for all events   *)
(* that may be behind a text.                                               *)

Head1(ev, data) == <<[kind |-> "type", ev |-> ev, data |-> data], [kind |-> "rest"]>>
Payload(data) == IF data.bytes = <<>> THEN <<>> ELSE <<[kind |-> "text"]>>

\* Is a text in the socket, or was one since it was last empty?
Write(h, ev, data) ==
  LET fresh == IF down = <<>> THEN [h EXCEPT !.behindText = FALSE, !.swallowed = FALSE] ELSE h
  IN  [fresh EXCEPT !.behindText = @ \/ Payload(data) # <<>>]

\* An event whose type byte was taken for something else is never handled.
Swallow(h, token) ==
  IF token.kind # "type" THEN h
  ELSE [h EXCEPT !.swallowed = TRUE,
                 !.dropped = @ \/ token.ev = "request",
                 !.missed = @ \/ token.ev = "send"]

-----------------------------------------------------------------------------
Init ==
  /\ clip = NoText
  /\ view = [focus |-> FALSE, listening |-> FALSE, sync |-> TRUE, seen |-> 0, blind |-> FALSE]
  /\ alive = FALSE /\ up = <<>> /\ down = <<>>
  /\ clipboardEnabled = FALSE /\ owner = Nobody /\ own = [c \in Clients |-> 0]
  /\ asked = {} /\ cachedData = NoData /\ pending = <<>> /\ work = <<>>
  /\ hist = [copies |-> 0,         \* copies made so far
             by |-> <<>>,          \* who made them
             connects |-> 0,       \* connections made
             announced |-> 0,      \* the copy of the last announcement handled
             missed |-> FALSE,     \* the latest copy was not passed on
             crossed |-> FALSE,    \* an older announcement or text came after it
             dropped |-> FALSE,    \* a request for the text was lost
             behindText |-> FALSE, swallowed |-> FALSE,
             pasted |-> NothingPasted]    \* what the last paste since then was given

Send(msg) == up' = IF alive THEN Append(up, msg) ELSE up

-----------------------------------------------------------------------------
(* Android and the view. *)

\* checkForClipboardChange, for the clipboard and view given.  The time stamp
\* moves on whether or not somebody is connected.
Changed(c, v) == v.sync /\ v.seen < c.id
Announce(c, v) ==
  IF Changed(c, v)
  THEN /\ view' = [v EXCEPT !.seen = c.id]
       /\ Send([kind |-> "announce", id |-> c.id])
       /\ hist' = [hist EXCEPT !.missed = @ \/ ~alive]
  ELSE view' = v /\ UNCHANGED <<up, hist>>

\* Somebody copies on Android.  Within 150 ms of setClipboardText the copy is
\* older than lastClipboardTimestamp and will never count as a change.
UserCopies ==
  /\ hist.copies < MaxCopies
  /\ clip' = Copy(NewCopy, Utf8Text["android"][NewCopy])
  /\ view' = IF view.blind THEN [view EXCEPT !.seen = NewCopy] ELSE view
  /\ hist' = [CopyMade("android") EXCEPT !.missed = view.blind]
  /\ UNCHANGED <<alive, up, down, xVars>>

\* The 150 ms are over.
GraceEnds ==
  /\ view.blind /\ view' = [view EXCEPT !.blind = FALSE]
  /\ UNCHANGED <<clip, alive, up, down, xVars, hist>>

HandleClipboardChange ==
  /\ view.listening /\ Changed(clip, view)
  /\ Announce(clip, view)
  /\ UNCHANGED <<clip, alive, down, xVars>>

\* onWindowFocusChanged.
FocusChanged ==
  /\ LET has == ~view.focus
         v == [view EXCEPT !.focus = has, !.listening = view.sync /\ has]
     IN  IF view.sync /\ has THEN Announce(clip, v) ELSE view' = v /\ UNCHANGED <<up, hist>>
  /\ UNCHANGED <<clip, alive, down, xVars>>

\* reloadPreferences.
ReloadPreferences ==
  /\ Len(up) < MaxUp
  /\ view' = [view EXCEPT !.sync = ~@]
  /\ Send([kind |-> "enable", on |-> ~view.sync])
  /\ UNCHANGED <<clip, alive, down, xVars, hist>>

\* tryConnect: the preferences are sent on every new connection.
Connect ==
  /\ ~alive /\ hist.connects < MaxConnects
  /\ alive' = TRUE
  /\ up' = <<[kind |-> "enable", on |-> view.sync]>>
  /\ hist' = [hist EXCEPT !.connects = @ + 1]
  /\ UNCHANGED <<clip, view, down, xVars>>

\* Mutant: an activity whose sync is off does not answer.
NoAnswerWhenOff == IF view.sync THEN <<clip>> ELSE <<>>

\* requestClipboard: the answer, if any.  Android hides the clipboard from an
\* application without focus.
RequestedClip ==
  CASE ~view.sync -> <<NoText>>
    [] view.sync /\ view.focus -> <<clip>>
    [] view.sync /\ ~view.focus -> <<>>

\* setClipboardText.
SetClipboardText(data) ==
  /\ clip' = [data EXCEPT !.back = data.id < view.seen \/ data.id < clip.id]
  /\ view' = [view EXCEPT !.seen = hist.copies, !.blind = TRUE]

\* Mutant: a text of no bytes is read like any other.
AlwaysReadsText(data) == TRUE

ReadsText(data) == data.bytes # <<>>

\* xcallback: one event.  The read of a text asks for one byte too many.
ActivityReadsEvent ==
  /\ Len(down) >= 2 /\ down[1].kind = "type"
  /\ LET e == down[1]
         n == Len(Payload(e.data))
         extra == IF 3 + n \in DOMAIN down THEN down[3 + n] ELSE [kind |-> "none"]
     IN  \/ /\ e.ev = "send" /\ ReadsText(e.data)
            /\ SetClipboardText(e.data)
            /\ down' = SubSeq(down, 4 + n, Len(down))
            /\ hist' = [Swallow(hist, extra) EXCEPT !.missed = @ \/ view.seen < clip.id,
                                                       !.crossed = @ \/ e.data.id < clip.id]
            /\ UNCHANGED up
         \/ /\ e.ev = "send" /\ ~ReadsText(e.data)
            /\ down' = SubSeq(down, 3, Len(down))
            /\ UNCHANGED <<clip, view, up, hist>>
         \/ /\ e.ev = "request"
            /\ up' = up \o [i \in DOMAIN RequestedClip |-> [kind |-> "send", data |-> RequestedClip[i]]]
            /\ down' = SubSeq(down, 3, Len(down))
            /\ hist' = [hist EXCEPT !.dropped = @ \/ (view.sync /\ ~view.focus), !.missed = @ \/ ~view.sync]
            /\ UNCHANGED <<clip, view>>
         \* clipboard.getText() is null although the window has the focus.
         \/ /\ e.ev = "request" /\ view.sync
            /\ down' = SubSeq(down, 3, Len(down))
            /\ hist' = [hist EXCEPT !.dropped = TRUE]
            /\ UNCHANGED <<clip, view, up>>
  /\ UNCHANGED <<alive, xVars>>

\* Out of step: what is read is not an event, or too short to be one.
ActivityReadsGarbage ==
  /\ down # <<>> /\ (Len(down) = 1 \/ down[1].kind # "type")
  /\ down' = SubSeq(down, 3, Len(down))
  /\ hist' = IF Len(down) >= 2 THEN Swallow(hist, down[2]) ELSE hist
  /\ UNCHANGED <<clip, view, alive, up, xVars>>

-----------------------------------------------------------------------------
(* The server: input thread. *)

\* Mutant: an announcement overtakes the texts that are still queued.
QueueInFront(msg) == IF msg.kind = "announce" THEN <<msg>> \o work ELSE Append(work, msg)

QueueWorkProc(msg) == Append(work, msg)

\* handleLorieEvents: one message.
ServerReads ==
  /\ up # <<>> /\ up' = Tail(up)
  /\ \/ /\ Head(up).kind = "enable" /\ clipboardEnabled' = Head(up).on /\ UNCHANGED work
     \/ /\ Head(up).kind \in {"announce", "send"}
        /\ work' = QueueWorkProc(Head(up)) /\ UNCHANGED clipboardEnabled
  /\ UNCHANGED <<androidVars, alive, down, owner, own, asked, cachedData, pending, hist>>

\* The connection breaks.  What is queued for the main thread stays.
Disconnect ==
  /\ alive /\ alive' = FALSE
  /\ up' = <<>> /\ down' = <<>>
  /\ clipboardEnabled' = FALSE
  /\ hist' = [hist EXCEPT
       !.missed = @ \/ (\E m \in Range(up) : m.kind = "announce")
                    \/ (\E t \in Range(down) : t.kind = "type" /\ t.ev = "send"),
       !.dropped = @ \/ pending # <<>>]
  /\ UNCHANGED <<androidVars, owner, own, asked, cachedData, pending, work>>

-----------------------------------------------------------------------------
(* The server: main thread. *)

\* lorieSelectionRequest: the owner is asked, unless it is the server itself.
SelectionRequest(o, target) ==
  IF clipboardEnabled /\ o \in Clients THEN {[client |-> o, target |-> target]} ELSE {}

\* Mutant: what is cached is kept.
CacheKept == cachedData

CacheAfterAnnounce == NoData

\* lorieHandleClipboardAnnounce and lorieOwnSelection.
HandleClipboardAnnounce ==
  /\ work # <<>> /\ Head(work).kind = "announce"
  /\ work' = Tail(work)
  /\ cachedData' = CacheAfterAnnounce
  /\ owner' = Server
  /\ hist' = [hist EXCEPT !.announced = Head(work).id,
                          !.crossed = @ \/ (owner \in Clients /\ own[owner] > Head(work).id)]
  /\ UNCHANGED <<androidVars, alive, up, down, clipboardEnabled, own, asked, pending>>

\* lorieConvertSelection with the text: what the requestor is given.
Converted(data, target) ==
  IF target = "STRING" THEN lorieUtf8ToLatin1(data.bytes) ELSE data.bytes
Pasted(data, p) ==
  [target |-> p.target, need |-> p.need, data |-> data, bytes |-> Converted(data, p.target)]

\* lorieHandleClipboardData: everybody who waits is answered.
HandleClipboardData ==
  /\ work # <<>> /\ Head(work).kind = "send"
  /\ work' = Tail(work)
  /\ cachedData' = Head(work).data
  /\ pending' = <<>>
  /\ hist' = [hist EXCEPT !.dropped = FALSE,
                          !.pasted = IF pending = <<>> THEN @ ELSE Pasted(Head(work).data, Head(pending))]
  /\ UNCHANGED <<androidVars, alive, up, down, clipboardEnabled, owner, own, asked>>

\* lorieProcConvertSelection on a selection of the server, for a text target.
Paste(target) ==
  /\ owner = Server
  /\ LET p == [target |-> target, need |-> hist.announced]
     IN  \/ /\ cachedData # NoData
            /\ hist' = [hist EXCEPT !.pasted = Pasted(cachedData, p)]
            /\ UNCHANGED <<pending, down>>
         \/ /\ cachedData = NoData /\ Len(pending) < MaxPending
            /\ pending' = <<p>> \o pending
            \* lorieRequestClipboard
            /\ down' = IF alive THEN down \o Head1("request", NoText) ELSE down
            /\ hist' = IF alive THEN Write(hist, "request", NoText) ELSE [hist EXCEPT !.dropped = TRUE]
  /\ UNCHANGED <<androidVars, alive, up, clipboardEnabled, owner, own, asked, cachedData, work>>

\* A client takes the selection (lorieSelectionCallback).
ClientCopies(c) ==
  /\ hist.copies < MaxCopies
  /\ own' = [own EXCEPT ![c] = NewCopy]
  /\ owner' = c
  /\ asked' = asked \cup SelectionRequest(c, "TARGETS")
  /\ hist' = [CopyMade(c) EXCEPT !.missed = ~clipboardEnabled]
  /\ UNCHANGED <<androidVars, alive, up, down, clipboardEnabled, cachedData, pending, work>>

PreferredTarget(c) == IF "UTF8_STRING" \in Offers[c] THEN {"UTF8_STRING"} ELSE Offers[c]

\* The text as it will be sent, or nothing if it is not UTF-8.
ReceivedText(c, target) ==
  LET utf8 == Utf8Text[c][own[c]]
  IN  CASE target = "STRING" -> <<Copy(own[c], lorieLatin1ToUTF8(lorieConvertLF(Text[c][own[c]])))>>
        [] target = "UTF8_STRING" /\ lorieCheckUTF8(utf8) -> <<Copy(own[c], lorieConvertLF(utf8))>>
        [] target = "UTF8_STRING" /\ ~lorieCheckUTF8(utf8) -> <<>>

\* A client answers a request (lorieProcSendEvent, lorieHandleSelection); who
\* owns the selection by then is not looked at.
ClientAnswers(a) ==
  /\ a \in asked
  /\ \/ /\ clipboardEnabled /\ a.target = "TARGETS"
        /\ asked' = (asked \ {a}) \cup UNION {SelectionRequest(owner, t) : t \in PreferredTarget(a.client)}
        /\ hist' = [hist EXCEPT !.missed = @ \/ Offers[a.client] = {}]
        /\ UNCHANGED down
     \/ /\ clipboardEnabled /\ a.target \in Targets \ Offers[a.client]
        /\ asked' = asked \ {a}
        /\ UNCHANGED <<down, hist>>
     \/ /\ clipboardEnabled /\ a.target \in Offers[a.client]
        /\ asked' = asked \ {a}
        /\ LET r == ReceivedText(a.client, a.target)
               marked == [hist EXCEPT !.crossed = @ \/ a.client # owner, !.missed = @ \/ ~alive \/ r \in {<<>>, <<Copy(own[a.client], <<>>)>>}]
           IN  IF alive /\ r # <<>>
               THEN /\ down' = down \o Head1("send", r[1]) \o Payload(r[1])
                    /\ hist' = Write(marked, "send", r[1])
               ELSE hist' = marked /\ UNCHANGED down
     \/ /\ ~clipboardEnabled
        /\ asked' = asked \ {a}
        /\ hist' = [hist EXCEPT !.missed = TRUE]
        /\ UNCHANGED down
  /\ UNCHANGED <<androidVars, alive, up, clipboardEnabled, owner, own, cachedData, pending, work>>

-----------------------------------------------------------------------------
Activity == ActivityReadsEvent \/ ActivityReadsGarbage
Main == HandleClipboardAnnounce \/ HandleClipboardData

Next ==
  \/ UserCopies \/ GraceEnds \/ HandleClipboardChange \/ FocusChanged \/ ReloadPreferences
  \/ Connect \/ Disconnect \/ Activity \/ ServerReads \/ Main
  \/ \E t \in Targets : Paste(t)
  \/ \E c \in Clients : ClientCopies(c)
  \/ \E a \in asked : ClientAnswers(a)

\* Every thread goes on; users, clients and the network do as they please.
Fairness == WF_vars(Activity) /\ WF_vars(ServerReads) /\ WF_vars(Main)

Spec == Init /\ [][Next]_vars /\ Fairness

-----------------------------------------------------------------------------
\* What a copy looks like in either encoding: X texts lose their carriage returns.
Expected(c, n, shown) ==
  FlattenSeq([i \in DOMAIN Text[c][n] |-> IF c # "android" /\ Text[c][n][i] = 13 THEN <<>> ELSE shown[Text[c][n][i]]])
ExpectedUtf8 == [c \in DOMAIN Text |-> [n \in 1..MaxCopies |-> Expected(c, n, [p \in Nat |-> Utf8Point(p)])]]
ExpectedLatin1 == [c \in DOMAIN Text |-> [n \in 1..MaxCopies |->
  Expected(c, n, [p \in Nat |-> <<IF p > 255 THEN QuestionMark ELSE p>>])]]
Shows(data, bytes, encoding) ==
  bytes = IF data.id = 0 THEN <<>> ELSE encoding[hist.by[data.id]][data.id]

\* A text keeps its characters on every way between the clients and Android:
\* only carriage returns are lost, and what Latin-1 lacks becomes '?'.
TextIntact ==
  /\ Shows(clip, clip.bytes, ExpectedUtf8)
  /\ LET p == hist.pasted
     IN  Shows(p.data, p.bytes, IF p.target = "STRING" THEN ExpectedLatin1 ELSE ExpectedUtf8)

\* "whatever is in our cache is now stale": nobody is given a text older than
\* the announcement handled before he asked, unless Android itself went back
\* to an older text that crossed the announcement, or sync was switched off;
\* and nobody is kept waiting for a text that is cached.
AnswersFresh ==
  /\ LET d == hist.pasted.data IN d.id >= hist.pasted.need \/ d.back \/ d = NoText
  /\ pending # <<>> => cachedData = NoData

\* Nothing is under way that could still change a clipboard.
Quiet ==
  /\ alive /\ view.sync /\ clipboardEnabled /\ ~Changed(clip, view)
  /\ up = <<>> /\ down = <<>> /\ work = <<>> /\ asked = {} /\ pending = <<>>

\* When everything has settled both sides hold the same copy, if the latest
\* one could be passed on and no older announcement or text came after it.
ClipboardsAgree ==
  Quiet /\ ~hist.missed /\ ~hist.crossed =>
    /\ owner \in Clients => clip.id = own[owner]
    /\ owner = Server => cachedData \in {NoData, clip}

\* The byte too many costs an event only if it was written behind a text that
\* the activity had not read yet; the stream is in step again once it is empty.
SwallowedOnlyBehindText == hist.swallowed => hist.behindText

\* A paste is answered, unless its request was lost: with the connection, in
\* the socket, or because Android hides the clipboard or has cleared it.
RequestAnswered == pending # <<>> ~> (pending = <<>> \/ hist.dropped)
=============================================================================
