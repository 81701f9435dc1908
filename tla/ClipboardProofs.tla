--------------------------- MODULE ClipboardProofs ---------------------------
(***************************************************************************)
(* Proofs about module Clipboard, for any clients, texts and bounds.  What *)
(* the conversions of ClipboardText compute matters only to the last part, *)
(* where a text keeps its characters.                                      *)
(***************************************************************************)
EXTENDS Clipboard, SequenceTheorems, WellFoundedInduction, TLAPS

(* What the queues hold. *)

Texts ==
  {<<>>} \cup {Utf8Text["android"][n] : n \in Nat}
         \cup {lorieLatin1ToUTF8(lorieConvertLF(Text[c][n])) : c \in Clients, n \in Nat}
         \cup {lorieConvertLF(Utf8Text[c][n]) : c \in Clients, n \in Nat}

Copies == [id : Int, bytes : Texts, back : BOOLEAN]

Tokens ==
  [kind : {"type"}, ev : {"send", "request"}, data : Copies]
    \cup [kind : {"rest"}] \cup [kind : {"text"}]

Ups ==
  [kind : {"announce"}, id : Nat] \cup [kind : {"enable"}, on : BOOLEAN]
    \cup [kind : {"send"}, data : Copies]

HistFields ==
  {"copies", "by", "connects", "announced", "missed", "crossed", "dropped",
   "behindText", "swallowed", "pasted"}

HistTyped(h) ==
  /\ DOMAIN h = HistFields /\ h = [f \in HistFields |-> h[f]]
  /\ h.copies \in Nat /\ h.announced \in Nat

ViewTyped(v) == v \in [focus : BOOLEAN, listening : BOOLEAN, sync : BOOLEAN, seen : Nat, blind : BOOLEAN]

Waiting == [target : Targets, need : Nat]

Typed ==
  /\ clip \in Copies /\ cachedData \in Copies /\ ViewTyped(view) /\ HistTyped(hist)
  /\ up \in Seq(Ups) /\ work \in Seq(Ups) /\ down \in Seq(Tokens) /\ pending \in Seq(Waiting)
  /\ own \in [Clients -> Nat]
  /\ \A a \in asked : a.client \in Clients

-----------------------------------------------------------------------------
(* The stream to the activity.  As long as no text was written since the   *)
(* socket was last empty it holds whole events, and events without a text. *)

WholeEvents(q) ==
  \E k \in Nat :
     /\ Len(q) = 2 * k
     /\ \A j \in 1..k : /\ q[2 * j - 1].kind = "type" /\ q[2 * j - 1].data.bytes = <<>>
                        /\ q[2 * j].kind = "rest"

InStep == ~hist.behindText => ~hist.swallowed /\ WholeEvents(down)

-----------------------------------------------------------------------------
(* The age of a text.  An announcement n is needed once it was handled: by *)
(* the pastes that wait and the next that come.  Every text on its way is  *)
(* fresh for what is needed and for every announcement in front of it.     *)

Fresh(d, n) == d.id >= n \/ d.back \/ d = NoText

Needed(n) == n = hist.announced \/ \E i \in DOMAIN pending : pending[i].need = n

Announces(q, n) == \E i \in DOMAIN q : q[i].kind = "announce" /\ q[i].id = n

AnnouncesBefore(q, k, n) ==
  \E i \in DOMAIN q : i < k /\ q[i].kind = "announce" /\ q[i].id = n

Known(n) == Needed(n) \/ Announces(work, n) \/ Announces(up, n)

DownCounted ==
  \A i \in DOMAIN down : down[i].kind = "type" => down[i].data.id <= hist.copies

CopiesCounted ==
  /\ view.seen <= hist.copies /\ clip.id <= hist.copies
  /\ \A c \in Clients : own[c] <= hist.copies
  /\ DownCounted

ClipFresh == \A n \in Nat : Known(n) => n <= view.seen /\ Fresh(clip, n)

WorkFresh ==
  \A k \in DOMAIN work : work[k].kind = "send" =>
     \A n \in Nat : Needed(n) \/ AnnouncesBefore(work, k, n) => Fresh(work[k].data, n)

UpFresh ==
  \A k \in DOMAIN up : up[k].kind = "send" =>
     \A n \in Nat : Needed(n) \/ Announces(work, n) \/ AnnouncesBefore(up, k, n) => Fresh(up[k].data, n)

CacheFresh == cachedData # NoData => Fresh(cachedData, hist.announced)

FreshInv ==
  /\ CopiesCounted /\ ClipFresh /\ WorkFresh /\ UpFresh /\ CacheFresh
  /\ AnswersFresh

-----------------------------------------------------------------------------
LEMMA SpecialCopies == NoText \in Copies /\ NoData \in Copies /\ NoText # NoData
  BY DEF NoText, NoData, Copy, Copies, Texts

LEMMA EmptyQueue == ASSUME NEW S PROVE <<>> \in Seq(S)
  OBVIOUS

LEMMA InitTyped == Init => Typed
<1> SUFFICES ASSUME Init PROVE Typed
  OBVIOUS
<1>1. clip \in Copies /\ cachedData \in Copies
  BY SpecialCopies DEF Init
<1>2. ViewTyped(view)
  BY DEF Init, ViewTyped
<1>3. HistTyped(hist)
  BY DEF Init, HistTyped, HistFields
<1>4. up \in Seq(Ups) /\ work \in Seq(Ups) /\ down \in Seq(Tokens) /\ pending \in Seq(Waiting)
  BY EmptyQueue DEF Init
<1>5. own \in [Clients -> Nat] /\ \A a \in asked : a.client \in Clients
  BY DEF Init
<1> QED
  BY <1>1, <1>2, <1>3, <1>4, <1>5 DEF Typed

\* A message to the server is appended, or lost if nobody is connected.
LEMMA SendEffect ==
  ASSUME NEW m \in Ups, Typed, Send(m)
  PROVE  up' \in Seq(Ups) /\ up' \in {up, Append(up, m)}
  BY DEF Send, Typed

\* The activity answers a request with its clipboard, with no text, or not at all.
LEMMA RequestEffect ==
  ASSUME Typed,
         up' = up \o [i \in DOMAIN RequestedClip |-> [kind |-> "send", data |-> RequestedClip[i]]]
  PROVE  \/ up' = up
         \/ \E d \in {NoText, clip} : up' = Append(up, [kind |-> "send", data |-> d])
<1> DEFINE msg(d) == [kind |-> "send", data |-> d]
<1>0. up \in Seq(Ups)
  BY DEF Typed
<1>1. CASE RequestedClip = <<>>
  <2>1. [i \in DOMAIN RequestedClip |-> msg(RequestedClip[i])] = <<>>
    BY <1>1
  <2> QED
    BY <1>0, <2>1, ConcatEmptySeq
<1>2. ASSUME NEW d \in {NoText, clip}, RequestedClip = <<d>>
      PROVE  up' = Append(up, msg(d))
  <2>1. [i \in DOMAIN RequestedClip |-> msg(RequestedClip[i])] = <<msg(d)>>
    BY <1>2
  <2>2. msg(d) \in Ups
    BY SpecialCopies DEF Typed, Ups
  <2> HIDE DEF msg
  <2>3. up' = up \o <<msg(d)>>
    BY <2>1 DEF msg
  <2> QED
    BY <1>0, <2>2, <2>3, AppendIsConcat
<1>3. RequestedClip \in {<<>>, <<NoText>>, <<clip>>}
  BY DEF RequestedClip, Typed, ViewTyped
<1> QED
  BY <1>1, <1>2, <1>3

\* What a client's answer brings.
LEMMA ReceivedEffect ==
  ASSUME Typed, NEW c \in Clients, NEW t \in Targets
  PROVE  \/ ReceivedText(c, t) = <<>>
         \/ \E d \in Copies : d.id = own[c] /\ d = Copy(own[c], d.bytes) /\ ReceivedText(c, t) = <<d>>
<1>1. own[c] \in Nat
  BY DEF Typed
<1>2. \A b \in Texts : /\ Copy(own[c], b) \in Copies /\ Copy(own[c], b).id = own[c]
                       /\ Copy(own[c], b).bytes = b
  BY <1>1 DEF Copy, Copies
<1>3. /\ lorieLatin1ToUTF8(lorieConvertLF(Text[c][own[c]])) \in Texts
      /\ lorieConvertLF(Utf8Text[c][own[c]]) \in Texts
  BY <1>1 DEF Texts
<1>4. CASE t = "STRING"
  BY <1>2, <1>3, <1>4 DEF ReceivedText
<1>5. CASE t = "UTF8_STRING"
  BY <1>2, <1>3, <1>5 DEF ReceivedText
<1> QED
  BY <1>4, <1>5 DEF Targets

\* The bytes of one event.
LEMMA EventTokens ==
  ASSUME NEW ev \in {"send", "request"}, NEW d \in Copies
  PROVE  /\ Head1(ev, d) \in Seq(Tokens) /\ Len(Head1(ev, d)) = 2
         /\ Payload(d) \in Seq(Tokens) /\ Len(Payload(d)) = IF d.bytes = <<>> THEN 0 ELSE 1
         /\ Head1(ev, d)[1] = [kind |-> "type", ev |-> ev, data |-> d]
         /\ Head1(ev, d)[2] = [kind |-> "rest"]
         /\ d.bytes # <<>> => Payload(d)[1] = [kind |-> "text"]
<1>1. /\ [kind |-> "type", ev |-> ev, data |-> d] \in Tokens
      /\ [kind |-> "rest"] \in Tokens /\ [kind |-> "text"] \in Tokens
  BY DEF Tokens
<1> QED
  BY <1>1 DEF Head1, Payload

\* What is left of a stream once its first bytes are read.
LEMMA RestOfStream ==
  ASSUME NEW S, NEW q \in Seq(S), NEW m \in Nat, m >= 1
  PROVE  /\ SubSeq(q, m, Len(q)) \in Seq(S)
         /\ Len(SubSeq(q, m, Len(q))) = IF m <= Len(q) THEN Len(q) - m + 1 ELSE 0
         /\ \A i \in 1..Len(SubSeq(q, m, Len(q))) : SubSeq(q, m, Len(q))[i] = q[m + i - 1]
<1>1. Len(q) \in Nat /\ \A i \in m..Len(q) : q[i] \in S
  BY LenProperties
<1>2. /\ SubSeq(q, m, Len(q)) \in Seq(S)
      /\ Len(SubSeq(q, m, Len(q))) = IF m <= Len(q) THEN Len(q) - m + 1 ELSE 0
      /\ \A i \in 1..(Len(q) - m + 1) : SubSeq(q, m, Len(q))[i] = q[m + i - 1]
  BY <1>1, SubSeqProperties
<1> QED
  BY <1>1, <1>2

-----------------------------------------------------------------------------
(* The history variable: which fields a step leaves alone. *)

SameAges(h, g) == g.copies = h.copies /\ g.announced = h.announced /\ g.pasted = h.pasted
SameStream(h, g) == g.behindText = h.behindText /\ g.swallowed = h.swallowed

LEMMA MarkOne ==
  ASSUME NEW h, HistTyped(h), NEW f \in HistFields \ {"copies", "announced"}, NEW e
  PROVE  /\ HistTyped([h EXCEPT ![f] = e])
         /\ [h EXCEPT ![f] = e][f] = e
         /\ \A x \in HistFields \ {f} : [h EXCEPT ![f] = e][x] = h[x]
  BY DEF HistTyped, HistFields

LEMMA SwallowEffect ==
  ASSUME NEW h, HistTyped(h), NEW token
  PROVE  /\ HistTyped(Swallow(h, token)) /\ SameAges(h, Swallow(h, token))
         /\ Swallow(h, token).behindText = h.behindText
  BY DEF Swallow, HistTyped, HistFields, SameAges

LEMMA WriteEffect ==
  ASSUME NEW h, HistTyped(h), NEW ev, NEW d
  PROVE  /\ HistTyped(Write(h, ev, d)) /\ SameAges(h, Write(h, ev, d))
         /\ ~Write(h, ev, d).behindText =>
               /\ Payload(d) = <<>>
               /\ down # <<>> => ~h.behindText /\ Write(h, ev, d).swallowed = h.swallowed
               /\ down = <<>> => ~Write(h, ev, d).swallowed
<1>1. CASE down = <<>>
  BY <1>1 DEF Write, HistTyped, HistFields, SameAges
<1>2. CASE down # <<>>
  BY <1>2 DEF Write, HistTyped, HistFields, SameAges
<1> QED
  BY <1>1, <1>2

Announcement == [kind |-> "announce", id |-> clip.id]

\* checkForClipboardChange: the clipboard is announced only if it is newer.
LEMMA AnnounceEffect ==
  ASSUME Typed, NEW v, ViewTyped(v), Announce(clip, v)
  PROVE  /\ ViewTyped(view') /\ HistTyped(hist') /\ up' \in Seq(Ups)
         /\ SameAges(hist, hist') /\ SameStream(hist, hist')
         /\ \/ up' = up /\ view'.seen = v.seen
            \/ /\ up' \in {up, Append(up, Announcement)} /\ Announcement \in Ups
               /\ v.seen < clip.id /\ view'.seen = clip.id
<1>1. CASE Changed(clip, v)
  <2>1. clip.id \in Nat /\ v.seen < clip.id
    BY <1>1 DEF Changed, Typed, ViewTyped, Copies
  <2>2. Announcement \in Ups
    BY <2>1 DEF Announcement, Ups
  <2>3. up' \in Seq(Ups) /\ up' \in {up, Append(up, Announcement)}
    BY <1>1, <2>2, SendEffect DEF Announce, Announcement
  <2>4. ViewTyped(view') /\ view'.seen = clip.id
    BY <1>1, <2>1 DEF Announce, ViewTyped
  <2>5. hist' = [hist EXCEPT !.missed = @ \/ ~alive]
    BY <1>1 DEF Announce
  <2>6. HistTyped(hist') /\ SameAges(hist, hist') /\ SameStream(hist, hist')
    BY <2>5 DEF Typed, HistTyped, HistFields, SameAges, SameStream
  <2> QED
    BY <2>1, <2>2, <2>3, <2>4, <2>6
<1>2. CASE ~Changed(clip, v)
  BY <1>2 DEF Announce, Typed, SameAges, SameStream
<1> QED
  BY <1>1, <1>2

-----------------------------------------------------------------------------
(* The types, action by action. *)

LEMMA TypedUserCopies ==
  ASSUME Typed, UserCopies
  PROVE  /\ Typed'
         /\ clip'.id = hist.copies + 1 /\ hist'.copies = hist.copies + 1
         /\ view'.seen \in {view.seen, hist.copies + 1}
         /\ hist'.announced = hist.announced /\ hist'.pasted = NothingPasted
         /\ SameStream(hist, hist')
<1>1. hist.copies + 1 \in Nat
  BY DEF Typed, HistTyped
<1>2. Utf8Text["android"][hist.copies + 1] \in Texts
  BY <1>1 DEF Texts
<1>3. clip' \in Copies /\ clip'.id = hist.copies + 1
  BY <1>1, <1>2 DEF UserCopies, NewCopy, Copy, Copies
<1>4. ViewTyped(view') /\ view'.seen \in {view.seen, hist.copies + 1}
  BY <1>1 DEF UserCopies, NewCopy, Typed, ViewTyped
<1>5. /\ HistTyped(hist') /\ hist'.copies = hist.copies + 1 /\ hist'.announced = hist.announced
      /\ hist'.pasted = NothingPasted /\ SameStream(hist, hist')
  BY <1>1 DEF UserCopies, CopyMade, Typed, HistTyped, HistFields, SameStream
<1> QED
  BY <1>3, <1>4, <1>5 DEF UserCopies, Typed, xVars

\* Steps of the view that may announce the clipboard.
LEMMA TypedAnnouncing ==
  ASSUME Typed, NEW v, ViewTyped(v), Announce(clip, v),
         UNCHANGED <<clip, alive, down, xVars>>
  PROVE  Typed'
<1>1. ViewTyped(view') /\ HistTyped(hist') /\ up' \in Seq(Ups)
  BY AnnounceEffect
<1> QED
  BY <1>1 DEF Typed, xVars

FocusedView == [view EXCEPT !.focus = ~view.focus, !.listening = view.sync /\ ~view.focus]

LEMMA FocusTyped ==
  ASSUME Typed
  PROVE  ViewTyped(FocusedView) /\ FocusedView.seen = view.seen
<1>1. (view.sync /\ ~view.focus) \in BOOLEAN /\ (~view.focus) \in BOOLEAN
  OBVIOUS
<1> QED
  BY <1>1 DEF FocusedView, Typed, ViewTyped

\* A focus change announces the clipboard or leaves everything but the view.
LEMMA FocusEffect ==
  ASSUME Typed, FocusChanged
  PROVE  /\ \/ Announce(clip, FocusedView)
            \/ view' = FocusedView /\ UNCHANGED <<up, hist>>
         /\ UNCHANGED <<clip, alive, down, xVars>>
  BY DEF FocusChanged, FocusedView

LEMMA TypedReloadPreferences ==
  ASSUME Typed, ReloadPreferences
  PROVE  /\ Typed' /\ view'.seen = view.seen
         /\ \E on \in BOOLEAN : up' \in {up, Append(up, [kind |-> "enable", on |-> on])}
<1> DEFINE m == [kind |-> "enable", on |-> ~view.sync]
<1>0. (~view.sync) \in BOOLEAN
  OBVIOUS
<1>1. m \in Ups
  BY <1>0 DEF Ups
<1>2. up' \in Seq(Ups) /\ up' \in {up, Append(up, m)}
  BY <1>1, SendEffect DEF ReloadPreferences
<1>3. ViewTyped(view') /\ view'.seen = view.seen
  BY DEF ReloadPreferences, Typed, ViewTyped
<1> QED
  BY <1>0, <1>2, <1>3 DEF ReloadPreferences, Typed, xVars

LEMMA TypedConnect ==
  ASSUME Typed, Connect
  PROVE  /\ Typed' /\ SameAges(hist, hist') /\ SameStream(hist, hist')
         /\ \E on \in BOOLEAN : up' = <<[kind |-> "enable", on |-> on]>>
<1>1. view.sync \in BOOLEAN
  BY DEF Typed, ViewTyped
<1>2. [kind |-> "enable", on |-> view.sync] \in Ups
  BY <1>1 DEF Ups
<1>3. up' \in Seq(Ups)
  BY <1>2 DEF Connect
<1>4. HistTyped(hist') /\ SameAges(hist, hist') /\ SameStream(hist, hist')
  BY DEF Connect, Typed, HistTyped, HistFields, SameAges, SameStream
<1> QED
  BY <1>1, <1>3, <1>4 DEF Connect, Typed, xVars

LEMMA TypedDisconnect ==
  ASSUME Typed, Disconnect
  PROVE  Typed' /\ SameAges(hist, hist') /\ SameStream(hist, hist')
<1> DEFINE missed == hist.missed \/ (\E m \in Range(up) : m.kind = "announce")
                       \/ (\E t \in Range(down) : t.kind = "type" /\ t.ev = "send")
           dropped == hist.dropped \/ pending # <<>>
<1>1. hist' = [hist EXCEPT !.missed = missed, !.dropped = dropped]
  BY DEF Disconnect
<1> HIDE DEF missed, dropped
<1>2. HistTyped(hist') /\ SameAges(hist, hist') /\ SameStream(hist, hist')
  BY <1>1 DEF Typed, HistTyped, HistFields, SameAges, SameStream
<1>3. up' \in Seq(Ups) /\ down' \in Seq(Tokens)
  BY EmptyQueue DEF Disconnect
<1> QED
  BY <1>2, <1>3 DEF Disconnect, Typed, androidVars

\* The three cases of an event the activity reads.
TakesText(d, rest) ==
  /\ SetClipboardText(d) /\ down' = SubSeq(down, rest, Len(down)) /\ UNCHANGED up
DropsEmpty == down' = SubSeq(down, 3, Len(down)) /\ UNCHANGED <<clip, view, up, hist>>
AnswersRequest ==
  /\ down' = SubSeq(down, 3, Len(down)) /\ UNCHANGED <<clip, view>>
  /\ \/ up' = up
     \/ \E d \in {NoText, clip} : up' = Append(up, [kind |-> "send", data |-> d])

LEMMA FirstToken ==
  ASSUME Typed, down # <<>>, down[1].kind = "type"
  PROVE  down[1].data \in Copies /\ down[1].ev \in {"send", "request"}
<1>1. down[1] \in Tokens
  BY DEF Typed
<1> QED
  BY <1>1 DEF Tokens

LEMMA ReadEffect ==
  ASSUME Typed, ActivityReadsEvent
  PROVE  /\ Len(down) >= 2 /\ down[1].kind = "type" /\ down[1].data \in Copies
         /\ UNCHANGED <<alive, xVars>>
         /\ HistTyped(hist') /\ SameAges(hist, hist') /\ hist'.behindText = hist.behindText
         /\ \/ /\ down[1].data.bytes # <<>>
               /\ \E rest \in Nat \ {0} : TakesText(down[1].data, rest)
            \/ DropsEmpty
            \/ AnswersRequest /\ hist'.swallowed = hist.swallowed
<1> DEFINE e == down[1]
           n == Len(Payload(e.data))
           extra == IF 3 + n \in DOMAIN down THEN down[3 + n] ELSE [kind |-> "none"]
<1>1. Len(down) >= 2 /\ e.kind = "type" /\ UNCHANGED <<alive, xVars>>
  BY DEF ActivityReadsEvent
<1>2. e.data \in Copies /\ n \in Nat
  <2>1. down # <<>>
    BY <1>1
  <2>2. e.data \in Copies
    BY <1>1, <2>1, FirstToken
  <2> QED
    BY <2>2, EventTokens
<1>3. CASE /\ e.ev = "send" /\ ReadsText(e.data)
           /\ SetClipboardText(e.data)
           /\ down' = SubSeq(down, 4 + n, Len(down))
           /\ hist' = [Swallow(hist, extra) EXCEPT !.missed = @ \/ view.seen < clip.id,
                                                      !.crossed = @ \/ e.data.id < clip.id]
           /\ UNCHANGED up
  <2>1. e.data.bytes # <<>> /\ TakesText(e.data, 4 + n) /\ 4 + n \in Nat \ {0}
    BY <1>2, <1>3 DEF ReadsText, TakesText
  <2> DEFINE s == Swallow(hist, extra)
  <2>2. HistTyped(s) /\ SameAges(hist, s) /\ s.behindText = hist.behindText
    BY SwallowEffect DEF Typed
  <2>3. hist' = [s EXCEPT !.missed = s.missed \/ view.seen < clip.id,
                          !.crossed = s.crossed \/ e.data.id < clip.id]
    BY <1>3
  <2> HIDE DEF s
  <2>4. HistTyped(hist') /\ SameAges(hist, hist') /\ hist'.behindText = hist.behindText
    BY <2>2, <2>3 DEF HistTyped, HistFields, SameAges
  <2> QED
    BY <1>1, <1>2, <2>1, <2>4
<1>4. CASE e.ev = "send" /\ ~ReadsText(e.data) /\ DropsEmpty
  BY <1>1, <1>2, <1>4 DEF Typed, SameAges, DropsEmpty
<1>5. CASE /\ e.ev = "request"
           /\ up' = up \o [i \in DOMAIN RequestedClip |-> [kind |-> "send", data |-> RequestedClip[i]]]
           /\ down' = SubSeq(down, 3, Len(down))
           /\ hist' = [hist EXCEPT !.dropped = @ \/ (view.sync /\ ~view.focus), !.missed = @ \/ ~view.sync]
           /\ UNCHANGED <<clip, view>>
  <2>1. AnswersRequest
    BY <1>5, RequestEffect DEF AnswersRequest
  <2>2. HistTyped(hist') /\ SameAges(hist, hist') /\ SameStream(hist, hist')
    BY <1>5 DEF Typed, HistTyped, HistFields, SameAges, SameStream
  <2> QED
    BY <1>1, <1>2, <2>1, <2>2 DEF SameStream
<1>6. CASE /\ e.ev = "request" /\ view.sync
           /\ down' = SubSeq(down, 3, Len(down))
           /\ hist' = [hist EXCEPT !.dropped = TRUE]
           /\ UNCHANGED <<clip, view, up>>
  <2>1. AnswersRequest
    BY <1>6 DEF AnswersRequest
  <2>2. HistTyped(hist') /\ SameAges(hist, hist') /\ SameStream(hist, hist')
    BY <1>6 DEF Typed, HistTyped, HistFields, SameAges, SameStream
  <2> QED
    BY <1>1, <1>2, <2>1, <2>2 DEF SameStream
<1> QED
  BY <1>3, <1>4, <1>5, <1>6 DEF ActivityReadsEvent, DropsEmpty

LEMMA TypedReadsEvent ==
  ASSUME Typed, ActivityReadsEvent
  PROVE  Typed'
<1>1. HistTyped(hist') /\ UNCHANGED xVars /\ down[1].data \in Copies
  BY ReadEffect
<1>2. CASE \E rest \in Nat \ {0} : TakesText(down[1].data, rest)
  <2>1. PICK rest \in Nat \ {0} : TakesText(down[1].data, rest)
    BY <1>2
  <2>2. down' \in Seq(Tokens)
    BY <2>1, RestOfStream DEF TakesText, Typed
  <2>3. (down[1].data.id < view.seen \/ down[1].data.id < clip.id) \in BOOLEAN
    OBVIOUS
  <2>4. clip' \in Copies
    BY <1>1, <2>1, <2>3 DEF TakesText, SetClipboardText, Copies
  <2>5. ViewTyped(view')
    BY <2>1 DEF TakesText, SetClipboardText, ViewTyped, Typed, HistTyped
  <2> QED
    BY <1>1, <2>1, <2>2, <2>4, <2>5 DEF TakesText, Typed, xVars
<1>3. CASE DropsEmpty
  <2>1. down' \in Seq(Tokens)
    BY <1>3, RestOfStream DEF DropsEmpty, Typed
  <2> QED
    BY <1>1, <1>3, <2>1 DEF DropsEmpty, Typed, xVars
<1>4. CASE AnswersRequest
  <2>1. down' \in Seq(Tokens)
    BY <1>4, RestOfStream DEF AnswersRequest, Typed
  <2>2. \A d \in {NoText, clip} : [kind |-> "send", data |-> d] \in Ups
    BY SpecialCopies DEF Ups, Typed
  <2>3. up' \in Seq(Ups)
    <3>1. up \in Seq(Ups)
      BY DEF Typed
    <3>2. CASE up' = up
      BY <3>1, <3>2
    <3>3. ASSUME NEW d \in {NoText, clip}, up' = Append(up, [kind |-> "send", data |-> d])
          PROVE  up' \in Seq(Ups)
      BY <3>1, <2>2, <3>3, AppendProperties
    <3> QED
      BY <1>4, <3>2, <3>3 DEF AnswersRequest
  <2> QED
    BY <1>1, <1>4, <2>1, <2>3 DEF AnswersRequest, Typed, xVars
<1> QED
  BY <1>2, <1>3, <1>4, ReadEffect

LEMMA TypedReadsGarbage ==
  ASSUME Typed, ActivityReadsGarbage
  PROVE  /\ Typed' /\ SameAges(hist, hist') /\ hist'.behindText = hist.behindText
         /\ down' = SubSeq(down, 3, Len(down))
         /\ down # <<>> /\ (Len(down) = 1 \/ down[1].kind # "type")
<1>1. HistTyped(hist') /\ SameAges(hist, hist') /\ hist'.behindText = hist.behindText
  BY SwallowEffect DEF ActivityReadsGarbage, Typed, SameAges
<1>2. down' \in Seq(Tokens)
  BY RestOfStream DEF ActivityReadsGarbage, Typed
<1> QED
  BY <1>1, <1>2 DEF ActivityReadsGarbage, Typed, xVars

LEMMA TypedServerReads ==
  ASSUME Typed, ServerReads
  PROVE  /\ Typed' /\ up # <<>> /\ up' = Tail(up) /\ Head(up) \in Ups
         /\ \/ work' = work /\ Head(up).kind = "enable"
            \/ work' = Append(work, Head(up))
<1>1. up # <<>> /\ up' = Tail(up)
  BY DEF ServerReads
<1>2. up' \in Seq(Ups) /\ Head(up) \in Ups
  BY <1>1, HeadTailProperties DEF Typed
<1>3. \/ work' = work /\ Head(up).kind = "enable"
      \/ work' = Append(work, Head(up))
  BY DEF ServerReads, QueueWorkProc
<1>4. work' \in Seq(Ups)
  <2>1. work \in Seq(Ups)
    BY DEF Typed
  <2> QED
    BY <1>2, <1>3, <2>1, AppendProperties
<1> QED
  BY <1>1, <1>2, <1>3, <1>4 DEF ServerReads, Typed, androidVars

LEMMA TypedHandleAnnounce ==
  ASSUME Typed, HandleClipboardAnnounce
  PROVE  /\ Typed' /\ work # <<>> /\ Head(work).kind = "announce" /\ work' = Tail(work)
         /\ cachedData' = NoData /\ hist'.announced = Head(work).id
         /\ hist'.copies = hist.copies /\ hist'.pasted = hist.pasted
         /\ SameStream(hist, hist')
         /\ UNCHANGED <<clip, view, up, down, own, pending>>
<1>1. work # <<>> /\ Head(work).kind = "announce" /\ work' = Tail(work)
  BY DEF HandleClipboardAnnounce
<1>2. Head(work) \in Ups /\ work' \in Seq(Ups)
  BY <1>1, HeadTailProperties DEF Typed
<1>3. Head(work).id \in Nat
  BY <1>1, <1>2 DEF Ups
<1>4. PICK crossed : hist' = [hist EXCEPT !.announced = Head(work).id, !.crossed = crossed]
  BY DEF HandleClipboardAnnounce
<1>5. /\ HistTyped(hist') /\ hist'.announced = Head(work).id
      /\ hist'.copies = hist.copies /\ hist'.pasted = hist.pasted
      /\ SameStream(hist, hist')
  BY <1>3, <1>4 DEF Typed, HistTyped, HistFields, SameStream
<1>6. cachedData' = NoData /\ cachedData' \in Copies
  BY SpecialCopies DEF HandleClipboardAnnounce, CacheAfterAnnounce
<1> QED
  BY <1>1, <1>2, <1>5, <1>6 DEF HandleClipboardAnnounce, Typed, androidVars

LEMMA TypedHandleData ==
  ASSUME Typed, HandleClipboardData
  PROVE  /\ Typed' /\ work # <<>> /\ Head(work).kind = "send" /\ work' = Tail(work)
         /\ cachedData' = Head(work).data /\ pending' = <<>>
         /\ hist'.announced = hist.announced /\ hist'.copies = hist.copies
         /\ hist'.pasted = IF pending = <<>> THEN hist.pasted ELSE Pasted(Head(work).data, Head(pending))
         /\ SameStream(hist, hist')
         /\ UNCHANGED <<clip, view, up, down, own>>
<1>1. work # <<>> /\ Head(work).kind = "send" /\ work' = Tail(work)
  BY DEF HandleClipboardData
<1>2. Head(work) \in Ups /\ work' \in Seq(Ups)
  BY <1>1, HeadTailProperties DEF Typed
<1>3. Head(work).data \in Copies
  BY <1>1, <1>2 DEF Ups
<1>4. hist' = [hist EXCEPT !.dropped = FALSE,
                           !.pasted = IF pending = <<>> THEN hist.pasted
                                      ELSE Pasted(Head(work).data, Head(pending))]
  BY DEF HandleClipboardData
<1>5. /\ HistTyped(hist')
      /\ hist'.announced = hist.announced /\ hist'.copies = hist.copies
      /\ hist'.pasted = IF pending = <<>> THEN hist.pasted ELSE Pasted(Head(work).data, Head(pending))
      /\ SameStream(hist, hist')
  BY <1>4 DEF Typed, HistTyped, HistFields, SameStream
<1> QED
  BY <1>1, <1>2, <1>3, <1>5, EmptyQueue DEF HandleClipboardData, Typed, androidVars

\* A paste is answered from the cache, or waits and has the text requested.
PasteCached(t) ==
  /\ cachedData # NoData /\ hist'.pasted = Pasted(cachedData, [target |-> t, need |-> hist.announced])
  /\ UNCHANGED <<pending, down>> /\ SameStream(hist, hist')
PasteWaits(t) ==
  /\ cachedData = NoData /\ hist'.pasted = hist.pasted
  /\ pending' = <<[target |-> t, need |-> hist.announced]>> \o pending
  /\ \/ UNCHANGED down /\ SameStream(hist, hist')
     \/ down' = down \o Head1("request", NoText) /\ hist' = Write(hist, "request", NoText)

LEMMA TypedPaste ==
  ASSUME Typed, NEW t \in Targets, Paste(t)
  PROVE  /\ Typed' /\ hist'.announced = hist.announced /\ hist'.copies = hist.copies
         /\ UNCHANGED <<clip, view, up, own, work, cachedData>>
         /\ PasteCached(t) \/ PasteWaits(t)
<1> DEFINE p == [target |-> t, need |-> hist.announced]
<1>0. HistTyped(hist) /\ pending \in Seq(Waiting) /\ down \in Seq(Tokens)
  BY DEF Typed
<1>1. p \in Waiting
  BY <1>0 DEF HistTyped, Waiting
<1>2. CASE /\ cachedData # NoData
           /\ hist' = [hist EXCEPT !.pasted = Pasted(cachedData, p)]
           /\ UNCHANGED <<pending, down>>
  <2>1. /\ HistTyped(hist') /\ hist'.announced = hist.announced /\ hist'.copies = hist.copies
        /\ hist'.pasted = Pasted(cachedData, p) /\ SameStream(hist, hist')
    BY <1>0, <1>2 DEF HistTyped, HistFields, SameStream
  <2> QED
    BY <1>2, <2>1 DEF Paste, PasteCached, Typed, androidVars
<1>3. CASE /\ cachedData = NoData
           /\ pending' = <<p>> \o pending
           /\ down' = IF alive THEN down \o Head1("request", NoText) ELSE down
           /\ hist' = IF alive THEN Write(hist, "request", NoText) ELSE [hist EXCEPT !.dropped = TRUE]
  <2>1. pending' \in Seq(Waiting)
    BY <1>0, <1>1, <1>3
  <2>2. CASE alive
    <3>1. down' = down \o Head1("request", NoText) /\ hist' = Write(hist, "request", NoText)
      BY <1>3, <2>2
    <3>2. down' \in Seq(Tokens)
      <4>1. Head1("request", NoText) \in Seq(Tokens)
        BY EventTokens, SpecialCopies
      <4> QED
        BY <1>0, <3>1, <4>1, ConcatProperties
    <3>3. HistTyped(hist') /\ SameAges(hist, hist')
      BY <1>0, <3>1, WriteEffect
    <3> QED
      BY <1>3, <2>1, <3>1, <3>2, <3>3 DEF Paste, PasteWaits, Typed, androidVars, SameAges
  <2>3. CASE ~alive
    <3>1. HistTyped(hist') /\ SameAges(hist, hist') /\ SameStream(hist, hist')
      BY <1>0, <1>3, <2>3 DEF HistTyped, HistFields, SameAges, SameStream
    <3> QED
      BY <1>3, <2>1, <2>3, <3>1 DEF Paste, PasteWaits, Typed, androidVars, SameAges
  <2> QED
    BY <2>2, <2>3
<1> QED
  BY <1>2, <1>3 DEF Paste

LEMMA TypedClientCopies ==
  ASSUME Typed, NEW c \in Clients, ClientCopies(c)
  PROVE  /\ Typed' /\ own' = [own EXCEPT ![c] = hist.copies + 1]
         /\ hist'.copies = hist.copies + 1 /\ hist'.announced = hist.announced
         /\ hist'.pasted = NothingPasted /\ SameStream(hist, hist')
         /\ UNCHANGED <<clip, view, up, down, cachedData, pending, work>>
<1>1. hist.copies + 1 \in Nat
  BY DEF Typed, HistTyped
<1>2. /\ HistTyped(hist') /\ hist'.copies = hist.copies + 1 /\ hist'.announced = hist.announced
      /\ hist'.pasted = NothingPasted /\ SameStream(hist, hist')
  BY <1>1 DEF ClientCopies, CopyMade, Typed, HistTyped, HistFields, SameStream
<1>3. own' = [own EXCEPT ![c] = hist.copies + 1] /\ own' \in [Clients -> Nat]
  BY <1>1 DEF ClientCopies, NewCopy, Typed
<1>4. \A a \in asked' : a.client \in Clients
  BY DEF ClientCopies, SelectionRequest, Typed
<1> QED
  BY <1>2, <1>3, <1>4 DEF ClientCopies, Typed, androidVars

\* A client's answer writes its text to the activity, or nothing.
AnswerSent(c) ==
  \E d \in Copies :
     /\ d.id = own[c]
     /\ down' = down \o Head1("send", d) \o Payload(d)
     /\ \E h : HistTyped(h) /\ SameAges(hist, h) /\ SameStream(hist, h) /\ hist' = Write(h, "send", d)

LEMMA TypedClientAnswers ==
  ASSUME Typed, NEW a \in asked, ClientAnswers(a)
  PROVE  /\ Typed' /\ SameAges(hist, hist')
         /\ UNCHANGED <<clip, view, up, own, cachedData, pending, work>>
         /\ a.client \in Clients
         /\ AnswerSent(a.client) \/ (UNCHANGED down /\ SameStream(hist, hist'))
<1>0. HistTyped(hist) /\ down \in Seq(Tokens) /\ a.client \in Clients
  BY DEF Typed
<1>1. UNCHANGED <<clip, view, up, own, cachedData, pending, work>>
  BY DEF ClientAnswers, androidVars
<1>2. \A b \in asked' : b.client \in Clients
  BY DEF ClientAnswers, SelectionRequest, Typed
<1>3. ASSUME NEW m, hist' = [hist EXCEPT !.missed = m]
      PROVE  HistTyped(hist') /\ SameAges(hist, hist') /\ SameStream(hist, hist')
  BY <1>0, <1>3 DEF HistTyped, HistFields, SameAges, SameStream
<1>4. CASE hist' = hist /\ UNCHANGED down
  BY <1>0, <1>1, <1>2, <1>4 DEF Typed, SameAges, SameStream
<1>5. CASE (\E m : hist' = [hist EXCEPT !.missed = m]) /\ UNCHANGED down
  BY <1>0, <1>1, <1>2, <1>3, <1>5 DEF Typed
<1>6. ASSUME a.target \in Offers[a.client],
             NEW r, r = ReceivedText(a.client, a.target),
             NEW x, NEW y, NEW marked, marked = [hist EXCEPT !.crossed = x, !.missed = y],
             IF alive /\ r # <<>>
               THEN /\ down' = down \o Head1("send", r[1]) \o Payload(r[1])
                    /\ hist' = Write(marked, "send", r[1])
               ELSE hist' = marked /\ UNCHANGED down
      PROVE  /\ Typed' /\ SameAges(hist, hist')
             /\ AnswerSent(a.client) \/ (UNCHANGED down /\ SameStream(hist, hist'))
  <2>1. HistTyped(marked) /\ SameAges(hist, marked) /\ SameStream(hist, marked)
    BY <1>0, <1>6 DEF HistTyped, HistFields, SameAges, SameStream
  <2>2. CASE ~(alive /\ r # <<>>)
    BY <1>0, <1>1, <1>2, <1>6, <2>1, <2>2 DEF Typed
  <2>3. CASE alive /\ r # <<>>
    <3>1. a.target \in Targets
      BY <1>0, <1>6, ClipboardAssumption
    <3>2. PICK d \in Copies : d.id = own[a.client] /\ r = <<d>>
      BY <1>0, <1>6, <2>3, <3>1, ReceivedEffect
    <3>3. /\ down' = down \o Head1("send", d) \o Payload(d)
          /\ hist' = Write(marked, "send", d)
      BY <1>6, <2>3, <3>2
    <3>4. Head1("send", d) \in Seq(Tokens) /\ Payload(d) \in Seq(Tokens)
      BY EventTokens
    <3>5. down \o Head1("send", d) \in Seq(Tokens)
      BY <1>0, <3>4, ConcatProperties
    <3>6. down' \in Seq(Tokens)
      BY <3>3, <3>4, <3>5, ConcatProperties
    <3>7. HistTyped(hist') /\ SameAges(marked, hist')
      BY <2>1, <3>3, WriteEffect
    <3>8. SameAges(hist, hist')
      BY <2>1, <3>7 DEF SameAges
    <3>9. AnswerSent(a.client)
      BY <2>1, <3>2, <3>3 DEF AnswerSent
    <3>10. Typed'
      BY <1>1, <1>2, <3>6, <3>7 DEF Typed
    <3> QED
      BY <3>8, <3>9, <3>10
  <2> QED
    BY <2>2, <2>3
<1>7. CASE /\ a.target \in Offers[a.client]
           /\ LET r == ReceivedText(a.client, a.target)
                  marked == [hist EXCEPT !.crossed = @ \/ a.client # owner, !.missed = @ \/ ~alive \/ r \in {<<>>, <<Copy(own[a.client], <<>>)>>}]
              IN  IF alive /\ r # <<>>
                  THEN /\ down' = down \o Head1("send", r[1]) \o Payload(r[1])
                       /\ hist' = Write(marked, "send", r[1])
                  ELSE hist' = marked /\ UNCHANGED down
  <2> DEFINE r == ReceivedText(a.client, a.target)
             x == hist.crossed \/ a.client # owner
             y == hist.missed \/ ~alive \/ r \in {<<>>, <<Copy(own[a.client], <<>>)>>}
             marked == [hist EXCEPT !.crossed = x, !.missed = y]
  <2>1. IF alive /\ r # <<>>
          THEN /\ down' = down \o Head1("send", r[1]) \o Payload(r[1])
               /\ hist' = Write(marked, "send", r[1])
          ELSE hist' = marked /\ UNCHANGED down
    BY <1>7
  <2>2. marked = [hist EXCEPT !.crossed = x, !.missed = y]
    OBVIOUS
  <2> HIDE DEF x, y, marked
  <2> QED
    BY <1>0, <1>1, <1>6, <1>7, <2>1, <2>2
<1> QED
  BY <1>0, <1>1, <1>4, <1>5, <1>7 DEF ClientAnswers

LEMMA NextTyped == Typed /\ [Next]_vars => Typed'
<1> SUFFICES ASSUME Typed, [Next]_vars PROVE Typed'
  OBVIOUS
<1>1. CASE UserCopies
  BY <1>1, TypedUserCopies
<1>2. CASE GraceEnds
  <2>1. ViewTyped(view')
    BY <1>2 DEF GraceEnds, Typed, ViewTyped
  <2> QED
    BY <1>2, <2>1 DEF GraceEnds, Typed, xVars
<1>3. CASE HandleClipboardChange
  <2>1. ViewTyped(view)
    BY DEF Typed
  <2> QED
    BY <1>3, <2>1, TypedAnnouncing DEF HandleClipboardChange
<1>4. CASE FocusChanged
  <2>1. ViewTyped(FocusedView)
    BY FocusTyped
  <2>2. CASE Announce(clip, FocusedView)
    BY <1>4, <2>1, <2>2, FocusEffect, TypedAnnouncing
  <2>3. CASE view' = FocusedView /\ UNCHANGED <<up, hist>>
    <3>1. UNCHANGED <<clip, alive, down, xVars>>
      BY <1>4, FocusEffect
    <3> QED
      BY <2>1, <2>3, <3>1 DEF Typed, xVars
  <2> QED
    BY <1>4, <2>2, <2>3, FocusEffect
<1>5. CASE ReloadPreferences
  BY <1>5, TypedReloadPreferences
<1>6. CASE Connect
  BY <1>6, TypedConnect
<1>7. CASE Disconnect
  BY <1>7, TypedDisconnect
<1>8. CASE Activity
  BY <1>8, TypedReadsEvent, TypedReadsGarbage DEF Activity
<1>9. CASE ServerReads
  BY <1>9, TypedServerReads
<1>10. CASE Main
  BY <1>10, TypedHandleAnnounce, TypedHandleData DEF Main
<1>11. CASE \E t \in Targets : Paste(t)
  BY <1>11, TypedPaste
<1>12. CASE \E c \in Clients : ClientCopies(c)
  BY <1>12, TypedClientCopies
<1>13. CASE \E a \in asked : ClientAnswers(a)
  BY <1>13, TypedClientAnswers
<1>14. CASE UNCHANGED vars
  BY <1>14 DEF vars, Typed
<1> QED
  BY <1>1, <1>2, <1>3, <1>4, <1>5, <1>6, <1>7, <1>8, <1>9, <1>10, <1>11, <1>12, <1>13, <1>14 DEF Next

-----------------------------------------------------------------------------
(* The stream of events stays in step. *)

LEMMA NoEvents == WholeEvents(<<>>)
<1>1. 0 \in Nat /\ Len(<<>>) = 2 * 0 /\ 1..0 = {}
  OBVIOUS
<1> QED
  BY <1>1 DEF WholeEvents

LEMMA EventAdded ==
  ASSUME NEW q \in Seq(Tokens), WholeEvents(q), NEW ev \in {"send", "request"},
         NEW d \in Copies, d.bytes = <<>>
  PROVE  WholeEvents(q \o Head1(ev, d))
<1> DEFINE h == Head1(ev, d)
           r == q \o h
<1>1. /\ h \in Seq(Tokens) /\ Len(h) = 2
      /\ h[1] = [kind |-> "type", ev |-> ev, data |-> d] /\ h[2] = [kind |-> "rest"]
  BY EventTokens
<1>2. h[1].kind = "type" /\ h[1].data.bytes = <<>> /\ h[2].kind = "rest"
  BY <1>1
<1>3. PICK k \in Nat :
        /\ Len(q) = 2 * k
        /\ \A j \in 1..k : /\ q[2 * j - 1].kind = "type" /\ q[2 * j - 1].data.bytes = <<>>
                           /\ q[2 * j].kind = "rest"
  BY DEF WholeEvents
<1> HIDE DEF h
<1>4. /\ Len(r) = 2 * (k + 1)
      /\ \A i \in 1..(Len(q) + 2) : r[i] = IF i <= Len(q) THEN q[i] ELSE h[i - Len(q)]
  <2>1. /\ Len(r) = Len(q) + Len(h)
        /\ \A i \in 1..(Len(q) + Len(h)) : r[i] = IF i <= Len(q) THEN q[i] ELSE h[i - Len(q)]
    BY <1>1, ConcatProperties
  <2> HIDE DEF r
  <2>2. Len(h) = 2 /\ Len(q) = 2 * k
    BY <1>1, <1>3, Zenon
  <2>3. Len(r) = 2 * (k + 1)
    BY <2>1, <2>2
  <2>4. \A i \in 1..(Len(q) + 2) : r[i] = IF i <= Len(q) THEN q[i] ELSE h[i - Len(q)]
    BY <2>1, <2>2, Zenon
  <2> QED
    BY <2>3, <2>4, Zenon
<1> HIDE DEF r
<1>5. ASSUME NEW j \in 1..(k + 1)
      PROVE  /\ r[2 * j - 1].kind = "type" /\ r[2 * j - 1].data.bytes = <<>>
             /\ r[2 * j].kind = "rest"
  <2>1. CASE j \in 1..k
    <3>1. r[2 * j - 1] = q[2 * j - 1] /\ r[2 * j] = q[2 * j]
      BY <1>3, <1>4, <2>1
    <3> QED
      BY <1>3, <2>1, <3>1
  <2>2. CASE j = k + 1
    <3>1. r[2 * j - 1] = h[1] /\ r[2 * j] = h[2]
      BY <1>3, <1>4, <2>2
    <3> QED
      BY <1>2, <3>1
  <2> QED
    BY <2>1, <2>2
<1>6. k + 1 \in Nat
  OBVIOUS
<1>7. WholeEvents(r)
  BY <1>4, <1>5, <1>6 DEF WholeEvents
<1> QED
  BY <1>7 DEF r, h

LEMMA EventRemoved ==
  ASSUME NEW q \in Seq(Tokens), WholeEvents(q), q # <<>>
  PROVE  /\ Len(q) >= 2 /\ q[1].kind = "type" /\ q[1].data.bytes = <<>>
         /\ WholeEvents(SubSeq(q, 3, Len(q)))
<1> DEFINE r == SubSeq(q, 3, Len(q))
<1>1. PICK k \in Nat :
        /\ Len(q) = 2 * k
        /\ \A j \in 1..k : /\ q[2 * j - 1].kind = "type" /\ q[2 * j - 1].data.bytes = <<>>
                           /\ q[2 * j].kind = "rest"
  BY DEF WholeEvents
<1>2. k >= 1
  BY <1>1, EmptySeq
<1>3. Len(q) >= 2 /\ q[1].kind = "type" /\ q[1].data.bytes = <<>>
  <2>1. q[2 * 1 - 1].kind = "type" /\ q[2 * 1 - 1].data.bytes = <<>>
    BY <1>1, <1>2
  <2> QED
    BY <1>1, <1>2, <2>1
<1>4. Len(r) = 2 * (k - 1) /\ \A i \in 1..Len(r) : r[i] = q[3 + i - 1]
  BY <1>1, <1>2, RestOfStream
<1> HIDE DEF r
<1>5. ASSUME NEW j \in 1..(k - 1)
      PROVE  /\ r[2 * j - 1].kind = "type" /\ r[2 * j - 1].data.bytes = <<>>
             /\ r[2 * j].kind = "rest"
  <2>1. r[2 * j - 1] = q[2 * (j + 1) - 1] /\ r[2 * j] = q[2 * (j + 1)]
    BY <1>4
  <2>2. j + 1 \in 1..k
    OBVIOUS
  <2> QED
    BY <1>1, <2>1, <2>2
<1>6. k - 1 \in Nat
  BY <1>2
<1> QED
  BY <1>3, <1>4, <1>5, <1>6 DEF WholeEvents, r

\* Writing an event keeps the stream in step, or marks it as holding a text.
LEMMA EventWritten ==
  ASSUME Typed, InStep, NEW h, HistTyped(h), SameStream(hist, h),
         NEW ev \in {"send", "request"}, NEW d \in Copies,
         hist' = Write(h, ev, d), down' = down \o Head1(ev, d) \o Payload(d)
  PROVE  InStep'
<1> SUFFICES ASSUME ~hist'.behindText PROVE ~hist'.swallowed /\ WholeEvents(down')
  BY DEF InStep, WholeEvents
<1>1. /\ Payload(d) = <<>>
      /\ down # <<>> => ~h.behindText /\ hist'.swallowed = h.swallowed
      /\ down = <<>> => ~hist'.swallowed
  BY WriteEffect
<1>2. ~hist'.swallowed /\ WholeEvents(down)
  BY <1>1, NoEvents DEF InStep, SameStream
<1>3. d.bytes = <<>>
  <2>1. <<[kind |-> "text"]>> # <<>>
    OBVIOUS
  <2> QED
    BY <1>1, <2>1 DEF Payload
<1>4. down \in Seq(Tokens) /\ Head1(ev, d) \in Seq(Tokens)
  BY EventTokens DEF Typed
<1>5. down \o Head1(ev, d) \in Seq(Tokens)
  BY <1>4, ConcatProperties
<1>6. down' = down \o Head1(ev, d)
  BY <1>1, <1>5, ConcatEmptySeq
<1> QED
  BY <1>2, <1>3, <1>4, <1>6, EventAdded

LEMMA StreamUnchanged ==
  ASSUME InStep, UNCHANGED down, SameStream(hist, hist')
  PROVE  InStep'
  BY DEF InStep, WholeEvents, SameStream

LEMMA NextInStep == Typed /\ InStep /\ [Next]_vars => InStep'
<1> SUFFICES ASSUME Typed, InStep, [Next]_vars PROVE InStep'
  OBVIOUS
<1>0. down \in Seq(Tokens)
  BY DEF Typed
<1>1. CASE UserCopies
  <2>1. SameStream(hist, hist') /\ UNCHANGED down
    BY <1>1, TypedUserCopies DEF UserCopies
  <2> QED
    BY <2>1, StreamUnchanged
<1>2. CASE GraceEnds
  BY <1>2, StreamUnchanged DEF GraceEnds, SameStream
<1>3. CASE HandleClipboardChange
  <2>1. ViewTyped(view) /\ Announce(clip, view) /\ UNCHANGED down
    BY <1>3 DEF Typed, HandleClipboardChange
  <2>2. SameStream(hist, hist')
    BY <2>1, AnnounceEffect
  <2> QED
    BY <2>1, <2>2, StreamUnchanged
<1>4. CASE FocusChanged
  <2>1. UNCHANGED down /\ ViewTyped(FocusedView)
    BY <1>4, FocusEffect, FocusTyped
  <2>2. SameStream(hist, hist')
    BY <1>4, <2>1, FocusEffect, AnnounceEffect DEF SameStream
  <2> QED
    BY <2>1, <2>2, StreamUnchanged
<1>5. CASE ReloadPreferences
  BY <1>5, StreamUnchanged DEF ReloadPreferences, SameStream
<1>6. CASE Connect
  <2>1. SameStream(hist, hist') /\ UNCHANGED down
    BY <1>6, TypedConnect DEF Connect
  <2> QED
    BY <2>1, StreamUnchanged
<1>7. CASE Disconnect
  <2>1. SameStream(hist, hist') /\ down' = <<>>
    BY <1>7, TypedDisconnect DEF Disconnect
  <2>2. WholeEvents(down')
    BY <2>1, NoEvents
  <2> QED
    BY <2>1, <2>2 DEF InStep, WholeEvents, SameStream
<1>8. CASE ActivityReadsEvent
  <2>1. SUFFICES ASSUME ~hist'.behindText PROVE ~hist'.swallowed /\ WholeEvents(down')
    BY DEF InStep, WholeEvents
  <2>2. ~hist.behindText /\ Len(down) >= 2
    BY <1>8, <2>1, ReadEffect
  <2>3. ~hist.swallowed /\ WholeEvents(down) /\ down # <<>>
    BY <2>2 DEF InStep
  <2>4. down[1].data.bytes = <<>> /\ WholeEvents(SubSeq(down, 3, Len(down)))
    BY <1>0, <2>3, EventRemoved
  <2>5. DropsEmpty \/ (AnswersRequest /\ hist'.swallowed = hist.swallowed)
    BY <1>8, <2>4, ReadEffect
  <2> QED
    BY <2>3, <2>4, <2>5 DEF DropsEmpty, AnswersRequest
<1>9. CASE ActivityReadsGarbage
  <2>0. hist'.behindText = hist.behindText
    BY <1>9, TypedReadsGarbage
  <2>1. down # <<>> /\ (Len(down) = 1 \/ down[1].kind # "type")
    BY <1>9, TypedReadsGarbage
  <2>2. hist.behindText
    <3> SUFFICES ASSUME ~hist.behindText PROVE FALSE
      OBVIOUS
    <3>1. WholeEvents(down)
      BY DEF InStep
    <3>2. Len(down) >= 2
      BY <1>0, <2>1, <3>1, EventRemoved
    <3>3. down[1].kind = "type"
      BY <1>0, <2>1, <3>1, EventRemoved
    <3>4. Len(down) # 1
      <4>1. Len(down) \in Nat
        BY <1>0
      <4>2. \A n \in Nat : n >= 2 => n # 1
        OBVIOUS
      <4> QED
        BY <3>2, <4>1, <4>2, Zenon
    <3> QED
      BY <2>1, <3>3, <3>4
  <2> QED
    BY <2>0, <2>2 DEF InStep
<1>10. CASE ServerReads
  BY <1>10, StreamUnchanged DEF ServerReads, SameStream
<1>11. CASE Main
  <2>1. SameStream(hist, hist') /\ UNCHANGED down
    BY <1>11, TypedHandleAnnounce, TypedHandleData DEF Main
  <2> QED
    BY <2>1, StreamUnchanged
<1>12. ASSUME NEW t \in Targets, Paste(t) PROVE InStep'
  <2>1. CASE UNCHANGED down /\ SameStream(hist, hist')
    BY <2>1, StreamUnchanged
  <2>2. CASE down' = down \o Head1("request", NoText) /\ hist' = Write(hist, "request", NoText)
    <3>1. NoText \in Copies /\ Payload(NoText) = <<>>
      BY SpecialCopies DEF Payload, NoText, Copy
    <3>2. down \o Head1("request", NoText) \in Seq(Tokens)
      BY <1>0, <3>1, EventTokens, ConcatProperties
    <3>3. down' = down \o Head1("request", NoText) \o Payload(NoText)
      BY <2>2, <3>1, <3>2, ConcatEmptySeq
    <3>4. HistTyped(hist) /\ SameStream(hist, hist)
      BY DEF Typed, SameStream
    <3> QED
      BY <2>2, <3>1, <3>3, <3>4, EventWritten
  <2> QED
    BY <1>12, <2>1, <2>2, TypedPaste DEF PasteCached, PasteWaits
<1>13. ASSUME NEW c \in Clients, ClientCopies(c) PROVE InStep'
  <2>1. SameStream(hist, hist') /\ UNCHANGED down
    BY <1>13, TypedClientCopies
  <2> QED
    BY <2>1, StreamUnchanged
<1>14. ASSUME NEW a \in asked, ClientAnswers(a) PROVE InStep'
  <2>1. CASE UNCHANGED down /\ SameStream(hist, hist')
    BY <2>1, StreamUnchanged
  <2>2. CASE AnswerSent(a.client)
    BY <2>2, EventWritten DEF AnswerSent
  <2> QED
    BY <1>14, <2>1, <2>2, TypedClientAnswers
<1>15. CASE UNCHANGED vars
  BY <1>15, StreamUnchanged DEF vars, SameStream
<1> QED
  BY <1>1, <1>2, <1>3, <1>4, <1>5, <1>6, <1>7, <1>8, <1>9, <1>10, <1>11, <1>12, <1>13, <1>14, <1>15
  DEF Next, Activity

-----------------------------------------------------------------------------
\* The byte too many costs an event only behind a text: for any number of
\* copies, pastes, connections and messages (xcallback, activity.c).
THEOREM SwallowedBehindText == Spec => []SwallowedOnlyBehindText
<1>1. Init => Typed /\ InStep
  BY InitTyped, NoEvents DEF Init, InStep
<1>2. Typed /\ InStep /\ [Next]_vars => (Typed /\ InStep)'
  BY NextTyped, NextInStep
<1>3. InStep => SwallowedOnlyBehindText
  BY DEF InStep, SwallowedOnlyBehindText
<1> QED
  BY <1>1, <1>2, <1>3, PTL DEF Spec

-----------------------------------------------------------------------------
(* The queues: what a step on one of them does to the announcements known  *)
(* and to the texts behind them.                                           *)

LEMMA NeedsUnchanged ==
  ASSUME UNCHANGED pending, hist'.announced = hist.announced
  PROVE  \A n : Needed(n)' <=> Needed(n)
  BY DEF Needed

LEMMA WorkUnchanged ==
  ASSUME WorkFresh, UNCHANGED <<work, pending>>, hist'.announced = hist.announced
  PROVE  WorkFresh'
  BY NeedsUnchanged DEF WorkFresh, AnnouncesBefore

LEMMA QueuesUnchanged ==
  ASSUME UpFresh, UNCHANGED <<up, work, pending>>, hist'.announced = hist.announced
  PROVE  UpFresh' /\ \A n : Known(n)' => Known(n)
  BY NeedsUnchanged DEF UpFresh, Announces, AnnouncesBefore, Known

LEMMA UpAppended ==
  ASSUME Typed, UpFresh, NEW m \in Ups, up' = Append(up, m),
         UNCHANGED <<work, pending>>, hist'.announced = hist.announced,
         m.kind = "send" => \A n \in Nat : Known(n) => Fresh(m.data, n)
  PROVE  /\ UpFresh'
         /\ \A n \in Nat : Known(n)' => Known(n) \/ (m.kind = "announce" /\ n = m.id)
<1>0. up \in Seq(Ups)
  BY DEF Typed
<1>1. /\ DOMAIN up = 1..Len(up) /\ DOMAIN up' = 1..(Len(up) + 1) /\ Len(up) \in Nat
      /\ \A i \in 1..Len(up) : up'[i] = up[i]
      /\ up'[Len(up) + 1] = m
  BY <1>0, AppendProperties, LenProperties
<1>2. ASSUME NEW n \in Nat, Known(n)'
      PROVE  Known(n) \/ (m.kind = "announce" /\ n = m.id)
  BY <1>1, <1>2, NeedsUnchanged DEF Known, Announces
<1>3. ASSUME NEW k \in DOMAIN up', up'[k].kind = "send", NEW n \in Nat,
             Needed(n)' \/ Announces(work, n)' \/ AnnouncesBefore(up, k, n)'
      PROVE  Fresh(up'[k].data, n)
  <2>1. Needed(n) \/ Announces(work, n) \/ AnnouncesBefore(up, k, n)
    BY <1>1, <1>3, NeedsUnchanged DEF Announces, AnnouncesBefore
  <2>2. CASE k \in DOMAIN up
    BY <1>1, <1>3, <2>1, <2>2 DEF UpFresh
  <2>3. CASE k = Len(up) + 1
    <3>1. Known(n)
      BY <2>1 DEF Known, Announces, AnnouncesBefore
    <3> QED
      BY <1>1, <1>3, <2>3, <3>1
  <2> QED
    BY <1>1, <2>2, <2>3
<1> QED
  BY <1>2, <1>3 DEF UpFresh, Fresh

\* A connection begins and ends without texts or announcements on their way.
LEMMA UpReset ==
  ASSUME \/ up' = <<>>
         \/ \E on \in BOOLEAN : up' = <<[kind |-> "enable", on |-> on]>>,
         UNCHANGED <<work, pending>>, hist'.announced = hist.announced
  PROVE  UpFresh' /\ \A n : Known(n)' => Known(n)
<1>1. \A i \in DOMAIN up' : up'[i].kind = "enable"
  OBVIOUS
<1> QED
  BY <1>1, NeedsUnchanged DEF UpFresh, Known, Announces

LEMMA TailOf ==
  ASSUME NEW S, NEW q \in Seq(S), q # <<>>
  PROVE  /\ Len(q) \in Nat /\ DOMAIN q = 1..Len(q) /\ Head(q) = q[1] /\ 1 \in DOMAIN q
         /\ DOMAIN Tail(q) = 1..(Len(q) - 1)
         /\ \A i \in DOMAIN Tail(q) : i + 1 \in DOMAIN q /\ Tail(q)[i] = q[i + 1]
         /\ \A i \in DOMAIN q \ {1} : i - 1 \in DOMAIN Tail(q) /\ Tail(q)[i - 1] = q[i]
<1>1. /\ Len(q) \in Nat \ {0} /\ DOMAIN q = 1..Len(q) /\ Head(q) = q[1]
  BY EmptySeq, LenProperties
<1>2. /\ Tail(q) \in Seq(S) /\ Len(Tail(q)) = Len(q) - 1
      /\ \A i \in 1..Len(Tail(q)) : Tail(q)[i] = q[i + 1]
  BY HeadTailProperties
<1>3. DOMAIN Tail(q) = 1..(Len(q) - 1)
  BY <1>2, LenProperties
<1> QED
  BY <1>1, <1>2, <1>3

\* A message moves from the socket to the end of the work queue, behind
\* everything that was in front of it.
LEMMA MessageQueued ==
  ASSUME Typed, WorkFresh, UpFresh, up # <<>>, up' = Tail(up),
         \/ work' = work /\ Head(up).kind = "enable"
         \/ work' = Append(work, Head(up)),
         Head(up) \in Ups, UNCHANGED pending, hist'.announced = hist.announced
  PROVE  WorkFresh' /\ UpFresh' /\ \A n \in Nat : Known(n)' => Known(n)
<1> DEFINE m == Head(up)
<1>0. up \in Seq(Ups) /\ work \in Seq(Ups)
  BY DEF Typed
<1>1. /\ Len(up) \in Nat /\ DOMAIN up = 1..Len(up) /\ m = up[1] /\ 1 \in DOMAIN up
      /\ DOMAIN up' = 1..(Len(up) - 1)
      /\ \A i \in DOMAIN up' : i + 1 \in DOMAIN up /\ up'[i] = up[i + 1]
  BY <1>0, TailOf
<1> HIDE DEF m
<1>2. /\ DOMAIN work = 1..Len(work) /\ Len(work) \in Nat
      /\ \A i \in DOMAIN work : i \in DOMAIN work' /\ work'[i] = work[i]
      /\ \A i \in DOMAIN work' : i \in DOMAIN work \/ (i = Len(work) + 1 /\ work'[i] = m)
  <2>0. DOMAIN work = 1..Len(work) /\ Len(work) \in Nat
    BY <1>0, LenProperties
  <2>1. CASE work' = work
    BY <2>0, <2>1
  <2>2. CASE work' = Append(work, m)
    <3>1. /\ DOMAIN work' = 1..(Len(work) + 1)
          /\ \A i \in 1..Len(work) : work'[i] = work[i]
          /\ work'[Len(work) + 1] = m
      BY <1>0, <2>2, AppendProperties, LenProperties DEF m
    <3> QED
      BY <2>0, <3>1
  <2> QED
    BY <2>0, <2>1, <2>2 DEF m
<1>3. ASSUME NEW n, Announces(work, n)'
      PROVE  Announces(work, n) \/ (m.kind = "announce" /\ m.id = n)
  BY <1>2, <1>3 DEF Announces
<1>4. ASSUME NEW n, m.kind = "announce" /\ m.id = n
      PROVE  Announces(up, n) /\ \A k \in DOMAIN up : k > 1 => AnnouncesBefore(up, k, n)
  BY <1>1, <1>4 DEF Announces, AnnouncesBefore
<1>5. ASSUME NEW n, Announces(up, n)'
      PROVE  Announces(up, n)
  BY <1>1, <1>5 DEF Announces
<1>6. ASSUME NEW n \in Nat, Known(n)' PROVE Known(n)
  BY <1>3, <1>4, <1>5, <1>6, NeedsUnchanged DEF Known
<1>7. ASSUME NEW k \in DOMAIN work', work'[k].kind = "send", NEW n \in Nat,
             Needed(n)' \/ AnnouncesBefore(work, k, n)'
      PROVE  Fresh(work'[k].data, n)
  <2>1. CASE k \in DOMAIN work
    <3>1. Needed(n) \/ AnnouncesBefore(work, k, n)
      BY <1>2, <1>7, <2>1, NeedsUnchanged DEF AnnouncesBefore
    <3> QED
      BY <1>2, <1>7, <2>1, <3>1 DEF WorkFresh
  <2>2. CASE k = Len(work) + 1 /\ work'[k] = m
    <3>1. Needed(n) \/ Announces(work, n)
      BY <1>2, <1>7, <2>2, NeedsUnchanged DEF AnnouncesBefore, Announces
    <3> QED
      BY <1>1, <1>7, <2>2, <3>1 DEF UpFresh
  <2> QED
    BY <1>2, <2>1, <2>2
<1>8. ASSUME NEW k \in DOMAIN up', up'[k].kind = "send", NEW n \in Nat,
             Needed(n)' \/ Announces(work, n)' \/ AnnouncesBefore(up, k, n)'
      PROVE  Fresh(up'[k].data, n)
  <2>1. k + 1 \in DOMAIN up /\ k + 1 > 1 /\ up'[k] = up[k + 1]
    BY <1>1
  <2>2. AnnouncesBefore(up, k, n)' => AnnouncesBefore(up, k + 1, n)
    BY <1>1 DEF AnnouncesBefore
  <2>3. Needed(n) \/ Announces(work, n) \/ AnnouncesBefore(up, k + 1, n)
    BY <1>3, <1>4, <1>8, <2>1, <2>2, NeedsUnchanged
  <2> QED
    BY <1>8, <2>1, <2>3 DEF UpFresh
<1> QED
  BY <1>6, <1>7, <1>8 DEF WorkFresh, UpFresh, Fresh

\* The main thread takes its next job: what an announcement adds to the needs
\* was in front of every text that is still to come.
LEMMA JobTaken ==
  ASSUME Typed, WorkFresh, UpFresh, work # <<>>, work' = Tail(work), UNCHANGED up,
         \A n \in Nat : Needed(n)' => Needed(n) \/ (Head(work).kind = "announce" /\ n = Head(work).id)
  PROVE  WorkFresh' /\ UpFresh' /\ \A n \in Nat : Known(n)' => Known(n)
<1> DEFINE m == Head(work)
<1>0. work \in Seq(Ups)
  BY DEF Typed
<1>1. /\ Len(work) \in Nat /\ DOMAIN work = 1..Len(work) /\ m = work[1] /\ 1 \in DOMAIN work
      /\ DOMAIN work' = 1..(Len(work) - 1)
      /\ \A i \in DOMAIN work' : i + 1 \in DOMAIN work /\ work'[i] = work[i + 1]
  BY <1>0, TailOf
<1> HIDE DEF m
<1>2. ASSUME NEW n \in Nat, Needed(n)' \/ Announces(work, n)'
      PROVE  Needed(n) \/ Announces(work, n)
  <2>1. Needed(n)' => Needed(n) \/ Announces(work, n)
    BY <1>1 DEF Announces, m
  <2>2. Announces(work, n)' => Announces(work, n)
    BY <1>1 DEF Announces
  <2> QED
    BY <1>2, <2>1, <2>2
<1>3. ASSUME NEW k \in DOMAIN work', NEW n \in Nat, Needed(n)' \/ AnnouncesBefore(work, k, n)'
      PROVE  Needed(n) \/ AnnouncesBefore(work, k + 1, n)
  <2>1. Needed(n)' => Needed(n) \/ AnnouncesBefore(work, k + 1, n)
    BY <1>1 DEF AnnouncesBefore, m
  <2>2. AnnouncesBefore(work, k, n)' => AnnouncesBefore(work, k + 1, n)
    BY <1>1 DEF AnnouncesBefore
  <2> QED
    BY <1>3, <2>1, <2>2
<1>4. WorkFresh'
  <2> SUFFICES ASSUME NEW k \in DOMAIN work', work'[k].kind = "send", NEW n \in Nat,
                      Needed(n)' \/ AnnouncesBefore(work, k, n)'
               PROVE  Fresh(work'[k].data, n)
    BY DEF WorkFresh, Fresh
  <2> QED
    BY <1>1, <1>3 DEF WorkFresh
<1>5. \A k, n : AnnouncesBefore(up, k, n)' <=> AnnouncesBefore(up, k, n)
  BY DEF AnnouncesBefore
<1>6. \A n : Announces(up, n)' <=> Announces(up, n)
  BY DEF Announces
<1>7. UpFresh'
  <2> SUFFICES ASSUME NEW k \in DOMAIN up', up'[k].kind = "send", NEW n \in Nat,
                      Needed(n)' \/ Announces(work, n)' \/ AnnouncesBefore(up, k, n)'
               PROVE  Fresh(up'[k].data, n)
    BY DEF UpFresh, Fresh
  <2>1. Needed(n) \/ Announces(work, n) \/ AnnouncesBefore(up, k, n)
    BY <1>2, <1>5
  <2> QED
    BY <2>1 DEF UpFresh
<1>8. ASSUME NEW n \in Nat, Known(n)' PROVE Known(n)
  BY <1>2, <1>6, <1>8 DEF Known
<1> QED
  BY <1>4, <1>7, <1>8

-----------------------------------------------------------------------------
(* No text is newer than the number of copies made. *)

LEMMA TokenTyped ==
  ASSUME Typed
  PROVE  \A i \in DOMAIN down : down[i].kind = "type" => down[i].data \in Copies /\ down[i].data.id \in Int
<1>1. \A i \in DOMAIN down : down[i] \in Tokens
  BY DEF Typed
<1> QED
  BY <1>1 DEF Tokens, Copies

LEMMA DownUnchanged ==
  ASSUME Typed, DownCounted, UNCHANGED down, hist'.copies \in Nat, hist'.copies >= hist.copies
  PROVE  DownCounted'
<1>1. hist.copies \in Nat
  BY DEF Typed, HistTyped
<1> QED
  BY <1>1, TokenTyped DEF DownCounted

LEMMA DownRead ==
  ASSUME Typed, DownCounted, hist'.copies = hist.copies,
         NEW m \in Nat \ {0}, down' = SubSeq(down, m, Len(down))
  PROVE  DownCounted'
<1>0. down \in Seq(Tokens)
  BY DEF Typed
<1>1. /\ down' \in Seq(Tokens)
      /\ Len(down') = IF m <= Len(down) THEN Len(down) - m + 1 ELSE 0
      /\ \A i \in 1..Len(down') : down'[i] = down[m + i - 1]
  BY <1>0, RestOfStream
<1>2. DOMAIN down = 1..Len(down) /\ DOMAIN down' = 1..Len(down') /\ Len(down) \in Nat
  BY <1>0, <1>1, LenProperties
<1>3. \A i \in DOMAIN down' : m + i - 1 \in DOMAIN down /\ down'[i] = down[m + i - 1]
  BY <1>1, <1>2
<1> QED
  BY <1>3 DEF DownCounted

ElementsFrom(r, s, t) ==
  \A k \in DOMAIN r : (\E j \in DOMAIN s : r[k] = s[j]) \/ (\E j \in DOMAIN t : r[k] = t[j])

LEMMA ConcatElements ==
  ASSUME NEW s \in Seq(Tokens), NEW t \in Seq(Tokens), NEW r, r = s \o t
  PROVE  ElementsFrom(r, s, t)
<1>2. /\ r \in Seq(Tokens) /\ Len(r) = Len(s) + Len(t)
      /\ \A k \in 1..(Len(s) + Len(t)) : r[k] = IF k <= Len(s) THEN s[k] ELSE t[k - Len(s)]
  <2>1. /\ s \o t \in Seq(Tokens) /\ Len(s \o t) = Len(s) + Len(t)
        /\ \A k \in 1..(Len(s) + Len(t)) : (s \o t)[k] = IF k <= Len(s) THEN s[k] ELSE t[k - Len(s)]
    BY ConcatProperties
  <2> QED
    BY <2>1, Zenon
<1>3. /\ DOMAIN s = 1..Len(s) /\ DOMAIN t = 1..Len(t) /\ DOMAIN r = 1..Len(r)
      /\ Len(s) \in Nat /\ Len(t) \in Nat
  BY <1>2, LenProperties
<1>4. \A k \in DOMAIN r : (\E j \in DOMAIN s : r[k] = s[j]) \/ (\E j \in DOMAIN t : r[k] = t[j])
  <2> SUFFICES ASSUME NEW k \in DOMAIN r
               PROVE  (\E j \in DOMAIN s : r[k] = s[j]) \/ (\E j \in DOMAIN t : r[k] = t[j])
    OBVIOUS
  <2>1. CASE k <= Len(s)
    BY <1>2, <1>3, <2>1
  <2>2. CASE k > Len(s)
    <3>1. k - Len(s) \in DOMAIN t /\ r[k] = t[k - Len(s)]
      BY <1>2, <1>3, <2>2
    <3> QED
      BY <3>1
  <2> QED
    BY <1>2, <1>3, <2>1, <2>2
<1> QED
  BY <1>4 DEF ElementsFrom

LEMMA DownWritten ==
  ASSUME Typed, DownCounted, hist'.copies = hist.copies,
         NEW ev \in {"send", "request"}, NEW d \in Copies, d.id <= hist.copies,
         down' = down \o Head1(ev, d) \o Payload(d)
  PROVE  DownCounted'
<1>1. PICK h : h = Head1(ev, d)
  OBVIOUS
<1>2. PICK p : p = Payload(d)
  OBVIOUS
<1>3. PICK q : q = down \o h
  OBVIOUS
<1>4. h \in Seq(Tokens) /\ p \in Seq(Tokens) /\ down \in Seq(Tokens)
  BY <1>1, <1>2, EventTokens DEF Typed
<1>5. q \in Seq(Tokens)
  BY <1>3, <1>4, ConcatProperties
<1>6. down' = q \o p
  BY <1>1, <1>2, <1>3, Zenon
<1> DEFINE Counted(x) == x.kind = "type" => x.data.id <= hist.copies
<1>7. \A j \in DOMAIN h : Counted(h[j])
  <2>1. h = <<[kind |-> "type", ev |-> ev, data |-> d], [kind |-> "rest"]>>
    BY <1>1 DEF Head1
  <2>2. DOMAIN h = 1..2
    BY <2>1
  <2>3. h[1] = [kind |-> "type", ev |-> ev, data |-> d] /\ h[2] = [kind |-> "rest"]
    BY <2>1
  <2> QED
    BY <2>2, <2>3
<1>8. \A j \in DOMAIN p : Counted(p[j])
  BY <1>2 DEF Payload
<1>9. \A j \in DOMAIN down : Counted(down[j])
  BY DEF DownCounted
<1> HIDE DEF Counted
<1>10. \A j \in DOMAIN q : Counted(q[j])
  <2>1. ElementsFrom(q, down, h)
    BY <1>3, <1>4, ConcatElements
  <2> QED
    BY <1>7, <1>9, <2>1, Zenon DEF ElementsFrom
<1>11. \A j \in DOMAIN down' : Counted(down'[j])
  <2>1. ElementsFrom(down', q, p)
    BY <1>4, <1>5, <1>6, ConcatElements
  <2> QED
    BY <1>8, <1>10, <2>1, Zenon DEF ElementsFrom
<1> QED
  BY <1>11 DEF DownCounted, Counted

-----------------------------------------------------------------------------
(* Freshness, action by action. *)

\* The pastes and the cache are left alone.
LEMMA PastesUnchanged ==
  ASSUME FreshInv, UNCHANGED <<cachedData, pending>>, hist'.announced = hist.announced,
         hist'.pasted \in {hist.pasted, NothingPasted}
  PROVE  CacheFresh' /\ AnswersFresh'
<1>1. CacheFresh'
  BY DEF FreshInv, CacheFresh, Fresh
<1>2. NothingPasted.data = NoText
  BY DEF NothingPasted
<1> QED
  BY <1>1, <1>2 DEF FreshInv, AnswersFresh

\* The clipboard is left alone and nothing new is announced.
LEMMA ClipUnchanged ==
  ASSUME Typed, ClipFresh, UNCHANGED clip, view'.seen = view.seen,
         \A n \in Nat : Known(n)' => Known(n)
  PROVE  ClipFresh'
  BY DEF ClipFresh, Fresh

LEMMA FreshUserCopies ==
  ASSUME Typed, FreshInv, UserCopies
  PROVE  FreshInv'
<1>1. /\ clip'.id = hist.copies + 1 /\ hist'.copies = hist.copies + 1
      /\ view'.seen \in {view.seen, hist.copies + 1}
      /\ hist'.announced = hist.announced /\ hist'.pasted = NothingPasted
  BY TypedUserCopies
<1>2. UNCHANGED <<up, work, pending, own, cachedData, down>>
  BY DEF UserCopies, xVars
<1>3. hist.copies \in Nat /\ view.seen \in Nat /\ view.seen <= hist.copies
  BY DEF Typed, HistTyped, ViewTyped, FreshInv, CopiesCounted
<1>4. DownCounted'
  BY <1>1, <1>2, <1>3, DownUnchanged DEF FreshInv, CopiesCounted
<1>5. CopiesCounted'
  BY <1>1, <1>2, <1>3, <1>4 DEF FreshInv, CopiesCounted, Typed
<1>6. WorkFresh' /\ UpFresh' /\ \A n : Known(n)' => Known(n)
  BY <1>1, <1>2, WorkUnchanged, QueuesUnchanged DEF FreshInv
<1>7. ClipFresh'
  <2> SUFFICES ASSUME NEW n \in Nat, Known(n)' PROVE n <= view'.seen /\ Fresh(clip', n)
    BY DEF ClipFresh, Fresh
  <2>1. n <= view.seen
    BY <1>6 DEF FreshInv, ClipFresh
  <2> QED
    BY <1>1, <1>3, <2>1 DEF Fresh
<1> QED
  BY <1>1, <1>2, <1>5, <1>6, <1>7, PastesUnchanged DEF FreshInv

LEMMA FreshAnnouncing ==
  ASSUME Typed, FreshInv, NEW v, ViewTyped(v), v.seen = view.seen, Announce(clip, v),
         UNCHANGED <<clip, alive, down, xVars>>
  PROVE  FreshInv'
<1>1. SameAges(hist, hist')
  BY AnnounceEffect
<1>2. hist'.copies = hist.copies /\ hist'.announced = hist.announced /\ hist'.pasted = hist.pasted
  BY <1>1 DEF SameAges
<1>3. UNCHANGED <<work, pending, own, cachedData>>
  BY DEF xVars
<1>4. hist.copies \in Nat /\ view.seen \in Nat /\ clip.id \in Int
  BY DEF Typed, HistTyped, ViewTyped, Copies
<1>5. DownCounted'
  BY <1>2, <1>4, DownUnchanged DEF FreshInv, CopiesCounted
<1>6. WorkFresh' /\ CacheFresh' /\ AnswersFresh'
  BY <1>2, <1>3, WorkUnchanged, PastesUnchanged DEF FreshInv
<1>7. view'.seen \in {view.seen, clip.id}
  BY AnnounceEffect
<1>8. CopiesCounted'
  BY <1>2, <1>3, <1>4, <1>5, <1>7 DEF FreshInv, CopiesCounted
<1>9. CASE up' = up /\ view'.seen = view.seen
  <2>1. UpFresh' /\ \A n : Known(n)' => Known(n)
    BY <1>2, <1>3, <1>9, QueuesUnchanged DEF FreshInv
  <2>2. ClipFresh'
    BY <1>9, <2>1, ClipUnchanged DEF FreshInv
  <2> QED
    BY <1>6, <1>8, <2>1, <2>2 DEF FreshInv
<1>10. CASE /\ up' \in {up, Append(up, Announcement)} /\ Announcement \in Ups
            /\ view.seen < clip.id /\ view'.seen = clip.id
  <2>1. Announcement.kind # "send" /\ Announcement.id = clip.id
    BY DEF Announcement
  <2>2. UpFresh' /\ \A n \in Nat : Known(n)' => Known(n) \/ n = clip.id
    <3>1. CASE up' = up
      BY <1>2, <1>3, <3>1, QueuesUnchanged DEF FreshInv
    <3>2. CASE up' = Append(up, Announcement)
      BY <1>2, <1>3, <1>10, <2>1, <3>2, UpAppended DEF FreshInv
    <3> QED
      BY <1>10, <3>1, <3>2
  <2>3. ClipFresh'
    <3> SUFFICES ASSUME NEW n \in Nat, Known(n)' PROVE n <= view'.seen /\ Fresh(clip, n)
      BY DEF ClipFresh, Fresh
    <3>1. CASE n = clip.id
      BY <1>4, <1>10, <3>1 DEF Fresh
    <3>2. CASE Known(n)
      BY <1>4, <1>10, <3>2 DEF FreshInv, ClipFresh
    <3> QED
      BY <2>2, <3>1, <3>2
  <2> QED
    BY <1>6, <1>8, <2>2, <2>3 DEF FreshInv
<1> QED
  BY <1>9, <1>10, AnnounceEffect

\* Steps that leave the clipboard, the copies and the pastes alone.
LEMMA FreshMoving ==
  ASSUME Typed, FreshInv, UNCHANGED <<clip, own, cachedData, pending>>,
         view'.seen = view.seen, SameAges(hist, hist'),
         DownCounted', WorkFresh', UpFresh', \A n \in Nat : Known(n)' => Known(n)
  PROVE  FreshInv'
<1>1. hist'.copies = hist.copies /\ hist'.announced = hist.announced /\ hist'.pasted = hist.pasted
  BY DEF SameAges
<1>2. CopiesCounted'
  BY <1>1 DEF FreshInv, CopiesCounted
<1>3. ClipFresh'
  BY ClipUnchanged DEF FreshInv
<1>4. CacheFresh' /\ AnswersFresh'
  BY <1>1, PastesUnchanged
<1> QED
  BY <1>2, <1>3, <1>4 DEF FreshInv

LEMMA FreshReadsEvent ==
  ASSUME Typed, FreshInv, ActivityReadsEvent
  PROVE  FreshInv'
<1>1. /\ UNCHANGED <<work, pending, own, cachedData>> /\ down # <<>>
      /\ down[1].kind = "type" /\ down[1].data \in Copies
  BY ReadEffect DEF xVars
<1>2. SameAges(hist, hist')
  BY ReadEffect
<1>3. hist'.copies = hist.copies /\ hist'.announced = hist.announced /\ hist'.pasted = hist.pasted
  BY <1>2 DEF SameAges
<1>4. WorkFresh'
  BY <1>1, <1>3, WorkUnchanged DEF FreshInv
<1>5. hist.copies \in Nat /\ view.seen \in Nat /\ clip.id \in Int /\ clip \in Copies
  BY DEF Typed, HistTyped, ViewTyped, Copies
<1>6. CASE \E rest \in Nat \ {0} : TakesText(down[1].data, rest)
  <2>1. PICK rest \in Nat \ {0} : TakesText(down[1].data, rest)
    BY <1>6
  <2>2. PICK d \in Copies : d = down[1].data
    BY <1>1
  <2>3. d.id \in Int /\ d.id <= hist.copies
    <3>1. 1 \in DOMAIN down
      BY <1>1 DEF Typed
    <3>2. down[1].data.id <= hist.copies
      BY <1>1, <3>1 DEF FreshInv, CopiesCounted, DownCounted
    <3> QED
      BY <2>2, <3>2 DEF Copies
  <2>4. PICK back \in BOOLEAN : /\ back <=> (d.id < view.seen \/ d.id < clip.id)
                                /\ clip' = [d EXCEPT !.back = back]
    <3>1. clip' = [d EXCEPT !.back = (d.id < view.seen \/ d.id < clip.id)]
      BY <2>1, <2>2 DEF TakesText, SetClipboardText
    <3>2. (d.id < view.seen \/ d.id < clip.id) \in BOOLEAN
      OBVIOUS
    <3> QED
      BY <3>1, <3>2, Zenon
  <2>5. clip'.id = d.id /\ clip'.back = back
    BY <2>4 DEF Copies
  <2>6. view'.seen = hist.copies
    BY <2>1 DEF TakesText, SetClipboardText, Typed, ViewTyped
  <2>7. UNCHANGED up /\ down' = SubSeq(down, rest, Len(down))
    BY <2>1 DEF TakesText
  <2>8. DownCounted'
    BY <1>3, <2>7, DownRead DEF FreshInv, CopiesCounted
  <2>9. CopiesCounted'
    BY <1>1, <1>3, <1>5, <2>3, <2>5, <2>6, <2>8 DEF FreshInv, CopiesCounted
  <2>10. UpFresh' /\ \A n : Known(n)' => Known(n)
    BY <1>1, <1>3, <2>7, QueuesUnchanged DEF FreshInv
  <2>11. ClipFresh'
    <3> SUFFICES ASSUME NEW n \in Nat, Known(n)' PROVE n <= view'.seen /\ Fresh(clip', n)
      BY DEF ClipFresh, Fresh
    <3>1. n <= view.seen /\ view.seen <= hist.copies
      BY <2>10 DEF FreshInv, ClipFresh, CopiesCounted
    <3>2. CASE back
      BY <1>5, <2>5, <2>6, <3>1, <3>2 DEF Fresh
    <3>3. CASE ~back
      <4>1. d.id >= view.seen
        BY <1>5, <2>3, <2>4, <3>3
      <4> QED
        BY <1>5, <2>3, <2>5, <2>6, <3>1, <4>1 DEF Fresh
    <3> QED
      BY <3>2, <3>3
  <2> QED
    BY <1>1, <1>3, <1>4, <2>9, <2>10, <2>11, PastesUnchanged DEF FreshInv
<1>7. CASE DropsEmpty
  <2>1. UNCHANGED <<clip, view, up>> /\ down' = SubSeq(down, 3, Len(down))
    BY <1>7 DEF DropsEmpty
  <2>2. DownCounted'
    <3>1. 3 \in Nat \ {0} /\ DownCounted
      BY DEF FreshInv, CopiesCounted
    <3> QED
      BY <1>3, <2>1, <3>1, DownRead, Zenon
  <2>3. UpFresh' /\ \A n : Known(n)' => Known(n)
    BY <1>1, <1>3, <2>1, QueuesUnchanged DEF FreshInv
  <2> QED
    BY <1>1, <1>2, <1>4, <2>1, <2>2, <2>3, FreshMoving
<1>8. CASE AnswersRequest
  <2>1. UNCHANGED <<clip, view>> /\ down' = SubSeq(down, 3, Len(down))
    BY <1>8 DEF AnswersRequest
  <2>2. DownCounted'
    <3>1. 3 \in Nat \ {0} /\ DownCounted
      BY DEF FreshInv, CopiesCounted
    <3> QED
      BY <1>3, <2>1, <3>1, DownRead, Zenon
  <2>3. UpFresh' /\ \A n \in Nat : Known(n)' => Known(n)
    <3>1. CASE up' = up
      BY <1>1, <1>3, <3>1, QueuesUnchanged DEF FreshInv
    <3>2. ASSUME NEW d \in {NoText, clip}, up' = Append(up, [kind |-> "send", data |-> d])
          PROVE  UpFresh' /\ \A n \in Nat : Known(n)' => Known(n)
      <4>1. PICK m : m = [kind |-> "send", data |-> d]
        OBVIOUS
      <4>2. m \in Ups /\ m.kind = "send" /\ m.data = d
        BY <1>5, <4>1, SpecialCopies DEF Ups
      <4>3. \A n \in Nat : Known(n) => Fresh(m.data, n)
        BY <3>2, <4>2 DEF FreshInv, ClipFresh, Fresh
      <4>4. up' = Append(up, m)
        BY <3>2, <4>1, Zenon
      <4> QED
        BY <1>1, <1>3, <4>2, <4>3, <4>4, UpAppended DEF FreshInv
    <3> QED
      BY <1>8, <3>1, <3>2 DEF AnswersRequest
  <2> QED
    BY <1>1, <1>2, <1>4, <2>1, <2>2, <2>3, FreshMoving
<1> QED
  BY <1>6, <1>7, <1>8, ReadEffect

LEMMA FreshHandleAnnounce ==
  ASSUME Typed, FreshInv, HandleClipboardAnnounce
  PROVE  FreshInv'
<1>1. /\ work # <<>> /\ Head(work).kind = "announce" /\ work' = Tail(work)
      /\ cachedData' = NoData /\ hist'.announced = Head(work).id
      /\ hist'.copies = hist.copies /\ hist'.pasted = hist.pasted
      /\ UNCHANGED <<clip, view, up, down, own, pending>>
  BY TypedHandleAnnounce
<1>2. \A n \in Nat : Needed(n)' => Needed(n) \/ (Head(work).kind = "announce" /\ n = Head(work).id)
  BY <1>1 DEF Needed
<1>3. WorkFresh' /\ UpFresh' /\ \A n \in Nat : Known(n)' => Known(n)
  BY <1>1, <1>2, JobTaken DEF FreshInv
<1>4. ClipFresh'
  BY <1>1, <1>3, ClipUnchanged DEF FreshInv
<1>5. CopiesCounted'
  BY <1>1 DEF FreshInv, CopiesCounted, DownCounted
<1>6. CacheFresh' /\ AnswersFresh'
  BY <1>1 DEF FreshInv, CacheFresh, AnswersFresh
<1> QED
  BY <1>3, <1>4, <1>5, <1>6 DEF FreshInv

\* The text answers everybody who waits and is fresh for them.
LEMMA FreshHandleData ==
  ASSUME Typed, FreshInv, HandleClipboardData
  PROVE  FreshInv'
<1>1. /\ work # <<>> /\ Head(work).kind = "send" /\ work' = Tail(work)
      /\ cachedData' = Head(work).data /\ pending' = <<>>
      /\ hist'.announced = hist.announced /\ hist'.copies = hist.copies
      /\ hist'.pasted = IF pending = <<>> THEN hist.pasted ELSE Pasted(Head(work).data, Head(pending))
      /\ UNCHANGED <<clip, view, up, down, own>>
  BY TypedHandleData
<1>2. \A n \in Nat : Needed(n)' => Needed(n)
  BY <1>1 DEF Needed
<1>3. WorkFresh' /\ UpFresh' /\ \A n \in Nat : Known(n)' => Known(n)
  BY <1>1, <1>2, JobTaken DEF FreshInv
<1>4. ClipFresh'
  BY <1>1, <1>3, ClipUnchanged DEF FreshInv
<1>5. CopiesCounted'
  BY <1>1 DEF FreshInv, CopiesCounted, DownCounted
<1>6. \A n \in Nat : Needed(n) => Fresh(Head(work).data, n)
  <2>1. 1 \in DOMAIN work /\ Head(work) = work[1]
    BY <1>1, TailOf DEF Typed
  <2> QED
    BY <1>1, <2>1 DEF FreshInv, WorkFresh
<1>7. CacheFresh'
  <2>1. hist.announced \in Nat /\ Needed(hist.announced)
    BY DEF Typed, HistTyped, Needed
  <2>2. Fresh(Head(work).data, hist.announced)
    BY <1>6, <2>1
  <2> QED
    BY <1>1, <2>2 DEF CacheFresh, Fresh
<1>8. AnswersFresh'
  <2>1. CASE pending = <<>>
    BY <1>1, <2>1 DEF FreshInv, AnswersFresh
  <2>2. CASE pending # <<>>
    <3>1. 1 \in DOMAIN pending /\ Head(pending) = pending[1] /\ pending[1] \in Waiting
      BY <2>2, TailOf DEF Typed
    <3>2. Head(pending).need \in Nat /\ Needed(Head(pending).need)
      BY <3>1 DEF Needed, Waiting
    <3>3. Fresh(Head(work).data, Head(pending).need)
      BY <1>6, <3>2
    <3>4. hist'.pasted.data = Head(work).data /\ hist'.pasted.need = Head(pending).need
      BY <1>1, <2>2 DEF Pasted
    <3> QED
      BY <1>1, <3>3, <3>4 DEF AnswersFresh, Fresh
  <2> QED
    BY <2>1, <2>2
<1> QED
  BY <1>3, <1>4, <1>5, <1>7, <1>8 DEF FreshInv

LEMMA FreshPaste ==
  ASSUME Typed, FreshInv, NEW t \in Targets, Paste(t)
  PROVE  FreshInv'
<1>1. /\ hist'.announced = hist.announced /\ hist'.copies = hist.copies
      /\ UNCHANGED <<clip, view, up, own, work, cachedData>>
  BY TypedPaste
<1>2. CASE PasteCached(t)
  <2>1. /\ UNCHANGED <<pending, down>> /\ cachedData # NoData
        /\ hist'.pasted = Pasted(cachedData, [target |-> t, need |-> hist.announced])
    BY <1>2 DEF PasteCached
  <2>2. hist'.pasted.data = cachedData /\ hist'.pasted.need = hist.announced
    BY <2>1 DEF Pasted
  <2>3. AnswersFresh'
    BY <1>1, <2>1, <2>2 DEF FreshInv, AnswersFresh, CacheFresh, Fresh
  <2>4. WorkFresh' /\ UpFresh' /\ \A n : Known(n)' => Known(n)
    BY <1>1, <2>1, WorkUnchanged, QueuesUnchanged DEF FreshInv
  <2>5. ClipFresh'
    BY <1>1, <2>4, ClipUnchanged DEF FreshInv
  <2>6. CopiesCounted' /\ CacheFresh'
    BY <1>1, <2>1 DEF FreshInv, CopiesCounted, DownCounted, CacheFresh, Fresh
  <2> QED
    BY <2>3, <2>4, <2>5, <2>6 DEF FreshInv
<1>3. CASE PasteWaits(t)
  <2>1. cachedData = NoData /\ hist'.pasted = hist.pasted
    BY <1>3 DEF PasteWaits
  <2>2. PICK p \in Waiting : p.need = hist.announced /\ pending' = <<p>> \o pending
    <3>1. [target |-> t, need |-> hist.announced] \in Waiting
      BY DEF Typed, HistTyped, Waiting
    <3> QED
      BY <1>3, <3>1 DEF PasteWaits
  <2>3. \A i \in DOMAIN pending' : pending'[i] = p \/ \E j \in DOMAIN pending : pending'[i] = pending[j]
    <3>1. pending \in Seq(Waiting) /\ <<p>> \in Seq(Waiting) /\ Len(<<p>>) = 1 /\ <<p>>[1] = p
      BY DEF Typed
    <3>2. /\ pending' \in Seq(Waiting) /\ Len(pending') = 1 + Len(pending)
          /\ \A i \in 1..(1 + Len(pending)) : pending'[i] = IF i <= 1 THEN <<p>>[i] ELSE pending[i - 1]
      BY <2>2, <3>1, ConcatProperties
    <3>3. /\ DOMAIN pending' = 1..(1 + Len(pending)) /\ DOMAIN pending = 1..Len(pending)
          /\ Len(pending) \in Nat
      BY <3>1, <3>2, LenProperties
    <3> QED
      BY <3>1, <3>2, <3>3
  <2>4. ASSUME NEW n, Needed(n)' PROVE Needed(n)
    BY <1>1, <2>2, <2>3, <2>4 DEF Needed
  <2>5. WorkFresh'
    BY <1>1, <2>4 DEF FreshInv, WorkFresh, AnnouncesBefore, Fresh
  <2>6. UpFresh' /\ \A n \in Nat : Known(n)' => Known(n)
    <3>1. \A n : (Announces(work, n)' <=> Announces(work, n)) /\ (Announces(up, n)' <=> Announces(up, n))
      BY <1>1 DEF Announces
    <3>2. \A k, n : AnnouncesBefore(up, k, n)' <=> AnnouncesBefore(up, k, n)
      BY <1>1 DEF AnnouncesBefore
    <3> QED
      BY <1>1, <2>4, <3>1, <3>2 DEF FreshInv, UpFresh, Known, Fresh
  <2>7. ClipFresh'
    BY <1>1, <2>6, ClipUnchanged DEF FreshInv
  <2>8. DownCounted'
    <3>1. DownCounted /\ hist.copies \in Nat
      BY DEF FreshInv, CopiesCounted, Typed, HistTyped
    <3>2. CASE UNCHANGED down
      BY <1>1, <3>1, <3>2, DownUnchanged
    <3>3. CASE down' = down \o Head1("request", NoText)
      <4>1. NoText \in Copies /\ NoText.id <= hist.copies /\ Payload(NoText) = <<>>
        BY <3>1, SpecialCopies DEF NoText, Copy, Payload
      <4>2. down \o Head1("request", NoText) \in Seq(Tokens)
        BY <4>1, EventTokens, ConcatProperties DEF Typed
      <4>3. down' = down \o Head1("request", NoText) \o Payload(NoText)
        BY <3>3, <4>1, <4>2, ConcatEmptySeq
      <4> QED
        BY <1>1, <3>1, <4>1, <4>3, DownWritten
    <3> QED
      BY <1>3, <3>2, <3>3 DEF PasteWaits
  <2>9. CopiesCounted'
    BY <1>1, <2>8 DEF FreshInv, CopiesCounted
  <2>10. CacheFresh' /\ AnswersFresh'
    BY <1>1, <2>1 DEF FreshInv, CacheFresh, AnswersFresh
  <2> QED
    BY <2>5, <2>6, <2>7, <2>9, <2>10 DEF FreshInv
<1> QED
  BY <1>2, <1>3, TypedPaste

LEMMA FreshClientCopies ==
  ASSUME Typed, FreshInv, NEW c \in Clients, ClientCopies(c)
  PROVE  FreshInv'
<1>1. /\ own' = [own EXCEPT ![c] = hist.copies + 1]
      /\ hist'.copies = hist.copies + 1 /\ hist'.announced = hist.announced
      /\ hist'.pasted = NothingPasted
      /\ UNCHANGED <<clip, view, up, down, cachedData, pending, work>>
  BY TypedClientCopies
<1>2. /\ hist.copies \in Nat /\ view.seen \in Nat /\ clip.id \in Int
      /\ own \in [Clients -> Nat]
  BY DEF Typed, HistTyped, ViewTyped, Copies
<1>3. WorkFresh' /\ UpFresh' /\ \A n : Known(n)' => Known(n)
  BY <1>1, WorkUnchanged, QueuesUnchanged DEF FreshInv
<1>4. ClipFresh'
  BY <1>1, <1>3, ClipUnchanged DEF FreshInv
<1>5. DownCounted'
  BY <1>1, <1>2, DownUnchanged DEF FreshInv, CopiesCounted
<1>6. CopiesCounted'
  BY <1>1, <1>2, <1>5 DEF FreshInv, CopiesCounted
<1> QED
  BY <1>1, <1>3, <1>4, <1>6, PastesUnchanged DEF FreshInv

LEMMA FreshClientAnswers ==
  ASSUME Typed, FreshInv, NEW a \in asked, ClientAnswers(a)
  PROVE  FreshInv'
<1>1. /\ UNCHANGED <<clip, view, up, own, cachedData, pending, work>>
      /\ a.client \in Clients
  BY TypedClientAnswers
<1>2. SameAges(hist, hist')
  BY TypedClientAnswers
<1>3. hist'.copies = hist.copies /\ hist'.announced = hist.announced
  BY <1>2 DEF SameAges
<1>4. WorkFresh' /\ UpFresh' /\ \A n : Known(n)' => Known(n)
  BY <1>1, <1>3, WorkUnchanged, QueuesUnchanged DEF FreshInv
<1>5. DownCounted'
  <2>1. DownCounted /\ hist.copies \in Nat /\ own[a.client] <= hist.copies
    BY <1>1 DEF FreshInv, CopiesCounted, Typed, HistTyped
  <2>2. CASE UNCHANGED down
    BY <1>3, <2>1, <2>2, DownUnchanged
  <2>3. CASE AnswerSent(a.client)
    <3>1. PICK d \in Copies : d.id = own[a.client] /\ down' = down \o Head1("send", d) \o Payload(d)
      BY <2>3 DEF AnswerSent
    <3>2. d.id <= hist.copies
      BY <2>1, <3>1
    <3> QED
      BY <1>3, <2>1, <3>1, <3>2, DownWritten
  <2> QED
    BY <2>2, <2>3, TypedClientAnswers
<1> QED
  BY <1>1, <1>2, <1>4, <1>5, FreshMoving

LEMMA NextFresh == Typed /\ FreshInv /\ [Next]_vars => FreshInv'
<1> SUFFICES ASSUME Typed, FreshInv, [Next]_vars PROVE FreshInv'
  OBVIOUS
<1>0. /\ DownCounted /\ WorkFresh /\ UpFresh /\ hist.copies \in Nat
      /\ SameAges(hist, hist)
  BY DEF FreshInv, CopiesCounted, Typed, HistTyped, SameAges
<1>1. CASE UserCopies
  BY <1>1, FreshUserCopies
<1>2. CASE GraceEnds
  <2>1. UNCHANGED <<clip, up, down, own, cachedData, pending, work, hist>> /\ view'.seen = view.seen
    BY <1>2 DEF GraceEnds, xVars, Typed, ViewTyped
  <2>2. DownCounted'
    BY <1>0, <2>1 DEF DownCounted
  <2>3. WorkFresh' /\ UpFresh' /\ \A n : Known(n)' => Known(n)
    BY <1>0, <2>1, WorkUnchanged, QueuesUnchanged
  <2> QED
    BY <1>0, <2>1, <2>2, <2>3, FreshMoving
<1>3. CASE HandleClipboardChange
  <2>1. /\ ViewTyped(view) /\ Announce(clip, view)
        /\ UNCHANGED <<clip, alive, down, xVars>>
    BY <1>3 DEF Typed, HandleClipboardChange
  <2> QED
    BY <2>1, FreshAnnouncing
<1>4. CASE FocusChanged
  <2>1. UNCHANGED <<clip, alive, down, xVars>> /\ ViewTyped(FocusedView) /\ FocusedView.seen = view.seen
    BY <1>4, FocusEffect, FocusTyped
  <2>2. CASE Announce(clip, FocusedView)
    BY <2>1, <2>2, FreshAnnouncing
  <2>3. CASE view' = FocusedView /\ UNCHANGED <<up, hist>>
    <3>1. UNCHANGED <<clip, up, down, own, cachedData, pending, work, hist>> /\ view'.seen = view.seen
      BY <2>1, <2>3 DEF xVars
    <3>2. DownCounted'
      BY <1>0, <3>1 DEF DownCounted
    <3>3. WorkFresh' /\ UpFresh' /\ \A n : Known(n)' => Known(n)
      BY <1>0, <3>1, WorkUnchanged, QueuesUnchanged
    <3> QED
      BY <1>0, <3>1, <3>2, <3>3, FreshMoving
  <2> QED
    BY <1>4, <2>2, <2>3, FocusEffect
<1>5. CASE ReloadPreferences
  <2>1. UNCHANGED <<clip, down, own, cachedData, pending, work, hist>> /\ view'.seen = view.seen
    BY <1>5, TypedReloadPreferences DEF ReloadPreferences, xVars
  <2>2. DownCounted' /\ WorkFresh' /\ SameAges(hist, hist')
    BY <1>0, <2>1, WorkUnchanged DEF DownCounted
  <2>3. PICK on \in BOOLEAN : up' \in {up, Append(up, [kind |-> "enable", on |-> on])}
    BY <1>5, TypedReloadPreferences
  <2>4. PICK m : m = [kind |-> "enable", on |-> on]
    OBVIOUS
  <2>5. m \in Ups /\ m.kind = "enable"
    BY <2>4 DEF Ups
  <2>6. UpFresh' /\ \A n \in Nat : Known(n)' => Known(n)
    <3>1. CASE up' = up
      BY <1>0, <2>1, <3>1, QueuesUnchanged
    <3>2. CASE up' = Append(up, m)
      BY <1>0, <2>1, <2>5, <3>2, UpAppended
    <3> QED
      BY <2>3, <2>4, <3>1, <3>2
  <2> QED
    BY <2>1, <2>2, <2>6, FreshMoving
<1>6. CASE Connect \/ Disconnect
  <2>1. UNCHANGED <<clip, view, own, cachedData, pending, work>>
    BY <1>6 DEF Connect, Disconnect, xVars, androidVars
  <2>2. SameAges(hist, hist')
    BY <1>6, TypedConnect, TypedDisconnect
  <2>3. hist'.announced = hist.announced /\ hist'.copies = hist.copies
    BY <2>2 DEF SameAges
  <2>4. down' = down \/ down' = <<>>
    BY <1>6 DEF Connect, Disconnect
  <2>5. DownCounted'
    BY <1>0, <2>3, <2>4 DEF DownCounted
  <2>6. \/ up' = <<>>
        \/ \E on \in BOOLEAN : up' = <<[kind |-> "enable", on |-> on]>>
    BY <1>6, TypedConnect DEF Disconnect
  <2>7. UpFresh' /\ WorkFresh' /\ \A n : Known(n)' => Known(n)
    BY <1>0, <2>1, <2>3, <2>6, UpReset, WorkUnchanged
  <2> QED
    BY <2>1, <2>2, <2>5, <2>7, FreshMoving
<1>7. CASE ActivityReadsEvent
  BY <1>7, FreshReadsEvent
<1>8. CASE ActivityReadsGarbage
  <2>1. UNCHANGED <<clip, view, up, own, cachedData, pending, work>>
    BY <1>8 DEF ActivityReadsGarbage, xVars
  <2>2. SameAges(hist, hist') /\ down' = SubSeq(down, 3, Len(down))
    BY <1>8, TypedReadsGarbage
  <2>3. hist'.announced = hist.announced /\ hist'.copies = hist.copies
    BY <2>2 DEF SameAges
  <2>4. DownCounted'
    <3>1. 3 \in Nat \ {0}
      OBVIOUS
    <3> QED
      BY <1>0, <2>2, <2>3, <3>1, DownRead, Zenon
  <2>5. WorkFresh' /\ UpFresh' /\ \A n : Known(n)' => Known(n)
    BY <1>0, <2>1, <2>3, WorkUnchanged, QueuesUnchanged
  <2> QED
    BY <2>1, <2>2, <2>4, <2>5, FreshMoving
<1>9. CASE ServerReads
  <2>1. UNCHANGED <<clip, view, down, own, cachedData, pending, hist>>
    BY <1>9 DEF ServerReads, androidVars
  <2>2. DownCounted' /\ SameAges(hist, hist')
    BY <1>0, <2>1 DEF DownCounted
  <2>3. WorkFresh' /\ UpFresh' /\ \A n \in Nat : Known(n)' => Known(n)
    BY <1>0, <1>9, <2>1, TypedServerReads, MessageQueued
  <2> QED
    BY <2>1, <2>2, <2>3, FreshMoving
<1>10. CASE Main
  BY <1>10, FreshHandleAnnounce, FreshHandleData DEF Main
<1>11. CASE \E t \in Targets : Paste(t)
  BY <1>11, FreshPaste
<1>12. CASE \E c \in Clients : ClientCopies(c)
  BY <1>12, FreshClientCopies
<1>13. CASE \E a \in asked : ClientAnswers(a)
  BY <1>13, FreshClientAnswers
<1>14. CASE UNCHANGED vars
  <2>1. UNCHANGED <<clip, view, up, down, own, cachedData, pending, work, hist>>
    BY <1>14 DEF vars
  <2>2. DownCounted' /\ SameAges(hist, hist')
    BY <1>0, <2>1 DEF DownCounted
  <2>3. WorkFresh' /\ UpFresh' /\ \A n : Known(n)' => Known(n)
    BY <1>0, <2>1, WorkUnchanged, QueuesUnchanged
  <2> QED
    BY <2>1, <2>2, <2>3, FreshMoving
<1> QED
  BY <1>1, <1>2, <1>3, <1>4, <1>5, <1>6, <1>7, <1>8, <1>9, <1>10, <1>11, <1>12, <1>13, <1>14
  DEF Next, Activity

LEMMA InitFresh == Init => FreshInv
<1> SUFFICES ASSUME Init PROVE FreshInv
  OBVIOUS
<1>1. clip = NoText /\ cachedData = NoData /\ view.seen = 0 /\ hist.copies = 0
  BY DEF Init
<1>2. hist.announced = 0 /\ hist.pasted.data = NoText
  BY DEF Init, NothingPasted
<1>3. up = <<>> /\ work = <<>> /\ down = <<>> /\ pending = <<>>
  BY DEF Init
<1>4. CopiesCounted
  BY <1>1, <1>3 DEF CopiesCounted, DownCounted, Init, NoText, Copy
<1>5. ClipFresh
  BY <1>1, <1>2, <1>3 DEF ClipFresh, Known, Needed, Announces, Fresh
<1>6. WorkFresh /\ UpFresh
  BY <1>3 DEF WorkFresh, UpFresh
<1>7. CacheFresh /\ AnswersFresh
  BY <1>1, <1>2, <1>3 DEF CacheFresh, AnswersFresh
<1> QED
  BY <1>4, <1>5, <1>6, <1>7 DEF FreshInv

\* Nobody is given a text older than the announcement handled before he asked,
\* and nobody waits for a text that is cached: for any number of copies,
\* waiting pastes, connections and queued messages (lorieHandleClipboardAnnounce,
\* lorieHandleClipboardData, lorieProcConvertSelection, requestClipboard).
THEOREM TextsAreFresh == Spec => []AnswersFresh
<1>1. Init => Typed /\ FreshInv
  BY InitTyped, InitFresh
<1>2. Typed /\ FreshInv /\ [Next]_vars => (Typed /\ FreshInv)'
  BY NextTyped, NextFresh
<1>3. FreshInv => AnswersFresh
  BY DEF FreshInv
<1> QED
  BY <1>1, <1>2, <1>3, PTL DEF Spec

-----------------------------------------------------------------------------
(* Agreement.  The latest copy is a client's or Android's.  As long as it  *)
(* was neither missed nor crossed it is on its way, or has arrived, and    *)
(* nothing older is behind it.                                             *)

SendOf(t) == t.kind = "type" /\ t.ev = "send"

\* Every event in the socket has its other bytes behind it.
WellFormed ==
  \A i \in DOMAIN down : down[i].kind = "type" =>
     /\ i + 1 \in DOMAIN down /\ down[i + 1].kind = "rest"
     /\ SendOf(down[i]) /\ down[i].data.bytes # <<>> => i + 2 \in DOMAIN down /\ down[i + 2].kind = "text"

ClientMade == hist.copies > 0 /\ \E c \in Clients : own[c] = hist.copies

\* Only a client that copied is asked, and only its copies are sent.
CopiersAsked ==
  /\ \A a \in asked : own[a.client] > 0
  /\ owner \in Clients => own[owner] > 0

SendsAreClients ==
  \A i \in DOMAIN down : SendOf(down[i]) =>
     down[i].data.id > 0 /\ (~ClientMade => down[i].data.id # hist.copies)

\* A client's copy is never announced, not even once Android has it.
NotAnnounced ==
  ClientMade =>
     /\ ~Announces(up, hist.copies) /\ ~Announces(work, hist.copies)
     /\ clip.id = hist.copies => view.seen = hist.copies

Latest(m) == m.kind # "announce" /\ (m.kind = "send" => m.data = clip)

AskedForIt(a) == a.client = owner /\ a.target \in {"TARGETS"} \cup Offers[owner]
Carries(t) == SendOf(t) /\ t.data.id = hist.copies /\ t.data.bytes # <<>>

FromClient ==
  /\ owner \in Clients /\ own[owner] = hist.copies
  /\ \/ \E a \in asked : AskedForIt(a)
     \/ \E i \in DOMAIN down : Carries(down[i])
     \/ clip.id = hist.copies

\* Everything behind the announcement of the latest copy n is that copy.
WorkLatest(n) ==
  \A k \in DOMAIN work :
     hist.announced = n \/ AnnouncesBefore(work, k, n) => Latest(work[k])
UpLatest(n) ==
  \A k \in DOMAIN up :
     hist.announced = n \/ Announces(work, n) \/ AnnouncesBefore(up, k, n) => Latest(up[k])
HeldLatest(n) == hist.announced = n => owner \notin Clients /\ cachedData \in {NoData, clip}

FromAndroid ==
  /\ clip.id = hist.copies
  /\ \/ view.seen < hist.copies \/ hist.announced = hist.copies
     \/ Announces(work, hist.copies) \/ Announces(up, hist.copies)
  /\ WorkLatest(hist.copies) /\ UpLatest(hist.copies) /\ HeldLatest(hist.copies)

LatestOnItsWay ==
  ~hist.missed /\ ~hist.crossed => IF ClientMade THEN FromClient ELSE FromAndroid

\* Nothing is on its way between processes that are not connected.
ClosedIsEmpty == ~alive => up = <<>> /\ down = <<>>

AgreeInv ==
  /\ WellFormed /\ ClosedIsEmpty /\ CopiersAsked /\ SendsAreClients /\ NotAnnounced
  /\ LatestOnItsWay

-----------------------------------------------------------------------------
(* The form of the stream. *)

Formed(q) ==
  \A i \in DOMAIN q : q[i].kind = "type" =>
     /\ i + 1 \in DOMAIN q /\ q[i + 1].kind = "rest"
     /\ SendOf(q[i]) /\ q[i].data.bytes # <<>> => i + 2 \in DOMAIN q /\ q[i + 2].kind = "text"

LEMMA WellFormedIs == WellFormed <=> Formed(down)
  BY DEF WellFormed, Formed

RestFrom(r, q, m) ==
  /\ Formed(r)
  /\ \A i \in DOMAIN r : i + m - 1 \in DOMAIN q /\ r[i] = q[i + m - 1]
  /\ \A i \in DOMAIN q : i >= m => i - m + 1 \in DOMAIN r /\ r[i - m + 1] = q[i]

LEMMA FormedRest ==
  ASSUME NEW q \in Seq(Tokens), Formed(q), NEW m \in Nat \ {0}, NEW r, r = SubSeq(q, m, Len(q))
  PROVE  RestFrom(r, q, m)
<1>1. /\ r \in Seq(Tokens)
      /\ Len(r) = IF m <= Len(q) THEN Len(q) - m + 1 ELSE 0
      /\ \A i \in 1..Len(r) : r[i] = q[m + i - 1]
  <2>1. /\ SubSeq(q, m, Len(q)) \in Seq(Tokens)
        /\ Len(SubSeq(q, m, Len(q))) = IF m <= Len(q) THEN Len(q) - m + 1 ELSE 0
        /\ \A i \in 1..Len(SubSeq(q, m, Len(q))) : SubSeq(q, m, Len(q))[i] = q[m + i - 1]
    BY RestOfStream
  <2> QED
    BY <2>1, Zenon
<1>2. DOMAIN q = 1..Len(q) /\ Len(q) \in Nat /\ DOMAIN r = 1..Len(r) /\ Len(r) \in Nat
  BY <1>1, LenProperties
<1>3. \A i \in DOMAIN r : i + m - 1 \in DOMAIN q /\ r[i] = q[i + m - 1]
  BY <1>1, <1>2
<1>4. \A i \in DOMAIN q : i >= m => i - m + 1 \in DOMAIN r /\ r[i - m + 1] = q[i]
  BY <1>1, <1>2
<1>5. ASSUME NEW i \in DOMAIN r, r[i].kind = "type"
      PROVE  /\ i + 1 \in DOMAIN r /\ r[i + 1].kind = "rest"
             /\ SendOf(r[i]) /\ r[i].data.bytes # <<>> => i + 2 \in DOMAIN r /\ r[i + 2].kind = "text"
  <2>1. PICK j \in DOMAIN q : j = i + m - 1 /\ r[i] = q[j]
    BY <1>3
  <2>2. /\ j + 1 \in DOMAIN q /\ q[j + 1].kind = "rest"
        /\ SendOf(q[j]) /\ q[j].data.bytes # <<>> => j + 2 \in DOMAIN q /\ q[j + 2].kind = "text"
    BY <1>5, <2>1 DEF Formed
  <2>3. i + 1 \in DOMAIN r /\ r[i + 1] = q[j + 1]
    <3>1. j + 1 >= m /\ (j + 1) - m + 1 = i + 1
      BY <1>2, <2>1
    <3> QED
      BY <1>4, <2>2, <3>1
  <2>4. j + 2 \in DOMAIN q => i + 2 \in DOMAIN r /\ r[i + 2] = q[j + 2]
    BY <1>1, <1>2, <2>1
  <2> QED
    BY <2>1, <2>2, <2>3, <2>4
<1> QED
  BY <1>3, <1>4, <1>5 DEF Formed, RestFrom

Joined(r, s, t) ==
  /\ r \in Seq(Tokens) /\ Len(r) = Len(s) + Len(t) /\ Len(s) \in Nat /\ Len(t) \in Nat
  /\ DOMAIN s = 1..Len(s) /\ DOMAIN t = 1..Len(t) /\ DOMAIN r = 1..(Len(s) + Len(t))
  /\ \A k \in DOMAIN s : k \in DOMAIN r /\ r[k] = s[k]
  /\ \A k \in DOMAIN t : Len(s) + k \in DOMAIN r /\ r[Len(s) + k] = t[k]

LEMMA ConcatAt ==
  ASSUME NEW s \in Seq(Tokens), NEW t \in Seq(Tokens), NEW r, r = s \o t
  PROVE  Joined(r, s, t)
<1>1. /\ r \in Seq(Tokens) /\ Len(r) = Len(s) + Len(t)
      /\ \A k \in 1..(Len(s) + Len(t)) : r[k] = IF k <= Len(s) THEN s[k] ELSE t[k - Len(s)]
  <2>1. /\ s \o t \in Seq(Tokens) /\ Len(s \o t) = Len(s) + Len(t)
        /\ \A k \in 1..(Len(s) + Len(t)) : (s \o t)[k] = IF k <= Len(s) THEN s[k] ELSE t[k - Len(s)]
    BY ConcatProperties
  <2> QED
    BY <2>1, Zenon
<1>2. /\ Len(s) \in Nat /\ Len(t) \in Nat
      /\ DOMAIN s = 1..Len(s) /\ DOMAIN t = 1..Len(t) /\ DOMAIN r = 1..Len(r)
  BY <1>1, LenProperties
<1>3. PICK a \in Nat : a = Len(s)
  BY <1>2
<1>4. PICK b \in Nat : b = Len(t)
  BY <1>2
<1>5. /\ DOMAIN s = 1..a /\ DOMAIN t = 1..b /\ DOMAIN r = 1..(a + b)
      /\ \A k \in 1..(a + b) : r[k] = IF k <= a THEN s[k] ELSE t[k - a]
  BY <1>1, <1>2, <1>3, <1>4, Zenon
<1>6. \A k \in DOMAIN s : k \in DOMAIN r /\ r[k] = s[k]
  BY <1>5
<1>7. \A k \in DOMAIN t : a + k \in DOMAIN r /\ r[a + k] = t[k]
  BY <1>5
<1> QED
  BY <1>1, <1>2, <1>3, <1>4, <1>5, <1>6, <1>7, Zenon DEF Joined

LEMMA FormedJoined ==
  ASSUME NEW s \in Seq(Tokens), NEW t \in Seq(Tokens), NEW r, r = s \o t, Formed(s), Formed(t)
  PROVE  Formed(r)
<1>0. Joined(r, s, t)
  BY ConcatAt
<1>1. PICK a \in Nat : a = Len(s)
  BY <1>0 DEF Joined
<1>2. PICK b \in Nat : b = Len(t)
  BY <1>0 DEF Joined
<1>3. /\ DOMAIN s = 1..a /\ DOMAIN t = 1..b /\ DOMAIN r = 1..(a + b)
      /\ \A k \in DOMAIN s : k \in DOMAIN r /\ r[k] = s[k]
      /\ \A k \in DOMAIN t : a + k \in DOMAIN r /\ r[a + k] = t[k]
  BY <1>0, <1>1, <1>2, Zenon DEF Joined
<1>4. ASSUME NEW i \in DOMAIN r, r[i].kind = "type"
      PROVE  /\ i + 1 \in DOMAIN r /\ r[i + 1].kind = "rest"
             /\ SendOf(r[i]) /\ r[i].data.bytes # <<>> => i + 2 \in DOMAIN r /\ r[i + 2].kind = "text"
  <2>1. CASE i \in DOMAIN s
    <3>1. r[i] = s[i]
      BY <1>3, <2>1
    <3>2. /\ i + 1 \in DOMAIN s /\ s[i + 1].kind = "rest"
          /\ SendOf(s[i]) /\ s[i].data.bytes # <<>> => i + 2 \in DOMAIN s /\ s[i + 2].kind = "text"
      BY <1>4, <2>1, <3>1 DEF Formed
    <3> QED
      BY <1>3, <3>1, <3>2
  <2>2. CASE i \notin DOMAIN s
    <3>1. PICK j \in DOMAIN t : i = a + j
      <4>1. i - a \in 1..b /\ i = a + (i - a)
        BY <1>3, <2>2
      <4> QED
        BY <1>3, <4>1
    <3>2. r[i] = t[j]
      BY <1>3, <3>1
    <3>3. /\ j + 1 \in DOMAIN t /\ t[j + 1].kind = "rest"
          /\ SendOf(t[j]) /\ t[j].data.bytes # <<>> => j + 2 \in DOMAIN t /\ t[j + 2].kind = "text"
      BY <1>4, <3>1, <3>2 DEF Formed
    <3>4. i + 1 = a + (j + 1) /\ i + 2 = a + (j + 2)
      BY <1>3, <3>1
    <3> QED
      BY <1>3, <3>2, <3>3, <3>4
  <2> QED
    BY <2>1, <2>2
<1> QED
  BY <1>4 DEF Formed

OneEvent(e, ev, d) ==
  /\ e \in Seq(Tokens) /\ Formed(e)
  /\ 1 \in DOMAIN e /\ e[1] = [kind |-> "type", ev |-> ev, data |-> d]
  /\ \A i \in DOMAIN e : e[i].kind = "type" => i = 1

\* One event as it is written: header and text.
LEMMA FormedEvent ==
  ASSUME NEW ev \in {"send", "request"}, NEW d \in Copies, NEW e, e = Head1(ev, d) \o Payload(d)
  PROVE  OneEvent(e, ev, d)
<1>1. PICK h : h = Head1(ev, d)
  OBVIOUS
<1>2. PICK p : p = Payload(d)
  OBVIOUS
<1>3. /\ h \in Seq(Tokens) /\ Len(h) = 2
      /\ p \in Seq(Tokens) /\ Len(p) = IF d.bytes = <<>> THEN 0 ELSE 1
      /\ h[1] = [kind |-> "type", ev |-> ev, data |-> d]
      /\ h[2] = [kind |-> "rest"]
      /\ d.bytes # <<>> => p[1] = [kind |-> "text"]
  BY <1>1, <1>2, EventTokens, Zenon
<1>4. /\ e \in Seq(Tokens)
      /\ DOMAIN h = 1..2 /\ DOMAIN p = 1..Len(p) /\ DOMAIN e = 1..(2 + Len(p))
      /\ \A k \in DOMAIN h : k \in DOMAIN e /\ e[k] = h[k]
      /\ \A k \in DOMAIN p : 2 + k \in DOMAIN e /\ e[2 + k] = p[k]
  <2>1. e = h \o p
    BY <1>1, <1>2, Zenon
  <2>2. Joined(e, h, p)
    BY <1>3, <2>1, ConcatAt
  <2> QED
    BY <1>3, <2>2, Zenon DEF Joined
<1>5. 1 \in DOMAIN e /\ e[1] = h[1] /\ 2 \in DOMAIN e /\ e[2] = h[2]
  BY <1>4
<1>6. CASE d.bytes = <<>>
  <2>1. DOMAIN e = 1..2
    BY <1>3, <1>4, <1>6
  <2>2. \A i \in DOMAIN e : i = 1 \/ e[i].kind # "type"
    BY <1>3, <1>5, <2>1
  <2> QED
    BY <1>3, <1>4, <1>5, <1>6, <2>1, <2>2 DEF Formed, OneEvent
<1>7. CASE d.bytes # <<>>
  <2>1. Len(p) = 1 /\ DOMAIN e = 1..3
    BY <1>3, <1>4, <1>7
  <2>2. e[3] = p[1]
    <3>1. 1 \in DOMAIN p
      BY <1>4, <2>1
    <3>2. 2 + 1 = 3
      OBVIOUS
    <3> QED
      BY <1>4, <3>1, <3>2, Zenon
  <2>3. e[1].kind = "type" /\ e[2].kind = "rest" /\ e[3].kind = "text"
    BY <1>3, <1>5, <1>7, <2>2
  <2>4. \A i \in DOMAIN e : i = 1 \/ e[i].kind # "type"
    BY <2>1, <2>3
  <2>5. 1 + 1 \in DOMAIN e /\ e[1 + 1] = e[2] /\ 1 + 2 \in DOMAIN e /\ e[1 + 2] = e[3]
    BY <2>1
  <2>6. Formed(e)
    BY <2>3, <2>4, <2>5 DEF Formed
  <2> QED
    BY <1>3, <1>4, <1>5, <2>4, <2>6 DEF OneEvent
<1> QED
  BY <1>6, <1>7

\* What is written goes behind what is there.
LEMMA StreamWritten ==
  ASSUME Typed, WellFormed, NEW ev \in {"send", "request"}, NEW d \in Copies,
         down' = down \o Head1(ev, d) \o Payload(d)
  PROVE  /\ WellFormed'
         /\ \A i \in DOMAIN down : i \in DOMAIN down' /\ down'[i] = down[i]
         /\ \E i \in DOMAIN down' : down'[i] = [kind |-> "type", ev |-> ev, data |-> d]
         /\ \A i \in DOMAIN down' : down'[i].kind = "type" =>
               \/ i \in DOMAIN down /\ down'[i] = down[i]
               \/ down'[i] = [kind |-> "type", ev |-> ev, data |-> d]
<1>1. PICK q \in Seq(Tokens) : q = down
  BY DEF Typed
<1>2. PICK r : r = down'
  OBVIOUS
<1>3. PICK e : e = Head1(ev, d) \o Payload(d)
  OBVIOUS
<1>4. PICK tok : tok = [kind |-> "type", ev |-> ev, data |-> d]
  OBVIOUS
<1>5. /\ e \in Seq(Tokens) /\ Formed(e) /\ 1 \in DOMAIN e /\ e[1] = tok
      /\ \A i \in DOMAIN e : e[i].kind = "type" => i = 1
  <2>1. OneEvent(e, ev, d)
    BY <1>3, FormedEvent
  <2> QED
    BY <1>4, <2>1, Zenon DEF OneEvent
<1>6. r = q \o e
  <2>1. Head1(ev, d) \in Seq(Tokens) /\ Payload(d) \in Seq(Tokens)
    BY EventTokens
  <2>2. (q \o Head1(ev, d)) \o Payload(d) = q \o (Head1(ev, d) \o Payload(d))
    BY <2>1, ConcatAssociative
  <2> QED
    BY <1>1, <1>2, <1>3, <2>2, Zenon
<1>7. Joined(r, q, e)
  BY <1>5, <1>6, ConcatAt
<1>8. Formed(r)
  <2>1. Formed(q)
    BY <1>1, WellFormedIs
  <2> QED
    BY <1>5, <1>6, <2>1, FormedJoined
<1>9. \A i \in DOMAIN q : i \in DOMAIN r /\ r[i] = q[i]
  BY <1>7, Zenon DEF Joined
<1>10. Len(q) + 1 \in DOMAIN r /\ r[Len(q) + 1] = tok
  BY <1>5, <1>7, Zenon DEF Joined
<1>11. ASSUME NEW i \in DOMAIN r, r[i].kind = "type"
       PROVE  (i \in DOMAIN q /\ r[i] = q[i]) \/ r[i] = tok
  <2>1. PICK a \in Nat : a = Len(q)
    BY <1>7 DEF Joined
  <2>2. PICK b \in Nat : b = Len(e)
    BY <1>7 DEF Joined
  <2>3. /\ DOMAIN q = 1..a /\ DOMAIN e = 1..b /\ DOMAIN r = 1..(a + b)
        /\ \A k \in DOMAIN e : r[a + k] = e[k]
    BY <1>7, <2>1, <2>2, Zenon DEF Joined
  <2>4. CASE i \notin DOMAIN q
    <3>1. PICK j \in DOMAIN e : i = a + j
      <4>1. i - a \in 1..b /\ i = a + (i - a)
        BY <2>3, <2>4
      <4> QED
        BY <2>3, <4>1
    <3>2. r[i] = e[j]
      BY <2>3, <3>1
    <3>3. j = 1
      BY <1>5, <1>11, <3>2
    <3> QED
      BY <1>5, <3>2, <3>3
  <2> QED
    BY <1>9, <2>4
<1>12. Formed(r) <=> WellFormed'
  BY <1>2 DEF Formed, WellFormed
<1> QED
  BY <1>1, <1>2, <1>4, <1>8, <1>9, <1>10, <1>11, <1>12, Zenon

LEMMA RequestWritten ==
  ASSUME Typed, down' = down \o Head1("request", NoText)
  PROVE  down' = down \o Head1("request", NoText) \o Payload(NoText)
<1>1. Payload(NoText) = <<>> /\ down \in Seq(Tokens)
  BY DEF NoText, Copy, Payload, Typed
<1>2. Head1("request", NoText) \in Seq(Tokens)
  BY EventTokens, SpecialCopies
<1>3. down \o Head1("request", NoText) \in Seq(Tokens)
  BY <1>1, <1>2, ConcatProperties
<1>4. (down \o Head1("request", NoText)) \o <<>> = down \o Head1("request", NoText)
  BY <1>3, ConcatEmptySeq
<1> QED
  BY <1>1, <1>4, Zenon

\* What is read goes from the front.
LEMMA StreamRead ==
  ASSUME Typed, WellFormed, NEW m \in Nat \ {0}, down' = SubSeq(down, m, Len(down))
  PROVE  /\ WellFormed'
         /\ \A i \in DOMAIN down' : \E j \in DOMAIN down : down'[i] = down[j]
         /\ \A i \in DOMAIN down : i >= m => \E j \in DOMAIN down' : down'[j] = down[i]
<1>1. PICK q \in Seq(Tokens) : q = down
  BY DEF Typed
<1>2. PICK r : r = down'
  OBVIOUS
<1>3. Formed(q) /\ r = SubSeq(q, m, Len(q))
  BY <1>1, <1>2, WellFormedIs
<1>4. RestFrom(r, q, m)
  BY <1>3, FormedRest
<1>5. Formed(r) <=> WellFormed'
  BY <1>2 DEF Formed, WellFormed
<1> QED
  BY <1>1, <1>2, <1>4, <1>5, Zenon DEF RestFrom

-----------------------------------------------------------------------------
(* The latest copy was neither missed nor crossed: what a step that leaves *)
(* it so cannot have done.                                                 *)

Clean(h) == ~h.missed /\ ~h.crossed

LEMMA CleanUserCopies ==
  ASSUME Typed, UserCopies, Clean(hist')
  PROVE  view' = view
<1>1. hist'.missed = view.blind
  BY DEF UserCopies, CopyMade, Typed, HistTyped, HistFields
<1> QED
  BY <1>1 DEF UserCopies, Clean

LEMMA CleanAnnounce ==
  ASSUME Typed, NEW v, ViewTyped(v), Announce(clip, v), Clean(hist')
  PROVE  /\ Clean(hist)
         /\ \/ up' = up /\ view' = v
            \/ up' = Append(up, Announcement) /\ view'.seen = clip.id /\ alive
<1>1. CASE Changed(clip, v)
  <2>1. hist' = [hist EXCEPT !.missed = @ \/ ~alive]
    BY <1>1 DEF Announce
  <2>2. Clean(hist) /\ alive
    BY <2>1 DEF Clean, Typed, HistTyped, HistFields
  <2>3. view'.seen = clip.id
    BY <1>1 DEF Announce, ViewTyped
  <2> QED
    BY <1>1, <2>2, <2>3 DEF Announce, Send, Announcement
<1>2. CASE ~Changed(clip, v)
  BY <1>2 DEF Announce
<1> QED
  BY <1>1, <1>2

LEMMA CleanConnect ==
  ASSUME Typed, Connect, Clean(hist')
  PROVE  Clean(hist)
  BY DEF Connect, Clean, Typed, HistTyped, HistFields

LEMMA CleanDisconnect ==
  ASSUME Typed, Disconnect, Clean(hist')
  PROVE  /\ Clean(hist)
         /\ \A n : ~Announces(up, n)
         /\ \A i \in DOMAIN down : ~SendOf(down[i])
<1> DEFINE lost == (\E m \in Range(up) : m.kind = "announce")
                     \/ (\E t \in Range(down) : t.kind = "type" /\ t.ev = "send")
           waits == pending # <<>>
<1>1. hist' = [hist EXCEPT !.missed = hist.missed \/ lost, !.dropped = hist.dropped \/ waits]
  BY Zenon DEF Disconnect
<1> HIDE DEF lost, waits
<1>2. Clean(hist) /\ ~lost
  BY <1>1 DEF Clean, Typed, HistTyped, HistFields
<1>3. \A m \in Range(up) : m.kind # "announce"
  BY <1>2 DEF lost
<1>4. \A t \in Range(down) : ~SendOf(t)
  BY <1>2 DEF lost, SendOf
<1> QED
  BY <1>2, <1>3, <1>4 DEF Range, Announces

LEMMA CleanSwallow ==
  ASSUME NEW h, HistTyped(h), NEW token, Clean(Swallow(h, token))
  PROVE  Clean(h) /\ ~SendOf(token)
  BY DEF Swallow, Clean, SendOf, HistTyped, HistFields

\* A text is read with the three bytes of its event and one more.
LEMMA CleanReadsEvent ==
  ASSUME Typed, ActivityReadsEvent, Clean(hist')
  PROVE  /\ Clean(hist) /\ down # <<>> /\ down[1].kind = "type"
         /\ \/ /\ down[1].ev = "send" /\ down[1].data.bytes # <<>>
               /\ TakesText(down[1].data, 5) /\ down[1].data.id >= clip.id
               /\ 4 \in DOMAIN down => ~SendOf(down[4])
            \/ /\ ~(SendOf(down[1]) /\ down[1].data.bytes # <<>>) /\ DropsEmpty
            \/ /\ ~SendOf(down[1])
               /\ down' = SubSeq(down, 3, Len(down)) /\ UNCHANGED <<clip, view>>
               /\ up' = up \/ up' = Append(up, [kind |-> "send", data |-> clip])
<1> DEFINE e == down[1]
           n == Len(Payload(e.data))
           extra == IF 3 + n \in DOMAIN down THEN down[3 + n] ELSE [kind |-> "none"]
<1>0. down # <<>> /\ e.kind = "type" /\ e.data \in Copies
  <2>1. Len(down) >= 2 /\ e.kind = "type"
    BY DEF ActivityReadsEvent
  <2> QED
    BY <2>1, ReadEffect
<1>1. CASE /\ e.ev = "send" /\ ReadsText(e.data)
           /\ SetClipboardText(e.data)
           /\ down' = SubSeq(down, 4 + n, Len(down))
           /\ hist' = [Swallow(hist, extra) EXCEPT !.missed = @ \/ view.seen < clip.id,
                                                      !.crossed = @ \/ e.data.id < clip.id]
           /\ UNCHANGED up
  <2>1. e.data.bytes # <<>>
    BY <1>1 DEF ReadsText
  <2>2. n = 1
    BY <2>1 DEF Payload
  <2>3. TakesText(e.data, 5)
    BY <1>1, <2>2 DEF TakesText
  <2> DEFINE s == Swallow(hist, extra)
             x == view.seen < clip.id
             y == e.data.id < clip.id
  <2>4. HistTyped(s) /\ HistTyped(hist)
    BY SwallowEffect DEF Typed
  <2>5. hist' = [s EXCEPT !.missed = s.missed \/ x, !.crossed = s.crossed \/ y]
    BY <1>1
  <2> HIDE DEF s, x, y
  <2>6. Clean(s) /\ ~y
    BY <2>4, <2>5 DEF Clean, HistTyped, HistFields
  <2>7. Clean(hist) /\ ~SendOf(extra)
    BY <2>4, <2>6, CleanSwallow DEF s
  <2>8. e.data.id >= clip.id
    BY <1>0, <2>6 DEF y, Typed, Copies
  <2>9. 4 \in DOMAIN down => ~SendOf(down[4])
    BY <2>2, <2>7
  <2> QED
    BY <1>0, <1>1, <2>1, <2>3, <2>7, <2>8, <2>9
<1>2. CASE e.ev = "send" /\ ~ReadsText(e.data) /\ DropsEmpty
  BY <1>0, <1>2 DEF ReadsText, DropsEmpty
<1>3. CASE /\ e.ev = "request"
           /\ up' = up \o [i \in DOMAIN RequestedClip |-> [kind |-> "send", data |-> RequestedClip[i]]]
           /\ down' = SubSeq(down, 3, Len(down))
           /\ hist' = [hist EXCEPT !.dropped = @ \/ (view.sync /\ ~view.focus), !.missed = @ \/ ~view.sync]
           /\ UNCHANGED <<clip, view>>
  <2>1. Clean(hist) /\ view.sync
    BY <1>3 DEF Clean, Typed, HistTyped, HistFields
  <2>2. RequestedClip = <<>> \/ RequestedClip = <<clip>>
    BY <2>1 DEF RequestedClip
  <2>3. up' = up \/ up' = Append(up, [kind |-> "send", data |-> clip])
    <3> DEFINE msg(d) == [kind |-> "send", data |-> d]
    <3>0. up \in Seq(Ups) /\ msg(clip) \in Ups
      BY DEF Typed, Ups
    <3>1. CASE RequestedClip = <<>>
      <4>1. [i \in DOMAIN RequestedClip |-> msg(RequestedClip[i])] = <<>>
        BY <3>1
      <4> QED
        BY <1>3, <3>0, <4>1, ConcatEmptySeq
    <3>2. CASE RequestedClip = <<clip>>
      <4>1. [i \in DOMAIN RequestedClip |-> msg(RequestedClip[i])] = <<msg(clip)>>
        BY <3>2
      <4>2. up' = up \o <<msg(clip)>>
        BY <1>3, <4>1
      <4> HIDE DEF msg
      <4>3. up' = Append(up, msg(clip))
        BY <3>0, <4>2, AppendIsConcat
      <4> QED
        BY <4>3 DEF msg
    <3> QED
      BY <2>2, <3>1, <3>2
  <2>4. ~SendOf(e)
    BY <1>3 DEF SendOf
  <2> QED
    BY <1>0, <1>3, <2>1, <2>3, <2>4
<1>4. CASE /\ e.ev = "request" /\ view.sync
           /\ down' = SubSeq(down, 3, Len(down))
           /\ hist' = [hist EXCEPT !.dropped = TRUE]
           /\ UNCHANGED <<clip, view, up>>
  <2>1. Clean(hist)
    BY <1>4 DEF Clean, Typed, HistTyped, HistFields
  <2>2. ~SendOf(e)
    BY <1>4 DEF SendOf
  <2> QED
    BY <1>0, <1>4, <2>1, <2>2
<1> QED
  BY <1>1, <1>2, <1>3, <1>4 DEF ActivityReadsEvent, DropsEmpty

LEMMA CleanReadsGarbage ==
  ASSUME Typed, ActivityReadsGarbage, Clean(hist')
  PROVE  /\ Clean(hist)
         /\ 2 \in DOMAIN down => ~SendOf(down[2])
<1>0. HistTyped(hist) /\ down \in Seq(Tokens)
  BY DEF Typed
<1>1. CASE Len(down) >= 2
  <2>1. hist' = Swallow(hist, down[2])
    BY <1>1 DEF ActivityReadsGarbage
  <2> QED
    BY <1>0, <2>1, CleanSwallow
<1>2. CASE ~(Len(down) >= 2)
  <2>1. hist' = hist
    BY <1>2 DEF ActivityReadsGarbage
  <2>2. 2 \notin DOMAIN down
    BY <1>0, <1>2
  <2> QED
    BY <2>1, <2>2
<1> QED
  BY <1>1, <1>2

LEMMA CleanHandleAnnounce ==
  ASSUME Typed, HandleClipboardAnnounce, Clean(hist')
  PROVE  Clean(hist) /\ ~(owner \in Clients /\ own[owner] > Head(work).id) /\ owner' = Server
<1> DEFINE newer == owner \in Clients /\ own[owner] > Head(work).id
<1>1. hist' = [hist EXCEPT !.announced = Head(work).id, !.crossed = hist.crossed \/ newer]
  BY DEF HandleClipboardAnnounce
<1> HIDE DEF newer
<1>2. Clean(hist) /\ ~newer
  BY <1>1 DEF Clean, Typed, HistTyped, HistFields
<1> QED
  BY <1>2 DEF newer, HandleClipboardAnnounce

LEMMA CleanHandleData ==
  ASSUME Typed, HandleClipboardData, Clean(hist')
  PROVE  Clean(hist)
  BY DEF HandleClipboardData, Clean, Typed, HistTyped, HistFields

LEMMA CleanPaste ==
  ASSUME Typed, NEW t \in Targets, Paste(t), Clean(hist')
  PROVE  Clean(hist)
<1>1. HistTyped(hist)
  BY DEF Typed
<1>2. CASE \E p : hist' = [hist EXCEPT !.pasted = p]
  BY <1>1, <1>2 DEF Clean, HistTyped, HistFields
<1>3. CASE hist' = Write(hist, "request", NoText)
  BY <1>1, <1>3 DEF Write, Clean, HistTyped, HistFields
<1>4. CASE hist' = [hist EXCEPT !.dropped = TRUE]
  BY <1>1, <1>4 DEF Clean, HistTyped, HistFields
<1> QED
  BY <1>2, <1>3, <1>4 DEF Paste

LEMMA CleanClientAnswers ==
  ASSUME Typed, NEW a \in asked, ClientAnswers(a), Clean(hist')
  PROVE  /\ Clean(hist) /\ clipboardEnabled
         /\ \/ /\ a.target = "TARGETS" /\ Offers[a.client] # {} /\ UNCHANGED down
               /\ asked' = (asked \ {a}) \cup UNION {SelectionRequest(owner, t) : t \in PreferredTarget(a.client)}
            \/ /\ a.target \in Targets \ Offers[a.client] /\ UNCHANGED down
               /\ asked' = asked \ {a}
            \/ /\ a.target \in Offers[a.client] /\ a.client = owner
               /\ asked' = asked \ {a}
               /\ \E d \in Copies : /\ d.id = own[a.client] /\ d.bytes # <<>>
                                    /\ down' = down \o Head1("send", d) \o Payload(d)
<1>0. HistTyped(hist) /\ a.client \in Clients
  BY DEF Typed
<1>1. CASE /\ clipboardEnabled /\ a.target = "TARGETS"
           /\ asked' = (asked \ {a}) \cup UNION {SelectionRequest(owner, t) : t \in PreferredTarget(a.client)}
           /\ hist' = [hist EXCEPT !.missed = @ \/ Offers[a.client] = {}]
           /\ UNCHANGED down
  <2>1. Clean(hist) /\ Offers[a.client] # {}
    BY <1>0, <1>1 DEF Clean, HistTyped, HistFields
  <2> QED
    BY <1>1, <2>1
<1>2. CASE /\ clipboardEnabled /\ a.target \in Targets \ Offers[a.client]
           /\ asked' = asked \ {a}
           /\ UNCHANGED <<down, hist>>
  BY <1>2
<1>3. CASE ~clipboardEnabled /\ hist' = [hist EXCEPT !.missed = TRUE]
  BY <1>0, <1>3 DEF Clean, HistTyped, HistFields
<1>4. CASE /\ clipboardEnabled /\ a.target \in Offers[a.client]
           /\ asked' = asked \ {a}
           /\ LET r == ReceivedText(a.client, a.target)
                  marked == [hist EXCEPT !.crossed = @ \/ a.client # owner, !.missed = @ \/ ~alive \/ r \in {<<>>, <<Copy(own[a.client], <<>>)>>}]
              IN  IF alive /\ r # <<>>
                  THEN /\ down' = down \o Head1("send", r[1]) \o Payload(r[1])
                       /\ hist' = Write(marked, "send", r[1])
                  ELSE hist' = marked /\ UNCHANGED down
  <2> DEFINE r == ReceivedText(a.client, a.target)
             x == a.client # owner
             y == ~alive \/ r \in {<<>>, <<Copy(own[a.client], <<>>)>>}
             marked == [hist EXCEPT !.crossed = hist.crossed \/ x, !.missed = hist.missed \/ y]
  <2>1. IF alive /\ r # <<>>
          THEN /\ down' = down \o Head1("send", r[1]) \o Payload(r[1])
               /\ hist' = Write(marked, "send", r[1])
          ELSE hist' = marked /\ UNCHANGED down
    BY <1>4
  <2>2. marked = [hist EXCEPT !.crossed = hist.crossed \/ x, !.missed = hist.missed \/ y]
    OBVIOUS
  <2> HIDE DEF x, y, marked
  <2>3. HistTyped(marked) /\ (Clean(marked) => Clean(hist) /\ ~x /\ ~y)
    BY <1>0, <2>2 DEF Clean, HistTyped, HistFields
  <2>4. ASSUME NEW d, Clean(Write(marked, "send", d)) PROVE Clean(marked)
    BY <2>3, <2>4 DEF Write, Clean, HistTyped, HistFields
  <2>5. Clean(hist) /\ ~x /\ ~y
    BY <2>1, <2>3, <2>4
  <2>6. /\ a.client = owner /\ alive /\ r # <<>>
        /\ r # <<Copy(own[a.client], <<>>)>>
    BY <2>5 DEF x, y
  <2>7. a.target \in Targets
    BY <1>0, <1>4, ClipboardAssumption
  <2>8. PICK d \in Copies : d.id = own[a.client] /\ d = Copy(own[a.client], d.bytes) /\ r = <<d>>
    BY <1>0, <2>6, <2>7, ReceivedEffect
  <2>9. d.bytes # <<>>
    BY <2>6, <2>8, Zenon
  <2>10. down' = down \o Head1("send", d) \o Payload(d)
    BY <2>1, <2>6, <2>8
  <2> HIDE DEF r
  <2> QED
    BY <1>4, <2>5, <2>6, <2>8, <2>9, <2>10, Zenon
<1> QED
  BY <1>1, <1>2, <1>3, <1>4 DEF ClientAnswers

LEMMA CleanClientCopies ==
  ASSUME Typed, NEW c \in Clients, ClientCopies(c), Clean(hist')
  PROVE  clipboardEnabled
<1>1. hist'.missed = ~clipboardEnabled
  BY DEF ClientCopies, CopyMade, Typed, HistTyped, HistFields
<1> QED
  BY <1>1 DEF Clean

-----------------------------------------------------------------------------
(* What the agreement rests on, for every step. *)

LEMMA NextWellFormed == Typed /\ WellFormed /\ [Next]_vars => WellFormed'
<1> SUFFICES ASSUME Typed, WellFormed, [Next]_vars PROVE WellFormed'
  OBVIOUS
<1>1. CASE UNCHANGED down
  BY <1>1 DEF WellFormed
<1>2. CASE down' = <<>>
  BY <1>2 DEF WellFormed
<1>3. ASSUME NEW m \in Nat \ {0}, down' = SubSeq(down, m, Len(down)) PROVE WellFormed'
  BY <1>3, StreamRead
<1>4. ASSUME NEW ev \in {"send", "request"}, NEW d \in Copies,
             down' = down \o Head1(ev, d) \o Payload(d)
      PROVE  WellFormed'
  BY <1>4, StreamWritten
<1>5. 3 \in Nat \ {0}
  OBVIOUS
<1>6. CASE ActivityReadsEvent
  BY <1>3, <1>5, <1>6, ReadEffect DEF TakesText, DropsEmpty, AnswersRequest
<1>7. CASE ActivityReadsGarbage
  BY <1>3, <1>5, <1>7, TypedReadsGarbage
<1>8. ASSUME NEW t \in Targets, Paste(t) PROVE WellFormed'
  <2>1. UNCHANGED down \/ down' = down \o Head1("request", NoText)
    BY <1>8, TypedPaste DEF PasteCached, PasteWaits
  <2> QED
    BY <1>1, <1>4, <2>1, RequestWritten, SpecialCopies
<1>9. ASSUME NEW a \in asked, ClientAnswers(a) PROVE WellFormed'
  BY <1>1, <1>4, <1>9, TypedClientAnswers DEF AnswerSent
<1>10. CASE Disconnect
  BY <1>2, <1>10 DEF Disconnect
<1>11. CASE UserCopies \/ GraceEnds \/ HandleClipboardChange \/ FocusChanged \/ ReloadPreferences
              \/ Connect \/ ServerReads \/ Main \/ UNCHANGED vars
  BY <1>1, <1>11
  DEF UserCopies, GraceEnds, HandleClipboardChange, FocusChanged, ReloadPreferences, Connect,
      ServerReads, Main, HandleClipboardAnnounce, HandleClipboardData, vars
<1>12. CASE \E c \in Clients : ClientCopies(c)
  BY <1>1, <1>12 DEF ClientCopies
<1> QED
  BY <1>6, <1>7, <1>8, <1>9, <1>10, <1>11, <1>12 DEF Next, Activity

LEMMA NextClosedIsEmpty == Typed /\ ClosedIsEmpty /\ [Next]_vars => ClosedIsEmpty'
<1> SUFFICES ASSUME Typed, ClosedIsEmpty, [Next]_vars PROVE ClosedIsEmpty'
  OBVIOUS
<1>1. CASE UNCHANGED <<alive, up, down>>
  BY <1>1 DEF ClosedIsEmpty
<1>2. CASE alive' = TRUE
  BY <1>2 DEF ClosedIsEmpty
<1>3. CASE ~alive' /\ up' = <<>> /\ down' = <<>>
  BY <1>3 DEF ClosedIsEmpty
<1>4. CASE alive /\ UNCHANGED alive
  BY <1>4 DEF ClosedIsEmpty
<1>5. CASE UserCopies \/ GraceEnds \/ Main \/ UNCHANGED vars \/ \E c \in Clients : ClientCopies(c)
  BY <1>1, <1>5
  DEF UserCopies, GraceEnds, Main, HandleClipboardAnnounce, HandleClipboardData, vars, ClientCopies
<1>6. ASSUME NEW m, Send(m), UNCHANGED <<alive, down>> PROVE ClosedIsEmpty'
  BY <1>1, <1>4, <1>6 DEF Send
<1>7. ASSUME NEW v, Announce(clip, v), UNCHANGED <<alive, down>> PROVE ClosedIsEmpty'
  BY <1>1, <1>6, <1>7 DEF Announce
<1>8. CASE HandleClipboardChange
  BY <1>7, <1>8 DEF HandleClipboardChange
<1>9. CASE FocusChanged
  BY <1>1, <1>7, <1>9, FocusEffect
<1>10. CASE ReloadPreferences
  BY <1>6, <1>10 DEF ReloadPreferences
<1>11. CASE Connect
  BY <1>2, <1>11 DEF Connect
<1>12. CASE Disconnect
  BY <1>3, <1>12 DEF Disconnect
<1>13. CASE ActivityReadsEvent
  <2>1. down # <<>> /\ UNCHANGED alive
    BY <1>13, ReadEffect
  <2> QED
    BY <1>4, <2>1 DEF ClosedIsEmpty
<1>14. CASE ActivityReadsGarbage
  BY <1>4, <1>14 DEF ActivityReadsGarbage, ClosedIsEmpty
<1>15. CASE ServerReads
  BY <1>4, <1>15 DEF ServerReads, ClosedIsEmpty
<1>16. ASSUME NEW t \in Targets, Paste(t) PROVE ClosedIsEmpty'
  BY <1>1, <1>4, <1>16 DEF Paste
<1>17. ASSUME NEW a \in asked, ClientAnswers(a) PROVE ClosedIsEmpty'
  BY <1>1, <1>4, <1>17 DEF ClientAnswers
<1> QED
  BY <1>5, <1>8, <1>9, <1>10, <1>11, <1>12, <1>13, <1>14, <1>15, <1>16, <1>17 DEF Next, Activity

LEMMA NextCopiersAsked == Typed /\ CopiersAsked /\ [Next]_vars => CopiersAsked'
<1> SUFFICES ASSUME Typed, CopiersAsked, [Next]_vars PROVE CopiersAsked'
  OBVIOUS
<1>1. CASE UNCHANGED <<own, owner, asked>>
  BY <1>1 DEF CopiersAsked
<1>2. ASSUME NEW c \in Clients, ClientCopies(c) PROVE CopiersAsked'
  <2>1. own' = [own EXCEPT ![c] = hist.copies + 1] /\ hist.copies \in Nat /\ own \in [Clients -> Nat]
    BY <1>2, TypedClientCopies DEF Typed, HistTyped
  <2>2. \A x \in Clients : own[x] > 0 \/ x = c => own'[x] > 0
    BY <2>1
  <2>3. \A a \in asked' : a \in asked \/ a.client = c
    BY <1>2 DEF ClientCopies, SelectionRequest
  <2>4. owner' = c
    BY <1>2 DEF ClientCopies
  <2> QED
    BY <2>2, <2>3, <2>4 DEF CopiersAsked, Typed
<1>3. CASE HandleClipboardAnnounce
  <2>1. owner' = Server /\ UNCHANGED <<own, asked>>
    BY <1>3 DEF HandleClipboardAnnounce
  <2>2. Server \notin Clients
    BY ClipboardAssumption
  <2> QED
    BY <2>1, <2>2 DEF CopiersAsked
<1>4. ASSUME NEW a \in asked, ClientAnswers(a) PROVE CopiersAsked'
  <2>1. UNCHANGED <<own, owner>>
    BY <1>4 DEF ClientAnswers
  <2>2. \A b \in asked' : b \in asked \/ (owner \in Clients /\ b.client = owner)
    BY <1>4 DEF ClientAnswers, SelectionRequest
  <2> QED
    BY <2>1, <2>2 DEF CopiersAsked
<1>5. CASE UserCopies \/ GraceEnds \/ HandleClipboardChange \/ FocusChanged \/ ReloadPreferences
             \/ Connect \/ Disconnect \/ ServerReads \/ HandleClipboardData \/ Activity
             \/ (\E t \in Targets : Paste(t)) \/ UNCHANGED vars
  BY <1>1, <1>5
  DEF UserCopies, GraceEnds, HandleClipboardChange, FocusChanged, ReloadPreferences, Connect,
      Disconnect, ServerReads, HandleClipboardData, Activity, ActivityReadsEvent,
      ActivityReadsGarbage, Paste, vars, xVars
<1> QED
  BY <1>2, <1>3, <1>4, <1>5 DEF Next, Main

LEMMA SameMaker ==
  ASSUME UNCHANGED own, hist'.copies = hist.copies
  PROVE  ClientMade' <=> ClientMade
  BY DEF ClientMade

LEMMA AndroidMade ==
  ASSUME Typed, FreshInv, UserCopies
  PROVE  ~ClientMade'
<1>1. hist'.copies = hist.copies + 1 /\ UNCHANGED own /\ hist.copies \in Nat /\ own \in [Clients -> Nat]
  BY TypedUserCopies DEF UserCopies, xVars, Typed, HistTyped
<1>2. \A c \in Clients : own[c] <= hist.copies
  BY DEF FreshInv, CopiesCounted
<1> QED
  BY <1>1, <1>2 DEF ClientMade

\* A new copy has a number that nothing on its way has.
LEMMA NewNumber ==
  ASSUME Typed, FreshInv
  PROVE  /\ hist.copies \in Nat
         /\ \A n \in Nat : Known(n) => n <= hist.copies
         /\ clip.id <= hist.copies /\ clip.id \in Int
         /\ \A i \in DOMAIN down : SendOf(down[i]) => down[i].data.id <= hist.copies /\ down[i].data.id \in Int
<1>1. hist.copies \in Nat /\ view.seen \in Nat /\ clip.id \in Int
  BY DEF Typed, HistTyped, ViewTyped, Copies
<1>2. \A n \in Nat : Known(n) => n <= view.seen
  BY DEF FreshInv, ClipFresh
<1>3. view.seen <= hist.copies /\ clip.id <= hist.copies /\ DownCounted
  BY DEF FreshInv, CopiesCounted
<1> QED
  BY <1>1, <1>2, <1>3, TokenTyped DEF DownCounted, SendOf

LEMMA NextSendsAreClients ==
  Typed /\ FreshInv /\ WellFormed /\ CopiersAsked /\ SendsAreClients /\ [Next]_vars => SendsAreClients'
<1> SUFFICES ASSUME Typed, FreshInv, WellFormed, CopiersAsked, SendsAreClients, [Next]_vars
             PROVE  SendsAreClients'
  OBVIOUS
<1>1. ASSUME UNCHANGED own, hist'.copies = hist.copies,
             \A i \in DOMAIN down' : SendOf(down'[i]) => \E j \in DOMAIN down : down'[i] = down[j]
      PROVE  SendsAreClients'
  BY <1>1, SameMaker DEF SendsAreClients
<1>2. CASE UserCopies \/ \E c \in Clients : ClientCopies(c)
  <2>1. hist'.copies = hist.copies + 1 /\ UNCHANGED down
    BY <1>2, TypedUserCopies, TypedClientCopies DEF UserCopies
  <2>2. \A i \in DOMAIN down : SendOf(down[i]) => down[i].data.id # hist.copies + 1
    BY NewNumber
  <2> QED
    BY <2>1, <2>2 DEF SendsAreClients
<1>3. CASE Activity
  <2>1. UNCHANGED own /\ hist'.copies = hist.copies
    BY <1>3, ReadEffect, TypedReadsGarbage DEF Activity, ActivityReadsGarbage, xVars, SameAges
  <2>2. 3 \in Nat \ {0}
    OBVIOUS
  <2>3. \E m \in Nat \ {0} : down' = SubSeq(down, m, Len(down))
    BY <1>3, <2>2, ReadEffect, TypedReadsGarbage DEF Activity, TakesText, DropsEmpty, AnswersRequest
  <2>4. \A i \in DOMAIN down' : \E j \in DOMAIN down : down'[i] = down[j]
    BY <2>3, StreamRead
  <2> QED
    BY <1>1, <2>1, <2>4
<1>4. CASE Disconnect
  <2>1. UNCHANGED own /\ hist'.copies = hist.copies /\ down' = <<>>
    BY <1>4, TypedDisconnect DEF Disconnect, SameAges
  <2> QED
    BY <2>1 DEF SendsAreClients
<1>5. ASSUME NEW t \in Targets, Paste(t) PROVE SendsAreClients'
  <2>1. UNCHANGED own /\ hist'.copies = hist.copies
    BY <1>5, TypedPaste
  <2>2. CASE UNCHANGED down
    BY <1>1, <2>1, <2>2
  <2>3. CASE down' = down \o Head1("request", NoText)
    <3>1. \A i \in DOMAIN down' : down'[i].kind = "type" =>
             \/ i \in DOMAIN down /\ down'[i] = down[i]
             \/ down'[i] = [kind |-> "type", ev |-> "request", data |-> NoText]
      BY <2>3, RequestWritten, StreamWritten, SpecialCopies
    <3>2. \A i \in DOMAIN down' : SendOf(down'[i]) => \E j \in DOMAIN down : down'[i] = down[j]
      BY <3>1 DEF SendOf
    <3> QED
      BY <1>1, <2>1, <3>2
  <2> QED
    BY <1>5, <2>2, <2>3, TypedPaste DEF PasteCached, PasteWaits
<1>6. ASSUME NEW a \in asked, ClientAnswers(a) PROVE SendsAreClients'
  <2>1. UNCHANGED own /\ hist'.copies = hist.copies /\ a.client \in Clients
    BY <1>6, TypedClientAnswers DEF SameAges
  <2>2. CASE UNCHANGED down
    BY <1>1, <2>1, <2>2
  <2>3. CASE AnswerSent(a.client)
    <3>1. PICK d \in Copies : d.id = own[a.client] /\ down' = down \o Head1("send", d) \o Payload(d)
      BY <2>3 DEF AnswerSent
    <3>2. \A i \in DOMAIN down' : down'[i].kind = "type" =>
             \/ i \in DOMAIN down /\ down'[i] = down[i]
             \/ down'[i] = [kind |-> "type", ev |-> "send", data |-> d]
      BY <3>1, StreamWritten
    <3>3. d.id > 0 /\ (~ClientMade => d.id # hist.copies)
      BY <2>1, <3>1 DEF CopiersAsked, ClientMade
    <3>4. \A i \in DOMAIN down : SendOf(down[i]) =>
             down[i].data.id > 0 /\ (~ClientMade => down[i].data.id # hist.copies)
      BY DEF SendsAreClients
    <3>5. ASSUME NEW i \in DOMAIN down', SendOf(down'[i])
          PROVE  down'[i].data.id > 0 /\ (~ClientMade => down'[i].data.id # hist.copies)
      <4>1. CASE i \in DOMAIN down /\ down'[i] = down[i]
        BY <3>4, <3>5, <4>1, Zenon
      <4>2. CASE down'[i] = [kind |-> "type", ev |-> "send", data |-> d]
        <5>1. down'[i].data = d
          BY <4>2
        <5> QED
          BY <3>3, <5>1, Zenon
      <4> QED
        BY <3>2, <3>5, <4>1, <4>2 DEF SendOf
    <3> QED
      BY <2>1, <3>5, SameMaker DEF SendsAreClients
  <2> QED
    BY <1>6, <2>2, <2>3, TypedClientAnswers
<1>7. CASE UNCHANGED <<own, down>> /\ hist'.copies = hist.copies
  BY <1>1, <1>7
<1>8. CASE GraceEnds \/ ReloadPreferences \/ Connect \/ ServerReads \/ Main \/ UNCHANGED vars
  BY <1>7, <1>8, TypedHandleAnnounce, TypedHandleData, TypedConnect
  DEF GraceEnds, ReloadPreferences, Connect, ServerReads, Main, vars, xVars, SameAges
<1>9. CASE HandleClipboardChange
  <2>1. ViewTyped(view) /\ Announce(clip, view) /\ UNCHANGED <<own, down>>
    BY <1>9 DEF Typed, HandleClipboardChange, xVars
  <2> QED
    BY <1>7, <2>1, AnnounceEffect DEF SameAges
<1>10. CASE FocusChanged
  <2>1. ViewTyped(FocusedView) /\ UNCHANGED <<own, down>>
    BY <1>10, FocusEffect, FocusTyped DEF xVars
  <2>2. hist'.copies = hist.copies
    BY <1>10, <2>1, FocusEffect, AnnounceEffect DEF SameAges
  <2> QED
    BY <1>7, <2>1, <2>2
<1> QED
  BY <1>2, <1>3, <1>4, <1>5, <1>6, <1>8, <1>9, <1>10 DEF Next

\* Messages on their way come from the queues as they were, or are new.
LEMMA AppendAnnounces ==
  ASSUME NEW q \in Seq(Ups), NEW m \in Ups, NEW r, r = Append(q, m), NEW n
  PROVE  Announces(r, n) <=> Announces(q, n) \/ (m.kind = "announce" /\ m.id = n)
<1>1. /\ DOMAIN q = 1..Len(q) /\ Len(q) \in Nat /\ DOMAIN r = 1..(Len(q) + 1)
      /\ \A i \in 1..Len(q) : r[i] = q[i]
      /\ r[Len(q) + 1] = m
  BY AppendProperties, LenProperties
<1> QED
  BY <1>1 DEF Announces

LEMMA TailAnnounces ==
  ASSUME NEW q \in Seq(Ups), q # <<>>, NEW r, r = Tail(q), NEW n
  PROVE  Announces(q, n) <=> Announces(r, n) \/ (Head(q).kind = "announce" /\ Head(q).id = n)
<1>1. /\ Len(q) \in Nat /\ DOMAIN q = 1..Len(q) /\ Head(q) = q[1] /\ 1 \in DOMAIN q
      /\ DOMAIN r = 1..(Len(q) - 1)
      /\ \A i \in DOMAIN r : i + 1 \in DOMAIN q /\ r[i] = q[i + 1]
      /\ \A i \in DOMAIN q \ {1} : i - 1 \in DOMAIN r /\ r[i - 1] = q[i]
  BY TailOf
<1>2. ASSUME Announces(q, n)
      PROVE  Announces(r, n) \/ (Head(q).kind = "announce" /\ Head(q).id = n)
  <2>1. PICK i \in DOMAIN q : q[i].kind = "announce" /\ q[i].id = n
    BY <1>2 DEF Announces
  <2>2. CASE i = 1
    BY <1>1, <2>1, <2>2
  <2>3. CASE i # 1
    BY <1>1, <2>1, <2>3 DEF Announces
  <2> QED
    BY <2>2, <2>3
<1>3. ASSUME Announces(r, n) PROVE Announces(q, n)
  BY <1>1, <1>3 DEF Announces
<1>4. ASSUME Head(q).kind = "announce" /\ Head(q).id = n PROVE Announces(q, n)
  BY <1>1, <1>4 DEF Announces
<1> QED
  BY <1>2, <1>3, <1>4

LEMMA NextNotAnnounced == Typed /\ FreshInv /\ NotAnnounced /\ [Next]_vars => NotAnnounced'
<1> SUFFICES ASSUME Typed, FreshInv, NotAnnounced, [Next]_vars PROVE NotAnnounced'
  OBVIOUS
<1>0. /\ up \in Seq(Ups) /\ work \in Seq(Ups) /\ clip.id \in Int /\ hist.copies \in Nat
      /\ view.seen \in Nat /\ \A n : ~Announces(<<>>, n)
  BY DEF Typed, Copies, HistTyped, ViewTyped, Announces
<1>1. ASSUME UNCHANGED own, hist'.copies = hist.copies,
             Announces(up', hist.copies) => Announces(up, hist.copies) \/ Announces(work, hist.copies),
             Announces(work', hist.copies) => Announces(up, hist.copies) \/ Announces(work, hist.copies),
             \/ UNCHANGED clip /\ view'.seen = view.seen
             \/ view'.seen = hist.copies
      PROVE  NotAnnounced'
  BY <1>1, SameMaker DEF NotAnnounced
<1>2. CASE UserCopies
  BY <1>2, AndroidMade DEF NotAnnounced
<1>3. ASSUME NEW c \in Clients, ClientCopies(c) PROVE NotAnnounced'
  <2>1. hist'.copies = hist.copies + 1 /\ UNCHANGED <<up, work, clip>>
    BY <1>3, TypedClientCopies
  <2>2. \A n \in Nat : Known(n) => n <= hist.copies
    BY NewNumber
  <2>3. ~Announces(up, hist.copies + 1) /\ ~Announces(work, hist.copies + 1)
    <3>1. ~Known(hist.copies + 1)
      BY <1>0, <2>2
    <3> QED
      BY <3>1 DEF Known
  <2>4. clip.id # hist.copies + 1
    BY <1>0, NewNumber
  <2> QED
    BY <2>1, <2>3, <2>4 DEF NotAnnounced
<1>4. ASSUME NEW v, ViewTyped(v), v.seen = view.seen, Announce(clip, v), UNCHANGED <<clip, xVars>>
      PROVE  NotAnnounced'
  <2>1. UNCHANGED <<own, work>> /\ hist'.copies = hist.copies
    BY <1>4, AnnounceEffect DEF xVars, SameAges
  <2>2. CASE up' = up /\ view'.seen = view.seen
    BY <1>1, <1>4, <2>1, <2>2
  <2>3. CASE /\ up' \in {up, Append(up, Announcement)} /\ Announcement \in Ups
             /\ view.seen < clip.id /\ view'.seen = clip.id
    <3>1. SUFFICES ASSUME ClientMade
                   PROVE  /\ ~Announces(up', hist.copies) /\ ~Announces(work, hist.copies)
                          /\ clip.id = hist.copies => view'.seen = hist.copies
      BY <1>4, <2>1, SameMaker DEF NotAnnounced
    <3>2. ~Announces(up, hist.copies) /\ ~Announces(work, hist.copies) /\ clip.id # hist.copies
      BY <1>0, <2>3, <3>1 DEF NotAnnounced
    <3>3. ~Announces(up', hist.copies)
      <4>1. CASE up' = up
        BY <3>2, <4>1
      <4>2. CASE up' = Append(up, Announcement)
        <5>1. Announcement.id # hist.copies
          BY <3>2 DEF Announcement
        <5> QED
          BY <1>0, <2>3, <3>2, <4>2, <5>1, AppendAnnounces
      <4> QED
        BY <2>3, <4>1, <4>2
    <3> QED
      BY <3>2, <3>3
  <2> QED
    BY <1>4, <2>2, <2>3, AnnounceEffect
<1>5. CASE HandleClipboardChange
  <2>1. ViewTyped(view) /\ Announce(clip, view) /\ UNCHANGED <<clip, xVars>>
    BY <1>5 DEF Typed, HandleClipboardChange
  <2> QED
    BY <1>4, <2>1
<1>6. CASE FocusChanged
  <2>1. ViewTyped(FocusedView) /\ FocusedView.seen = view.seen /\ UNCHANGED <<clip, xVars>>
    BY <1>6, FocusEffect, FocusTyped
  <2>2. CASE Announce(clip, FocusedView)
    BY <1>4, <2>1, <2>2
  <2>3. CASE view' = FocusedView /\ UNCHANGED <<up, hist>>
    BY <1>1, <2>1, <2>3 DEF xVars
  <2> QED
    BY <1>6, <2>2, <2>3, FocusEffect
<1>7. CASE ReloadPreferences
  <2>1. UNCHANGED <<own, work, clip, hist>> /\ view'.seen = view.seen
    BY <1>7, TypedReloadPreferences DEF ReloadPreferences, xVars
  <2>2. PICK on \in BOOLEAN : up' \in {up, Append(up, [kind |-> "enable", on |-> on])}
    BY <1>7, TypedReloadPreferences
  <2>3. PICK m \in Ups : m = [kind |-> "enable", on |-> on]
    BY DEF Ups
  <2>4. m.kind # "announce"
    BY <2>3
  <2>5. Announces(up', hist.copies) => Announces(up, hist.copies)
    <3>1. CASE up' = up
      BY <3>1
    <3>2. CASE up' = Append(up, m)
      BY <1>0, <2>4, <3>2, AppendAnnounces
    <3> QED
      BY <2>2, <2>3, <3>1, <3>2
  <2> QED
    BY <1>1, <2>1, <2>5
<1>8. CASE Connect \/ Disconnect
  <2>1. UNCHANGED <<own, work, clip, view>> /\ hist'.copies = hist.copies
    BY <1>8, TypedConnect, TypedDisconnect DEF Connect, Disconnect, xVars, androidVars, SameAges
  <2>2. \A i \in DOMAIN up' : up'[i].kind = "enable"
    <3>1. \/ up' = <<>>
          \/ \E on \in BOOLEAN : up' = <<[kind |-> "enable", on |-> on]>>
      BY <1>8, TypedConnect DEF Disconnect
    <3> QED
      BY <3>1
  <2>3. ~Announces(up', hist.copies)
    BY <2>2 DEF Announces
  <2> QED
    BY <1>1, <2>1, <2>3
<1>9. CASE ActivityReadsEvent
  <2>1. UNCHANGED <<own, work>> /\ hist'.copies = hist.copies
    BY <1>9, ReadEffect DEF xVars, SameAges
  <2>2. CASE \E rest \in Nat \ {0} : TakesText(down[1].data, rest)
    <3>1. UNCHANGED up /\ view'.seen = hist.copies
      BY <2>2 DEF TakesText, SetClipboardText, Typed, ViewTyped
    <3> QED
      BY <1>1, <2>1, <3>1
  <2>3. CASE DropsEmpty
    BY <1>1, <2>1, <2>3 DEF DropsEmpty
  <2>4. CASE AnswersRequest
    <3>1. ASSUME NEW d \in {NoText, clip}, up' = Append(up, [kind |-> "send", data |-> d])
          PROVE  Announces(up', hist.copies) => Announces(up, hist.copies)
      <4>1. PICK m \in Ups : m = [kind |-> "send", data |-> d]
        BY SpecialCopies DEF Ups, Typed
      <4>2. m.kind # "announce"
        BY <4>1
      <4>3. up' = Append(up, m)
        BY <3>1, <4>1, Zenon
      <4> QED
        BY <1>0, <4>2, <4>3, AppendAnnounces
    <3>2. Announces(up', hist.copies) => Announces(up, hist.copies)
      BY <2>4, <3>1 DEF AnswersRequest
    <3> QED
      BY <1>1, <2>1, <2>4, <3>2 DEF AnswersRequest
  <2> QED
    BY <1>9, <2>2, <2>3, <2>4, ReadEffect
<1>10. CASE ServerReads
  <2>1. UNCHANGED <<own, clip, view, hist>>
    BY <1>10 DEF ServerReads, androidVars
  <2>2. /\ up # <<>> /\ up' = Tail(up) /\ Head(up) \in Ups
        /\ work' = work \/ work' = Append(work, Head(up))
    BY <1>10, TypedServerReads
  <2>3. /\ Announces(up', hist.copies) => Announces(up, hist.copies)
        /\ Head(up).kind = "announce" /\ Head(up).id = hist.copies => Announces(up, hist.copies)
    BY <1>0, <2>2, TailAnnounces
  <2>4. Announces(work', hist.copies) => Announces(up, hist.copies) \/ Announces(work, hist.copies)
    BY <1>0, <2>2, <2>3, AppendAnnounces
  <2> QED
    BY <1>1, <2>1, <2>3, <2>4
<1>11. CASE Main
  <2>1. /\ UNCHANGED <<own, clip, view, up>> /\ hist'.copies = hist.copies
        /\ work # <<>> /\ work' = Tail(work)
    BY <1>11, TypedHandleAnnounce, TypedHandleData DEF Main
  <2>2. Announces(work', hist.copies) => Announces(work, hist.copies)
    BY <1>0, <2>1, TailAnnounces
  <2> QED
    BY <1>1, <2>1, <2>2
<1>12. CASE UNCHANGED <<own, clip, up, work>> /\ view'.seen = view.seen /\ hist'.copies = hist.copies
  BY <1>1, <1>12
<1>13. CASE GraceEnds \/ ActivityReadsGarbage \/ UNCHANGED vars
  BY <1>12, <1>13, TypedReadsGarbage
  DEF GraceEnds, ActivityReadsGarbage, vars, xVars, Typed, ViewTyped, SameAges
<1>14. ASSUME NEW t \in Targets, Paste(t) PROVE NotAnnounced'
  BY <1>12, <1>14, TypedPaste
<1>15. ASSUME NEW a \in asked, ClientAnswers(a) PROVE NotAnnounced'
  BY <1>12, <1>15, TypedClientAnswers DEF SameAges
<1> QED
  BY <1>2, <1>3, <1>5, <1>6, <1>7, <1>8, <1>9, <1>10, <1>11, <1>13, <1>14, <1>15 DEF Next, Activity

-----------------------------------------------------------------------------
(* The latest copy is a client's: it is asked for, then sent, then held by *)
(* Android.                                                                *)

LEMMA ClientStays ==
  ASSUME FromClient, UNCHANGED <<owner, own, asked>>, hist'.copies = hist.copies,
         clip'.id = clip.id,
         \A i \in DOMAIN down : Carries(down[i]) => \E j \in DOMAIN down' : down'[j] = down[i]
  PROVE  FromClient'
<1>1. ASSUME NEW i \in DOMAIN down, Carries(down[i])
      PROVE  \E j \in DOMAIN down' : Carries(down[j])'
  BY <1>1 DEF Carries, SendOf
<1> QED
  BY <1>1 DEF FromClient, AskedForIt

LEMMA ClientReadsEvent ==
  ASSUME Typed, FreshInv, WellFormed, FromClient, ActivityReadsEvent, Clean(hist')
  PROVE  FromClient'
<1>1. UNCHANGED <<owner, own, asked>> /\ hist'.copies = hist.copies
  BY ReadEffect DEF xVars, SameAges
<1>2. /\ down # <<>> /\ down[1].kind = "type" /\ down \in Seq(Tokens) /\ 1 \in DOMAIN down
      /\ DOMAIN down = 1..Len(down) /\ Len(down) \in Nat
  BY CleanReadsEvent DEF Typed
<1>3. 2 \in DOMAIN down /\ down[2].kind = "rest"
  <2>1. 1 + 1 \in DOMAIN down /\ down[1 + 1].kind = "rest"
    BY <1>2 DEF WellFormed
  <2> QED
    BY <2>1
<1>4. CASE /\ down[1].ev = "send" /\ down[1].data.bytes # <<>>
           /\ TakesText(down[1].data, 5) /\ down[1].data.id >= clip.id
           /\ 4 \in DOMAIN down => ~SendOf(down[4])
  <2>1. 3 \in DOMAIN down /\ down[3].kind = "text"
    <3>1. 1 + 2 \in DOMAIN down /\ down[1 + 2].kind = "text"
      BY <1>2, <1>4 DEF WellFormed, SendOf
    <3> QED
      BY <3>1
  <2>2. clip'.id = down[1].data.id
    <3>1. down[1].data \in Copies
      BY <1>2, FirstToken
    <3> QED
      BY <1>4, <3>1 DEF TakesText, SetClipboardText, Copies
  <2>3. CASE down[1].data.id = hist.copies
    BY <1>1, <2>2, <2>3 DEF FromClient
  <2>4. CASE down[1].data.id # hist.copies
    <3>1. down[1].data.id <= hist.copies /\ down[1].data.id \in Int /\ clip.id <= hist.copies
      BY <1>2, <1>4, NewNumber DEF SendOf
    <3>2. clip.id # hist.copies
      BY <1>4, <2>4, <3>1, NewNumber
    <3>3. CASE \E a \in asked : AskedForIt(a)
      BY <1>1, <3>3 DEF FromClient, AskedForIt
    <3>4. ASSUME NEW i \in DOMAIN down, Carries(down[i]) PROVE FromClient'
      <4>1. i # 1 /\ i # 2 /\ i # 3 /\ i # 4
        BY <1>3, <1>4, <2>1, <2>4, <3>4 DEF Carries, SendOf
      <4>2. i >= 5
        BY <1>2, <4>1
      <4>3. 5 \in Nat \ {0} /\ down' = SubSeq(down, 5, Len(down))
        BY <1>4 DEF TakesText
      <4>4. PICK j \in DOMAIN down' : down'[j] = down[i]
        BY <4>2, <4>3, StreamRead
      <4> QED
        BY <1>1, <3>4, <4>4 DEF FromClient, Carries, SendOf
    <3> QED
      BY <3>2, <3>3, <3>4 DEF FromClient
  <2> QED
    BY <2>3, <2>4
<1>5. ASSUME ~(SendOf(down[1]) /\ down[1].data.bytes # <<>>), UNCHANGED clip,
             down' = SubSeq(down, 3, Len(down))
      PROVE  FromClient'
  <2>1. 3 \in Nat \ {0}
    OBVIOUS
  <2>2. ASSUME NEW i \in DOMAIN down, Carries(down[i])
        PROVE  \E j \in DOMAIN down' : down'[j] = down[i]
    <3>1. i # 1 /\ i # 2
      BY <1>3, <1>5, <2>2 DEF Carries, SendOf
    <3>2. i >= 3
      BY <1>2, <3>1
    <3> QED
      BY <1>5, <2>1, <3>2, StreamRead
  <2> QED
    BY <1>1, <1>5, <2>2, ClientStays
<1> QED
  BY <1>4, <1>5, CleanReadsEvent DEF DropsEmpty

LEMMA ClientReadsGarbage ==
  ASSUME Typed, WellFormed, FromClient, ActivityReadsGarbage, Clean(hist')
  PROVE  FromClient'
<1>1. UNCHANGED <<owner, own, asked, clip>> /\ hist'.copies = hist.copies
  BY TypedReadsGarbage DEF ActivityReadsGarbage, xVars, SameAges
<1>2. down \in Seq(Tokens) /\ DOMAIN down = 1..Len(down) /\ Len(down) \in Nat
  BY DEF Typed
<1>3. 3 \in Nat \ {0}
  OBVIOUS
<1>4. ASSUME NEW i \in DOMAIN down, Carries(down[i])
      PROVE  \E j \in DOMAIN down' : down'[j] = down[i]
  <2>1. down[i].kind = "type"
    BY <1>4 DEF Carries, SendOf
  <2>2. i + 1 \in DOMAIN down
    BY <1>4, <2>1 DEF WellFormed
  <2>3. i # 1
    <3> SUFFICES ASSUME i = 1 PROVE FALSE
      OBVIOUS
    <3>1. Len(down) >= 2
      BY <1>2, <2>2
    <3>2. Len(down) = 1 \/ down[1].kind # "type"
      BY TypedReadsGarbage
    <3>3. Len(down) # 1
      BY <1>2, <3>1
    <3> QED
      BY <2>1, <3>2, <3>3
  <2>4. i # 2
    BY <1>4, CleanReadsGarbage DEF Carries
  <2>5. i >= 3
    BY <1>2, <2>3, <2>4
  <2>6. down' = SubSeq(down, 3, Len(down))
    BY TypedReadsGarbage
  <2> QED
    BY <1>3, <2>5, <2>6, StreamRead
<1> QED
  BY <1>1, <1>4, ClientStays

LEMMA ClientClientAnswers ==
  ASSUME Typed, WellFormed, FromClient, NEW a \in asked, ClientAnswers(a), Clean(hist')
  PROVE  FromClient'
<1>1. UNCHANGED <<owner, own, clip>> /\ hist'.copies = hist.copies
  BY TypedClientAnswers DEF ClientAnswers, androidVars, SameAges
<1>2. \A i \in DOMAIN down : \E j \in DOMAIN down' : down'[j] = down[i]
  <2>1. CASE UNCHANGED down
    BY <2>1
  <2>2. ASSUME NEW d \in Copies, down' = down \o Head1("send", d) \o Payload(d)
        PROVE  \A i \in DOMAIN down : i \in DOMAIN down' /\ down'[i] = down[i]
    BY <2>2, StreamWritten
  <2> QED
    BY <2>1, <2>2, CleanClientAnswers
<1>3. CASE clip.id = hist.copies
  BY <1>1, <1>3 DEF FromClient
<1>4. ASSUME NEW i \in DOMAIN down, Carries(down[i]) PROVE FromClient'
  <2>1. PICK j \in DOMAIN down' : down'[j] = down[i]
    BY <1>2
  <2> QED
    BY <1>1, <1>4, <2>1 DEF FromClient, Carries, SendOf
<1>5. ASSUME NEW b \in asked, AskedForIt(b), b \in asked' PROVE FromClient'
  BY <1>1, <1>5 DEF FromClient, AskedForIt
<1>6. ASSUME NEW b \in asked, AskedForIt(b), b \notin asked' PROVE FromClient'
  <2>1. b = a
    BY <1>6, CleanClientAnswers
  <2>2. /\ a.client = owner /\ a.target \in {"TARGETS"} \cup Offers[owner]
        /\ owner \in Clients /\ own[owner] = hist.copies
    BY <1>6, <2>1 DEF AskedForIt, FromClient
  <2>3. Offers[owner] \subseteq Targets /\ "TARGETS" \notin Targets
    BY <2>2, ClipboardAssumption DEF Targets
  <2>4. CASE /\ a.target = "TARGETS" /\ Offers[a.client] # {}
             /\ asked' = (asked \ {a}) \cup UNION {SelectionRequest(owner, t) : t \in PreferredTarget(a.client)}
    <3>1. PICK t \in Offers[owner] : t \in PreferredTarget(owner)
      BY <2>2, <2>4 DEF PreferredTarget
    <3>2. clipboardEnabled
      BY CleanClientAnswers
    <3>3. PICK r : r = [client |-> owner, target |-> t]
      OBVIOUS
    <3>4. r \in SelectionRequest(owner, t)
      BY <2>2, <3>2, <3>3 DEF SelectionRequest
    <3>5. r \in asked'
      BY <2>2, <2>4, <3>1, <3>4
    <3>6. r.client = owner /\ r.target \in Offers[owner]
      BY <3>1, <3>3
    <3> QED
      BY <1>1, <2>2, <3>5, <3>6 DEF FromClient, AskedForIt
  <2>5. CASE \E d \in Copies : /\ d.id = own[a.client] /\ d.bytes # <<>>
                               /\ down' = down \o Head1("send", d) \o Payload(d)
    <3>1. PICK d \in Copies : /\ d.id = own[a.client] /\ d.bytes # <<>>
                              /\ down' = down \o Head1("send", d) \o Payload(d)
      BY <2>5
    <3>2. PICK i \in DOMAIN down' : down'[i] = [kind |-> "type", ev |-> "send", data |-> d]
      BY <3>1, StreamWritten
    <3>3. down'[i].kind = "type" /\ down'[i].ev = "send" /\ down'[i].data = d
      BY <3>2
    <3>4. d.id = hist.copies
      BY <2>2, <3>1
    <3> QED
      BY <1>1, <2>2, <3>1, <3>3, <3>4 DEF FromClient, Carries, SendOf
  <2> QED
    BY <2>2, <2>3, <2>4, <2>5, CleanClientAnswers
<1> QED
  BY <1>3, <1>4, <1>5, <1>6 DEF FromClient

\* An announcement handled now would be an older one.
LEMMA ClientHandleAnnounce ==
  ASSUME Typed, FreshInv, NotAnnounced, ClientMade, FromClient, HandleClipboardAnnounce
  PROVE  ~Clean(hist')
<1>1. /\ work # <<>> /\ Head(work).kind = "announce" /\ work \in Seq(Ups)
  BY TypedHandleAnnounce DEF Typed
<1>2. Head(work) = work[1] /\ 1 \in DOMAIN work /\ work[1] \in Ups
  BY <1>1, TailOf
<1>3. PICK n \in Nat : n = Head(work).id
  BY <1>1, <1>2 DEF Ups
<1>4. Announces(work, n)
  BY <1>1, <1>2, <1>3 DEF Announces
<1>5. n <= hist.copies /\ hist.copies \in Nat
  BY <1>4, NewNumber DEF Known
<1>6. n # hist.copies
  BY <1>4 DEF NotAnnounced
<1>7. owner \in Clients /\ own[owner] = hist.copies
  BY DEF FromClient
<1>8. own[owner] > Head(work).id
  BY <1>3, <1>5, <1>6, <1>7
<1> QED
  BY <1>7, <1>8, CleanHandleAnnounce

LEMMA ClientClientCopies ==
  ASSUME Typed, NEW c \in Clients, ClientCopies(c), Clean(hist')
  PROVE  ClientMade' /\ FromClient'
<1>1. /\ own' = [own EXCEPT ![c] = hist.copies + 1] /\ hist'.copies = hist.copies + 1
      /\ hist.copies \in Nat /\ own \in [Clients -> Nat]
  BY TypedClientCopies DEF Typed, HistTyped
<1>2. owner' = c /\ asked' = asked \cup SelectionRequest(c, "TARGETS")
  BY DEF ClientCopies
<1>3. PICK r : r = [client |-> c, target |-> "TARGETS"]
  OBVIOUS
<1>4. r \in asked'
  BY <1>2, <1>3, CleanClientCopies DEF SelectionRequest
<1>5. r.client = owner' /\ r.target = "TARGETS"
  BY <1>2, <1>3
<1>6. own'[c] = hist'.copies /\ hist'.copies > 0
  BY <1>1
<1> QED
  BY <1>2, <1>4, <1>5, <1>6 DEF ClientMade, FromClient, AskedForIt

-----------------------------------------------------------------------------
(* The latest copy is Android's: it is announced, then fetched on demand.  *)

LEMMA AndroidStays ==
  ASSUME FromAndroid, UNCHANGED <<clip, up, work, owner, cachedData>>,
         view'.seen = view.seen, hist'.copies = hist.copies, hist'.announced = hist.announced
  PROVE  FromAndroid'
<1>1. WorkLatest(hist.copies)' /\ UpLatest(hist.copies)' /\ HeldLatest(hist.copies)'
  BY DEF FromAndroid, WorkLatest, UpLatest, HeldLatest, Latest, AnnouncesBefore, Announces
<1> QED
  BY <1>1 DEF FromAndroid, WorkLatest, UpLatest, HeldLatest, Announces

\* A message is appended to those for the server.
LEMMA AndroidAppends ==
  ASSUME Typed, FromAndroid, NEW m \in Ups, up' = Append(up, m),
         UNCHANGED <<clip, work, owner, cachedData>>,
         view'.seen = view.seen \/ (m.kind = "announce" /\ m.id = hist.copies),
         hist'.copies = hist.copies, hist'.announced = hist.announced,
         \/ Latest(m)
         \/ /\ hist.announced # hist.copies
            /\ ~Announces(work, hist.copies) /\ ~Announces(up, hist.copies)
  PROVE  FromAndroid'
<1>0. PICK n : n = hist.copies
  OBVIOUS
<1>1. up \in Seq(Ups)
  BY DEF Typed
<1>2. /\ DOMAIN up = 1..Len(up) /\ DOMAIN up' = 1..(Len(up) + 1) /\ Len(up) \in Nat
      /\ \A i \in 1..Len(up) : up'[i] = up[i]
      /\ up'[Len(up) + 1] = m
  BY <1>1, AppendProperties, LenProperties
<1>3. WorkLatest(n)' /\ HeldLatest(n)'
  BY <1>0 DEF FromAndroid, WorkLatest, HeldLatest, Latest, AnnouncesBefore
<1>4. ASSUME NEW k \in DOMAIN up',
             hist.announced = n \/ Announces(work, n) \/ AnnouncesBefore(up', k, n)
      PROVE  Latest(up'[k])
  <2>1. AnnouncesBefore(up', k, n) => AnnouncesBefore(up, k, n)
    BY <1>2 DEF AnnouncesBefore
  <2>2. CASE k \in DOMAIN up
    BY <1>0, <1>2, <1>4, <2>1, <2>2 DEF FromAndroid, UpLatest
  <2>3. CASE k = Len(up) + 1
    <3>1. hist.announced = n \/ Announces(work, n) \/ Announces(up, n)
      BY <1>4, <2>1 DEF AnnouncesBefore, Announces
    <3> QED
      BY <1>0, <1>2, <2>3, <3>1
  <2> QED
    BY <1>2, <2>2, <2>3
<1>5. UpLatest(n)'
  BY <1>4 DEF UpLatest, Latest, AnnouncesBefore, Announces
<1>6. Announces(up', n) <=> Announces(up, n) \/ (m.kind = "announce" /\ m.id = n)
  BY <1>1, AppendAnnounces
<1>7. clip'.id = hist'.copies
  BY DEF FromAndroid
<1>8. \/ view'.seen < n \/ hist'.announced = n
      \/ Announces(work', n) \/ Announces(up', n)
  BY <1>0, <1>6 DEF FromAndroid
<1> QED
  BY <1>0, <1>3, <1>5, <1>7, <1>8 DEF FromAndroid, WorkLatest, UpLatest, HeldLatest

LEMMA AndroidUserCopies ==
  ASSUME Typed, FreshInv, UserCopies, Clean(hist')
  PROVE  FromAndroid'
<1>0. PICK n \in Nat : n = hist.copies + 1
  <2>1. hist.copies \in Nat
    BY DEF Typed, HistTyped
  <2> QED
    BY <2>1
<1>1. /\ clip'.id = n /\ hist'.copies = n /\ view' = view /\ hist'.announced = hist.announced
      /\ UNCHANGED <<up, work>>
  BY <1>0, TypedUserCopies, CleanUserCopies DEF UserCopies, xVars
<1>2. ~Known(n)
  BY <1>0, NewNumber
<1>3. hist.announced # n /\ ~Announces(work, n) /\ ~Announces(up, n)
  BY <1>2 DEF Known, Needed
<1>4. view.seen < n
  BY <1>0 DEF FreshInv, CopiesCounted, Typed, ViewTyped, HistTyped
<1>5. \A k : ~AnnouncesBefore(work, k, n) /\ ~AnnouncesBefore(up, k, n)
  BY <1>3 DEF Announces, AnnouncesBefore
<1>6. WorkLatest(n)' /\ UpLatest(n)' /\ HeldLatest(n)'
  BY <1>1, <1>3, <1>5 DEF WorkLatest, UpLatest, HeldLatest, AnnouncesBefore, Announces
<1> QED
  BY <1>1, <1>4, <1>6 DEF FromAndroid, WorkLatest, UpLatest, HeldLatest

\* A connection begins or ends with no announcement on its way.
LEMMA AndroidReset ==
  ASSUME FromAndroid, ~Announces(up, hist.copies), \A i \in DOMAIN up' : up'[i].kind = "enable",
         UNCHANGED <<clip, work, owner, cachedData>>,
         view'.seen = view.seen, hist'.copies = hist.copies, hist'.announced = hist.announced
  PROVE  FromAndroid'
<1>0. PICK n : n = hist.copies
  OBVIOUS
<1>1. WorkLatest(n)' /\ HeldLatest(n)'
  BY <1>0 DEF FromAndroid, WorkLatest, HeldLatest, Latest, AnnouncesBefore
<1>2. UpLatest(n)'
  BY DEF UpLatest, Latest
<1>3. view'.seen < n \/ hist'.announced = n \/ Announces(work', n)
  BY <1>0 DEF FromAndroid
<1>4. clip'.id = n
  BY <1>0 DEF FromAndroid
<1> QED
  BY <1>0, <1>1, <1>2, <1>3, <1>4 DEF FromAndroid, WorkLatest, UpLatest, HeldLatest

LEMMA AndroidServerReads ==
  ASSUME Typed, FromAndroid, ServerReads
  PROVE  FromAndroid'
<1>0. PICK n : n = hist.copies
  OBVIOUS
<1>1. PICK m \in Ups :
         /\ m = Head(up) /\ up # <<>> /\ up' = Tail(up)
         /\ (work' = work /\ m.kind = "enable") \/ work' = Append(work, m)
  BY TypedServerReads
<1>2. up \in Seq(Ups) /\ work \in Seq(Ups) /\ UNCHANGED <<clip, view, owner, cachedData, hist>>
  BY DEF ServerReads, androidVars, Typed
<1>3. /\ Len(up) \in Nat /\ DOMAIN up = 1..Len(up) /\ m = up[1] /\ 1 \in DOMAIN up
      /\ DOMAIN up' = 1..(Len(up) - 1)
      /\ \A i \in DOMAIN up' : i + 1 \in DOMAIN up /\ up'[i] = up[i + 1]
  BY <1>1, <1>2, TailOf
<1>4. Announces(up, n) <=> Announces(up', n) \/ (m.kind = "announce" /\ m.id = n)
  BY <1>1, <1>2, TailAnnounces
<1>5. Announces(work', n) <=> Announces(work, n) \/ (m.kind = "announce" /\ m.id = n)
  BY <1>1, <1>2, AppendAnnounces
<1>6. WorkLatest(n)'
  <2>1. ASSUME NEW k \in DOMAIN work', hist.announced = n \/ AnnouncesBefore(work', k, n)
        PROVE  Latest(work'[k])
    <3>1. DOMAIN work = 1..Len(work) /\ Len(work) \in Nat
      BY <1>2, LenProperties
    <3>2. CASE work' = work
      BY <1>0, <2>1, <3>2 DEF FromAndroid, WorkLatest
    <3>3. CASE work' = Append(work, m)
      <4>1. /\ DOMAIN work' = 1..(Len(work) + 1) /\ work'[Len(work) + 1] = m
            /\ \A i \in 1..Len(work) : work'[i] = work[i]
        BY <1>2, <3>3, AppendProperties, LenProperties
      <4>2. AnnouncesBefore(work', k, n) => AnnouncesBefore(work, k, n)
        BY <3>1, <4>1 DEF AnnouncesBefore
      <4>3. CASE k \in DOMAIN work
        BY <1>0, <2>1, <3>1, <4>1, <4>2, <4>3 DEF FromAndroid, WorkLatest
      <4>4. CASE k = Len(work) + 1
        <5>1. hist.announced = n \/ Announces(work, n)
          BY <2>1, <4>2 DEF AnnouncesBefore, Announces
        <5>2. Latest(up[1])
          BY <1>0, <1>3, <5>1 DEF FromAndroid, UpLatest
        <5> QED
          BY <1>3, <4>1, <4>4, <5>2
      <4> QED
        BY <3>1, <4>1, <4>3, <4>4
    <3> QED
      BY <1>1, <3>2, <3>3
  <2> QED
    BY <1>2, <2>1 DEF WorkLatest, Latest, AnnouncesBefore
<1>7. UpLatest(n)'
  <2>1. ASSUME NEW k \in DOMAIN up', hist.announced = n \/ Announces(work', n) \/ AnnouncesBefore(up', k, n)
        PROVE  Latest(up'[k])
    <3>1. PICK j \in DOMAIN up : j = k + 1 /\ up'[k] = up[j]
      BY <1>3
    <3>2. AnnouncesBefore(up', k, n) => AnnouncesBefore(up, j, n)
      BY <1>3, <3>1 DEF AnnouncesBefore
    <3>3. m.kind = "announce" /\ m.id = n => AnnouncesBefore(up, j, n)
      <4>1. 1 < j
        BY <1>3, <3>1
      <4> QED
        BY <1>3, <4>1 DEF AnnouncesBefore
    <3> QED
      BY <1>0, <1>5, <2>1, <3>1, <3>2, <3>3 DEF FromAndroid, UpLatest
  <2> QED
    BY <1>2, <2>1 DEF UpLatest, Latest, AnnouncesBefore, Announces
<1>8. HeldLatest(n)'
  BY <1>0, <1>2 DEF FromAndroid, HeldLatest
<1>9. /\ clip'.id = n
      /\ view'.seen < n \/ hist'.announced = n \/ Announces(work', n) \/ Announces(up', n)
  BY <1>0, <1>2, <1>4, <1>5 DEF FromAndroid
<1>10. hist'.copies = n
  BY <1>0, <1>2
<1> QED
  BY <1>6, <1>7, <1>8, <1>9, <1>10 DEF FromAndroid, WorkLatest, UpLatest, HeldLatest

\* The announcement of the latest copy is not handled twice, and what is behind
\* it is that copy.
LEMMA AndroidMain ==
  ASSUME Typed, FromAndroid, Main
  PROVE  FromAndroid'
<1>0. PICK n : n = hist.copies
  OBVIOUS
<1>1. /\ UNCHANGED <<clip, view, up>> /\ hist'.copies = hist.copies
      /\ work # <<>> /\ work' = Tail(work) /\ work \in Seq(Ups)
  BY TypedHandleAnnounce, TypedHandleData DEF Main, Typed
<1>2. /\ Len(work) \in Nat /\ DOMAIN work = 1..Len(work) /\ Head(work) = work[1] /\ 1 \in DOMAIN work
      /\ DOMAIN work' = 1..(Len(work) - 1)
      /\ \A i \in DOMAIN work' : i + 1 \in DOMAIN work /\ work'[i] = work[i + 1]
  BY <1>1, TailOf
<1>3. PICK m : m = work[1]
  OBVIOUS
<1>4. Announces(work, n) <=> Announces(work', n) \/ (m.kind = "announce" /\ m.id = n)
  <2>1. Announces(work, n) <=> Announces(work', n) \/ (Head(work).kind = "announce" /\ Head(work).id = n)
    BY <1>1, TailAnnounces
  <2> QED
    BY <1>2, <1>3, <2>1
<1>5. hist.announced = n => Latest(m)
  BY <1>0, <1>2, <1>3 DEF FromAndroid, WorkLatest
<1>6. /\ hist'.announced = n => hist.announced = n \/ (m.kind = "announce" /\ m.id = n)
      /\ m.kind = "announce" /\ m.id = n => hist'.announced = n
      /\ hist.announced = n => hist'.announced = n
      /\ HeldLatest(n)'
  <2>1. CASE HandleClipboardAnnounce
    <3>1. m.kind = "announce" /\ hist'.announced = m.id /\ cachedData' = NoData
      BY <1>2, <1>3, <2>1, TypedHandleAnnounce
    <3>2. owner' = Server
      BY <2>1 DEF HandleClipboardAnnounce
    <3>3. Server \notin Clients
      BY ClipboardAssumption
    <3>4. hist.announced # n
      BY <1>5, <3>1 DEF Latest
    <3> QED
      BY <3>1, <3>2, <3>3, <3>4 DEF HeldLatest
  <2>2. CASE HandleClipboardData
    <3>1. m.kind = "send" /\ hist'.announced = hist.announced /\ cachedData' = m.data
      BY <1>2, <1>3, <2>2, TypedHandleData
    <3>2. UNCHANGED owner
      BY <2>2 DEF HandleClipboardData
    <3>3. hist.announced = n => m.data = clip
      BY <1>5, <3>1 DEF Latest
    <3>4. hist.announced = n => owner \notin Clients
      BY <1>0 DEF FromAndroid, HeldLatest
    <3> QED
      BY <1>1, <3>1, <3>2, <3>3, <3>4 DEF HeldLatest
  <2> QED
    BY <2>1, <2>2 DEF Main
<1>7. WorkLatest(n)'
  <2>1. ASSUME NEW k \in DOMAIN work', hist'.announced = n \/ AnnouncesBefore(work', k, n)
        PROVE  Latest(work'[k])
    <3>1. PICK j \in DOMAIN work : j = k + 1 /\ work'[k] = work[j]
      BY <1>2
    <3>2. AnnouncesBefore(work', k, n) => AnnouncesBefore(work, j, n)
      BY <1>2, <3>1 DEF AnnouncesBefore
    <3>3. m.kind = "announce" /\ m.id = n => AnnouncesBefore(work, j, n)
      <4>1. 1 < j
        BY <1>2, <3>1
      <4> QED
        BY <1>2, <1>3, <4>1 DEF AnnouncesBefore
    <3> QED
      BY <1>0, <1>6, <2>1, <3>1, <3>2, <3>3 DEF FromAndroid, WorkLatest
  <2> QED
    BY <1>1, <2>1 DEF WorkLatest, Latest, AnnouncesBefore
<1>8. UpLatest(n)'
  <2>1. ASSUME NEW k \in DOMAIN up, hist'.announced = n \/ Announces(work', n) \/ AnnouncesBefore(up, k, n)
        PROVE  Latest(up[k])
    BY <1>0, <1>4, <1>6, <2>1 DEF FromAndroid, UpLatest
  <2> QED
    BY <1>1, <2>1 DEF UpLatest, Latest, AnnouncesBefore, Announces
<1>9. /\ clip'.id = n /\ hist'.copies = n
      /\ view'.seen < n \/ hist'.announced = n \/ Announces(work', n) \/ Announces(up', n)
  BY <1>0, <1>1, <1>4, <1>6 DEF FromAndroid
<1> QED
  BY <1>6, <1>7, <1>8, <1>9 DEF FromAndroid, WorkLatest, UpLatest, HeldLatest

\* The copy is announced once: whoever knows of it has been told.
LEMMA AndroidAnnounces ==
  ASSUME Typed, FreshInv, FromAndroid, NEW v, ViewTyped(v), v.seen = view.seen, Announce(clip, v),
         UNCHANGED <<clip, work, owner, cachedData>>, Clean(hist')
  PROVE  FromAndroid'
<1>1. hist'.copies = hist.copies /\ hist'.announced = hist.announced
  BY AnnounceEffect DEF SameAges
<1>2. CASE up' = up /\ view'.seen = v.seen
  BY <1>1, <1>2, AndroidStays
<1>3. CASE up' = Append(up, Announcement) /\ v.seen < clip.id
  <2>1. PICK m \in Ups : m = Announcement
    BY <1>2, <1>3, AnnounceEffect
  <2>2. m.kind = "announce" /\ m.id = hist.copies
    BY <2>1 DEF Announcement, FromAndroid
  <2>3. ~Known(hist.copies)
    <3>1. view.seen < hist.copies /\ hist.copies \in Nat /\ view.seen \in Nat
      BY <1>3 DEF FromAndroid, Typed, HistTyped, ViewTyped
    <3> QED
      BY <3>1 DEF FreshInv, ClipFresh
  <2>4. hist.announced # hist.copies /\ ~Announces(work, hist.copies) /\ ~Announces(up, hist.copies)
    BY <2>3 DEF Known, Needed
  <2>5. up' = Append(up, m)
    BY <1>3, <2>1, Zenon
  <2> QED
    BY <1>1, <2>2, <2>4, <2>5, AndroidAppends
<1>4. CASE view'.seen = clip.id /\ v.seen < clip.id /\ up' = up
  <2>1. view' # v
    BY <1>4 DEF Typed, ViewTyped, Copies
  <2>2. up' = Append(up, Announcement)
    BY <2>1, CleanAnnounce
  <2> QED
    BY <1>3, <1>4, <2>2
<1> QED
  BY <1>2, <1>3, <1>4, AnnounceEffect

\* No text comes from the socket: a client's copy that is not older than
\* Android's would be the latest.
LEMMA AndroidReadsEvent ==
  ASSUME Typed, FreshInv, SendsAreClients, ~ClientMade, FromAndroid, ActivityReadsEvent, Clean(hist')
  PROVE  FromAndroid'
<1>1. /\ UNCHANGED <<work, owner, cachedData>>
      /\ hist'.copies = hist.copies /\ hist'.announced = hist.announced
  BY ReadEffect DEF xVars, SameAges
<1>2. CASE down[1].kind = "type" /\ down[1].ev = "send" /\ down[1].data.id >= clip.id
  <2>1. 1 \in DOMAIN down /\ SendOf(down[1])
    BY <1>2, CleanReadsEvent DEF SendOf, Typed
  <2>2. down[1].data.id <= hist.copies /\ down[1].data.id \in Int /\ hist.copies \in Nat
    BY <2>1, NewNumber
  <2>3. down[1].data.id # hist.copies
    BY <2>1 DEF SendsAreClients
  <2>4. clip.id = hist.copies
    BY DEF FromAndroid
  <2> QED
    BY <1>2, <2>2, <2>3, <2>4
<1>3. CASE UNCHANGED <<clip, view, up>>
  BY <1>1, <1>3, AndroidStays
<1>4. CASE UNCHANGED <<clip, view>> /\ up' = Append(up, [kind |-> "send", data |-> clip])
  <2>1. PICK m \in Ups : m = [kind |-> "send", data |-> clip]
    BY DEF Ups, Typed
  <2>2. Latest(m)
    BY <2>1 DEF Latest
  <2>3. up' = Append(up, m)
    BY <1>4, <2>1, Zenon
  <2> QED
    BY <1>1, <1>4, <2>2, <2>3, AndroidAppends
<1> QED
  BY <1>2, <1>3, <1>4, CleanReadsEvent DEF DropsEmpty

LEMMA AndroidReloads ==
  ASSUME Typed, FromAndroid, ReloadPreferences
  PROVE  FromAndroid'
<1>1. /\ UNCHANGED <<clip, work, owner, cachedData, hist>> /\ view'.seen = view.seen
      /\ \E on \in BOOLEAN : up' \in {up, Append(up, [kind |-> "enable", on |-> on])}
  BY TypedReloadPreferences DEF ReloadPreferences, xVars
<1>2. CASE up' = up
  BY <1>1, <1>2, AndroidStays
<1>3. ASSUME NEW on \in BOOLEAN, up' = Append(up, [kind |-> "enable", on |-> on])
      PROVE  FromAndroid'
  <2>1. PICK m \in Ups : m = [kind |-> "enable", on |-> on]
    BY DEF Ups
  <2>2. Latest(m)
    BY <2>1 DEF Latest
  <2>3. up' = Append(up, m)
    BY <1>3, <2>1, Zenon
  <2> QED
    BY <1>1, <2>2, <2>3, AndroidAppends
<1> QED
  BY <1>1, <1>2, <1>3

-----------------------------------------------------------------------------
(* Both cases together. *)

LEMMA LatestKept ==
  ASSUME LatestOnItsWay, Clean(hist), UNCHANGED own, hist'.copies = hist.copies,
         ClientMade /\ FromClient => FromClient',
         ~ClientMade /\ FromAndroid => FromAndroid'
  PROVE  LatestOnItsWay'
  BY SameMaker DEF LatestOnItsWay, Clean

LEMMA LatestUnclean ==
  ASSUME ~Clean(hist')
  PROVE  LatestOnItsWay'
  BY DEF LatestOnItsWay, Clean

LEMMA NextLatest == Typed /\ FreshInv /\ AgreeInv /\ [Next]_vars => LatestOnItsWay'
<1> SUFFICES ASSUME Typed, FreshInv, AgreeInv, [Next]_vars, Clean(hist') PROVE LatestOnItsWay'
  BY LatestUnclean
<1>0. WellFormed /\ ClosedIsEmpty /\ CopiersAsked /\ SendsAreClients /\ NotAnnounced /\ LatestOnItsWay
  BY DEF AgreeInv
<1>1. CASE UserCopies
  BY <1>1, AndroidMade, AndroidUserCopies DEF LatestOnItsWay
<1>2. ASSUME NEW c \in Clients, ClientCopies(c) PROVE LatestOnItsWay'
  BY <1>2, ClientClientCopies DEF LatestOnItsWay
<1>3. ASSUME NEW v, ViewTyped(v), v.seen = view.seen, Announce(clip, v),
             UNCHANGED <<clip, down, xVars>>
      PROVE  LatestOnItsWay'
  <2>1. hist'.copies = hist.copies /\ Clean(hist)
    BY <1>3, AnnounceEffect, CleanAnnounce DEF SameAges
  <2>2. UNCHANGED <<clip, down, own, owner, asked, work, cachedData>>
    BY <1>3 DEF xVars
  <2> QED
    BY <1>0, <1>3, <2>1, <2>2, LatestKept, ClientStays, AndroidAnnounces
<1>4. CASE HandleClipboardChange
  <2>1. ViewTyped(view) /\ Announce(clip, view) /\ UNCHANGED <<clip, down, xVars>>
    BY <1>4 DEF Typed, HandleClipboardChange
  <2> QED
    BY <1>3, <2>1
<1>5. ASSUME Clean(hist), UNCHANGED <<clip, up, work, owner, cachedData, own, asked>>, view'.seen = view.seen,
             hist'.copies = hist.copies, hist'.announced = hist.announced,
             \A i \in DOMAIN down : \E j \in DOMAIN down' : down'[j] = down[i]
      PROVE  LatestOnItsWay'
  BY <1>0, <1>5, LatestKept, ClientStays, AndroidStays
<1>6. CASE FocusChanged
  <2>1. ViewTyped(FocusedView) /\ FocusedView.seen = view.seen
    BY FocusTyped
  <2>2. CASE Announce(clip, FocusedView)
    BY <1>3, <1>6, <2>1, <2>2, FocusEffect
  <2>3. CASE view' = FocusedView /\ UNCHANGED <<up, hist>>
    BY <1>5, <1>6, <2>1, <2>3, FocusEffect DEF xVars
  <2> QED
    BY <1>6, <2>2, <2>3, FocusEffect
<1>7. CASE GraceEnds \/ UNCHANGED vars
  BY <1>5, <1>7 DEF GraceEnds, vars, xVars, Typed, ViewTyped
<1>8. CASE ReloadPreferences
  <2>1. UNCHANGED <<clip, down, own, owner, asked, hist>>
    BY <1>8 DEF ReloadPreferences, xVars
  <2> QED
    BY <1>0, <1>8, <2>1, LatestKept, ClientStays, AndroidReloads
<1>9. CASE Connect
  <2>1. /\ UNCHANGED <<clip, view, down, own, owner, asked, work, cachedData>> /\ up = <<>>
        /\ hist'.copies = hist.copies /\ hist'.announced = hist.announced /\ Clean(hist)
    BY <1>0, <1>9, TypedConnect, CleanConnect DEF Connect, xVars, ClosedIsEmpty, SameAges
  <2>2. \A i \in DOMAIN up' : up'[i].kind = "enable"
    <3>1. \E on \in BOOLEAN : up' = <<[kind |-> "enable", on |-> on]>>
      BY <1>9, TypedConnect
    <3> QED
      BY <3>1
  <2>3. ~Announces(up, hist.copies)
    BY <2>1 DEF Announces
  <2> QED
    BY <1>0, <2>1, <2>2, <2>3, LatestKept, ClientStays, AndroidReset
<1>10. CASE Disconnect
  <2>1. /\ UNCHANGED <<clip, view, own, owner, asked, work, cachedData>> /\ up' = <<>> /\ down' = <<>>
        /\ hist'.copies = hist.copies /\ hist'.announced = hist.announced
    BY <1>10, TypedDisconnect DEF Disconnect, androidVars, SameAges
  <2>2. Clean(hist) /\ ~Announces(up, hist.copies) /\ \A i \in DOMAIN down : ~SendOf(down[i])
    BY <1>10, CleanDisconnect
  <2>3. \A i \in DOMAIN down : ~Carries(down[i])
    BY <2>2 DEF Carries
  <2>4. \A i \in DOMAIN up' : up'[i].kind = "enable"
    BY <2>1
  <2> QED
    BY <1>0, <2>1, <2>2, <2>3, <2>4, LatestKept, ClientStays, AndroidReset
<1>11. CASE ActivityReadsEvent
  <2>1. UNCHANGED own /\ hist'.copies = hist.copies /\ Clean(hist)
    BY <1>11, ReadEffect, CleanReadsEvent DEF xVars, SameAges
  <2> QED
    BY <1>0, <1>11, <2>1, LatestKept, ClientReadsEvent, AndroidReadsEvent
<1>12. CASE ActivityReadsGarbage
  <2>1. /\ UNCHANGED <<own, clip, up, work, owner, cachedData, view>> /\ Clean(hist)
        /\ hist'.copies = hist.copies /\ hist'.announced = hist.announced
    BY <1>12, TypedReadsGarbage, CleanReadsGarbage DEF ActivityReadsGarbage, xVars, SameAges
  <2> QED
    BY <1>0, <1>12, <2>1, LatestKept, ClientReadsGarbage, AndroidStays
<1>13. CASE ServerReads
  <2>1. UNCHANGED <<clip, down, own, owner, asked, hist>>
    BY <1>13 DEF ServerReads, androidVars
  <2> QED
    BY <1>0, <1>13, <2>1, LatestKept, ClientStays, AndroidServerReads
<1>14. CASE HandleClipboardAnnounce
  <2>1. UNCHANGED own /\ hist'.copies = hist.copies /\ Clean(hist)
    BY <1>14, TypedHandleAnnounce, CleanHandleAnnounce
  <2> QED
    BY <1>0, <1>14, <2>1, LatestKept, ClientHandleAnnounce, AndroidMain DEF Main
<1>15. CASE HandleClipboardData
  <2>1. UNCHANGED <<clip, down, own, owner, asked>> /\ hist'.copies = hist.copies /\ Clean(hist)
    BY <1>15, TypedHandleData, CleanHandleData DEF HandleClipboardData
  <2> QED
    BY <1>0, <1>15, <2>1, LatestKept, ClientStays, AndroidMain DEF Main
<1>16. ASSUME NEW t \in Targets, Paste(t) PROVE LatestOnItsWay'
  <2>1. /\ UNCHANGED <<clip, view, up, work, owner, cachedData, own, asked>> /\ Clean(hist)
        /\ hist'.copies = hist.copies /\ hist'.announced = hist.announced
    BY <1>16, TypedPaste, CleanPaste DEF Paste
  <2>2. \A i \in DOMAIN down : \E j \in DOMAIN down' : down'[j] = down[i]
    <3>1. CASE UNCHANGED down
      BY <3>1
    <3>2. CASE down' = down \o Head1("request", NoText)
      BY <1>0, <3>2, RequestWritten, StreamWritten, SpecialCopies
    <3> QED
      BY <1>16, <3>1, <3>2 DEF Paste
  <2> QED
    BY <1>5, <2>1, <2>2
<1>17. ASSUME NEW a \in asked, ClientAnswers(a) PROVE LatestOnItsWay'
  <2>1. /\ UNCHANGED <<own, clip, view, up, work, cachedData, owner>> /\ Clean(hist)
        /\ hist'.copies = hist.copies /\ hist'.announced = hist.announced
    BY <1>17, TypedClientAnswers, CleanClientAnswers DEF SameAges, ClientAnswers
  <2> QED
    BY <1>0, <1>17, <2>1, LatestKept, ClientClientAnswers, AndroidStays
<1> QED
  BY <1>1, <1>2, <1>4, <1>6, <1>7, <1>8, <1>9, <1>10, <1>11, <1>12, <1>13, <1>14, <1>15, <1>16, <1>17
  DEF Next, Activity, Main

LEMMA InitAgree == Init => AgreeInv
<1> SUFFICES ASSUME Init PROVE AgreeInv
  OBVIOUS
<1>1. /\ clip = NoText /\ up = <<>> /\ down = <<>> /\ owner = Nobody /\ asked = {}
      /\ cachedData = NoData /\ work = <<>> /\ hist.copies = 0 /\ hist.announced = 0
  BY DEF Init
<1>2. Nobody \notin Clients /\ clip.id = 0
  BY <1>1, ClipboardAssumption DEF NoText, Copy
<1>3. WellFormed /\ ClosedIsEmpty /\ CopiersAsked /\ SendsAreClients
  BY <1>1, <1>2 DEF WellFormed, ClosedIsEmpty, CopiersAsked, SendsAreClients
<1>4. ~ClientMade
  BY <1>1 DEF ClientMade
<1>5. FromAndroid
  BY <1>1, <1>2 DEF FromAndroid, WorkLatest, UpLatest, HeldLatest
<1> QED
  BY <1>3, <1>4, <1>5 DEF AgreeInv, NotAnnounced, LatestOnItsWay

LEMMA NextAgree == Typed /\ FreshInv /\ AgreeInv /\ [Next]_vars => AgreeInv'
  BY NextWellFormed, NextClosedIsEmpty, NextCopiersAsked, NextSendsAreClients, NextNotAnnounced,
     NextLatest
  DEF AgreeInv

\* Once nothing is on its way the latest copy has arrived.
LEMMA AgreeImplies == Typed /\ FreshInv /\ AgreeInv => ClipboardsAgree
<1> SUFFICES ASSUME Typed, FreshInv, AgreeInv, Quiet, ~hist.missed, ~hist.crossed
             PROVE  /\ owner \in Clients => clip.id = own[owner]
                    /\ owner = Server => cachedData \in {NoData, clip}
  BY DEF ClipboardsAgree
<1>1. /\ up = <<>> /\ down = <<>> /\ work = <<>> /\ asked = {} /\ view.sync /\ ~(view.seen < clip.id)
  BY DEF Quiet, Changed
<1>2. Server \notin Clients
  BY ClipboardAssumption
<1>3. CASE ClientMade
  BY <1>1, <1>2, <1>3 DEF AgreeInv, LatestOnItsWay, FromClient
<1>4. CASE ~ClientMade
  <2>1. FromAndroid
    BY <1>4 DEF AgreeInv, LatestOnItsWay
  <2>2. hist.announced = hist.copies
    BY <1>1, <2>1 DEF FromAndroid, Announces
  <2> QED
    BY <2>1, <2>2 DEF FromAndroid, HeldLatest
<1> QED
  BY <1>3, <1>4

\* When nothing is under way any more, Android and the X clients hold the same
\* copy: the owner's if the last to copy was a client (lorieHandleSelection,
\* setClipboardText), Android's or none yet if it was Android
\* (lorieHandleClipboardAnnounce, lorieHandleClipboardData), unless that copy
\* was missed or an older one crossed it.
THEOREM ClipboardsInAgreement == Spec => []ClipboardsAgree
<1>1. Init => Typed /\ FreshInv /\ AgreeInv
  BY InitTyped, InitFresh, InitAgree
<1>2. Typed /\ FreshInv /\ AgreeInv /\ [Next]_vars => (Typed /\ FreshInv /\ AgreeInv)'
  BY NextTyped, NextFresh, NextAgree
<1> QED
  BY <1>1, <1>2, AgreeImplies, PTL DEF Spec

-----------------------------------------------------------------------------
(* Induction over the natural numbers and over sequences, for sets instead *)
(* of predicates: what is not in the set would have a least element.       *)

Less == {p \in Nat \X Nat : p[1] < p[2]}

LEMMA Induction ==
  ASSUME NEW S, 0 \in S, \A n \in Nat : n \in S => n + 1 \in S
  PROVE  Nat \subseteq S
<1> SUFFICES ASSUME Nat \ S # {} PROVE FALSE
  OBVIOUS
<1>1. IsWellFoundedOn(Less, Nat)
  BY NatLessThanWellFounded DEF OpToRel, Less
<1>2. PICK x \in Nat \ S : \A y \in Nat \ S : ~ (<<y, x>> \in Less)
  BY <1>1, WFMin
<1>3. x # 0 /\ x - 1 \in Nat
  BY <1>2
<1>4. <<x - 1, x>> \in Less
  BY <1>2, <1>3 DEF Less
<1>5. x - 1 \in S
  BY <1>2, <1>3, <1>4
<1>6. (x - 1) + 1 = x
  BY <1>2
<1> QED
  BY <1>2, <1>3, <1>5, <1>6

LEMMA SequenceInduction ==
  ASSUME NEW T, NEW S, <<>> \in S, \A q \in Seq(T), e \in T : q \in S => Append(q, e) \in S
  PROVE  Seq(T) \subseteq S
<1> DEFINE N == {n \in Nat : \A q \in Seq(T) : Len(q) = n => q \in S}
<1>1. 0 \in N
  <2>1. \A q \in Seq(T) : Len(q) = 0 => q = <<>>
    OBVIOUS
  <2> QED
    BY <2>1
<1>2. \A n \in Nat : n \in N => n + 1 \in N
  <2> SUFFICES ASSUME NEW n \in Nat, n \in N PROVE n + 1 \in N
    OBVIOUS
  <2> SUFFICES ASSUME NEW q \in Seq(T), Len(q) = n + 1 PROVE q \in S
    OBVIOUS
  <2>1. /\ SubSeq(q, 1, n) \in Seq(T) /\ Len(SubSeq(q, 1, n)) = n /\ q[n + 1] \in T
        /\ q = Append(SubSeq(q, 1, n), q[n + 1])
    OBVIOUS
  <2>2. SubSeq(q, 1, n) \in S
    BY <2>1
  <2>3. Append(SubSeq(q, 1, n), q[n + 1]) \in S
    BY <2>1, <2>2
  <2> QED
    BY <2>1, <2>3
<1>3. Nat \subseteq N
  <2> HIDE DEF N
  <2> QED
    BY <1>1, <1>2, Induction
<1> QED
  BY <1>3

-----------------------------------------------------------------------------
(* A text put together from pieces. *)

\* What FlattenSeq builds: the first pieces joined.
IsFlat(f, ss) == f = [i \in 1..Len(ss) |-> IF i = 1 THEN ss[i] ELSE f[i - 1] \o ss[i]]

LEMMA FlatIsOne ==
  ASSUME NEW ss \in Seq(Seq(Nat)), NEW f, NEW g, IsFlat(f, ss), IsFlat(g, ss)
  PROVE  f = g
<1> DEFINE S == {i \in Nat : i \in 1..Len(ss) => f[i] = g[i]}
<1>0. Len(ss) \in Nat
  OBVIOUS
<1>1. 0 \in S
  OBVIOUS
<1>2. \A n \in Nat : n \in S => n + 1 \in S
  <2> SUFFICES ASSUME NEW n \in Nat, n \in S PROVE n + 1 \in S
    OBVIOUS
  <2> SUFFICES ASSUME n + 1 \in 1..Len(ss) PROVE f[n + 1] = g[n + 1]
    OBVIOUS
  <2>1. CASE n = 0
    <3>1. f[1] = ss[1]
      BY <2>1 DEF IsFlat
    <3>2. g[1] = ss[1]
      BY <2>1 DEF IsFlat
    <3> QED
      BY <2>1, <3>1, <3>2
  <2>2. CASE n # 0
    <3>1. n + 1 # 1 /\ (n + 1) - 1 = n /\ n \in 1..Len(ss)
      BY <1>0, <2>2
    <3>2. f[n + 1] = f[n] \o ss[n + 1]
      BY <3>1 DEF IsFlat
    <3>3. g[n + 1] = g[n] \o ss[n + 1]
      BY <3>1 DEF IsFlat
    <3> QED
      BY <3>1, <3>2, <3>3
  <2> QED
    BY <2>1, <2>2
<1>3. Nat \subseteq S
  <2> HIDE DEF S
  <2> QED
    BY <1>1, <1>2, Induction
<1>4. \A i \in 1..Len(ss) : f[i] = g[i]
  BY <1>0, <1>3
<1>5. f = [i \in 1..Len(ss) |-> f[i]] /\ g = [i \in 1..Len(ss) |-> g[i]]
  BY DEF IsFlat
<1> QED
  BY <1>4, <1>5

LEMMA FlatByParts ==
  ASSUME NEW ss \in Seq(Seq(Nat)), Len(ss) # 0, NEW f, IsFlat(f, ss)
  PROVE  FlattenSeq(ss) = f[Len(ss)]
<1> DEFINE F == CHOOSE g : IsFlat(g, ss)
<1>1. FlattenSeq(ss) = F[Len(ss)]
  BY DEF FlattenSeq, IsFlat
<1>2. IsFlat(F, ss)
  BY Zenon
<1>3. F = f
  <2> HIDE DEF F
  <2> QED
    BY <1>2, FlatIsOne
<1> QED
  BY <1>1, <1>3

LEMMA FlatEmpty == FlattenSeq(<<>>) = <<>>
  BY DEF FlattenSeq

\* Pieces joined so far, and with one more.
LEMMA FlatExtends ==
  ASSUME NEW ss \in Seq(Seq(Nat)), NEW t \in Seq(Nat), NEW f, IsFlat(f, ss), Len(ss) # 0
  PROVE  \E g : IsFlat(g, Append(ss, t)) /\ g[Len(ss) + 1] = f[Len(ss)] \o t
<1> DEFINE n == Len(ss)
           g == [i \in 1..(n + 1) |-> IF i = n + 1 THEN f[n] \o t ELSE f[i]]
           st == Append(ss, t)
<1>1. n \in Nat /\ n >= 1 /\ Len(st) = n + 1 /\ st[n + 1] = t /\ \A i \in 1..n : st[i] = ss[i]
  OBVIOUS
<1>2. ASSUME NEW i \in 1..(n + 1)
      PROVE  g[i] = IF i = 1 THEN st[i] ELSE g[i - 1] \o st[i]
  <2>1. CASE i = 1
    <3>1. g[i] = f[1] /\ st[i] = ss[1]
      BY <1>1, <2>1
    <3>2. f[1] = ss[1]
      BY <1>1 DEF IsFlat
    <3> QED
      BY <2>1, <3>1, <3>2
  <2>2. CASE i = n + 1
    <3>1. g[i] = f[n] \o t /\ g[i - 1] = f[n] /\ st[i] = t /\ i # 1
      BY <1>1, <2>2
    <3> QED
      BY <3>1, Zenon
  <2>3. CASE i \in 2..n
    <3>1. g[i] = f[i] /\ g[i - 1] = f[i - 1] /\ st[i] = ss[i] /\ i # 1 /\ i \in 1..n
      BY <1>1, <2>3
    <3>2. f[i] = f[i - 1] \o ss[i]
      BY <3>1 DEF IsFlat
    <3> QED
      BY <3>1, <3>2, Zenon
  <2> QED
    BY <1>1, <2>1, <2>2, <2>3
<1>3. IsFlat(g, st)
  <2> DEFINE h == [i \in 1..(n + 1) |-> IF i = 1 THEN st[i] ELSE g[i - 1] \o st[i]]
  <2>1. DOMAIN g = 1..(n + 1) /\ g = [i \in 1..(n + 1) |-> g[i]]
    OBVIOUS
  <2> HIDE DEF g, st, n
  <2>2. g = h
    BY <1>2, <2>1
  <2> QED
    BY <1>1, <2>2 DEF IsFlat
<1>4. g[n + 1] = f[n] \o t
  BY <1>1
<1> QED
  BY <1>3, <1>4

LEMMA FlatOne ==
  ASSUME NEW t \in Seq(Nat)
  PROVE  IsFlat([i \in 1..1 |-> t], <<t>>) /\ FlattenSeq(<<t>>) = t
<1>1. <<t>> \in Seq(Seq(Nat)) /\ Len(<<t>>) = 1 /\ <<t>>[1] = t
  OBVIOUS
<1>2. IsFlat([i \in 1..1 |-> t], <<t>>)
  BY <1>1 DEF IsFlat
<1>3. PICK f : IsFlat(f, <<t>>) /\ f[1] = t
  BY <1>2
<1>4. FlattenSeq(<<t>>) = f[Len(<<t>>)]
  <2> DEFINE ss == <<t>>
  <2> HIDE DEF ss
  <2>1. ss \in Seq(Seq(Nat)) /\ Len(ss) # 0 /\ IsFlat(f, ss)
    BY <1>1, <1>3 DEF ss
  <2>2. FlattenSeq(ss) = f[Len(ss)]
    BY <2>1, FlatByParts
  <2> QED
    BY <2>2 DEF ss
<1> QED
  BY <1>1, <1>2, <1>3, <1>4

LEMMA FlatExists ==
  ASSUME NEW ss \in Seq(Seq(Nat)), Len(ss) # 0
  PROVE  \E f : IsFlat(f, ss)
<1> DEFINE S == {q \in Seq(Seq(Nat)) : Len(q) # 0 => \E f : IsFlat(f, q)}
<1>1. <<>> \in S
  OBVIOUS
<1>2. \A q \in Seq(Seq(Nat)), t \in Seq(Nat) : q \in S => Append(q, t) \in S
  <2> SUFFICES ASSUME NEW q \in Seq(Seq(Nat)), NEW t \in Seq(Nat), q \in S
               PROVE  \E f : IsFlat(f, Append(q, t))
    OBVIOUS
  <2>1. CASE Len(q) = 0
    <3>1. Append(q, t) = <<t>>
      BY <2>1
    <3> QED
      BY <3>1, FlatOne
  <2>2. CASE Len(q) # 0
    BY <2>2, FlatExtends
  <2> QED
    BY <2>1, <2>2
<1>3. Seq(Seq(Nat)) \subseteq S
  <2> HIDE DEF S
  <2> QED
    BY <1>1, <1>2, SequenceInduction
<1> QED
  BY <1>3

LEMMA FlatAppend ==
  ASSUME NEW ss \in Seq(Seq(Nat)), NEW t \in Seq(Nat), FlattenSeq(ss) \in Seq(Nat)
  PROVE  FlattenSeq(Append(ss, t)) = FlattenSeq(ss) \o t
<1>1. CASE Len(ss) = 0
  <2>1. ss = <<>> /\ Append(ss, t) = <<t>> /\ <<>> \o t = t
    BY <1>1
  <2> QED
    BY <2>1, FlatEmpty, FlatOne
<1>2. CASE Len(ss) # 0
  <2>1. PICK f : IsFlat(f, ss)
    BY <1>2, FlatExists
  <2>2. PICK g : IsFlat(g, Append(ss, t)) /\ g[Len(ss) + 1] = f[Len(ss)] \o t
    BY <1>2, <2>1, FlatExtends
  <2>3. FlattenSeq(ss) = f[Len(ss)]
    BY <1>2, <2>1, FlatByParts
  <2>4. Append(ss, t) \in Seq(Seq(Nat)) /\ Len(Append(ss, t)) = Len(ss) + 1 /\ Len(ss) + 1 # 0
    OBVIOUS
  <2>5. FlattenSeq(Append(ss, t)) = g[Len(ss) + 1]
    BY <2>2, <2>4, FlatByParts
  <2> QED
    BY <2>2, <2>3, <2>5
<1> QED
  BY <1>1, <1>2

LEMMA FlatTyped == \A ss \in Seq(Seq(Nat)) : FlattenSeq(ss) \in Seq(Nat)
<1> DEFINE S == {q \in Seq(Seq(Nat)) : FlattenSeq(q) \in Seq(Nat)}
<1>1. <<>> \in S
  <2>1. <<>> \in Seq(Seq(Nat)) /\ <<>> \in Seq(Nat)
    OBVIOUS
  <2> QED
    BY <2>1, FlatEmpty, Zenon
<1>2. \A q \in Seq(Seq(Nat)), t \in Seq(Nat) : q \in S => Append(q, t) \in S
  <2> SUFFICES ASSUME NEW q \in Seq(Seq(Nat)), NEW t \in Seq(Nat), q \in S
               PROVE  Append(q, t) \in S
    OBVIOUS
  <2>1. FlattenSeq(Append(q, t)) = FlattenSeq(q) \o t
    BY FlatAppend
  <2>2. Append(q, t) \in Seq(Seq(Nat))
    OBVIOUS
  <2>3. FlattenSeq(q) \o t \in Seq(Nat)
    OBVIOUS
  <2> QED
    BY <2>1, <2>2, <2>3, Zenon
<1>3. Seq(Seq(Nat)) \subseteq S
  <2> HIDE DEF S
  <2> QED
    BY <1>1, <1>2, SequenceInduction
<1> QED
  BY <1>3

\* Every element of a text replaced by a piece.
Pieces(s, F) == FlattenSeq([i \in DOMAIN s |-> F[s[i]]])
Piecewise == [Nat -> Seq(Nat)]

LEMMA PiecesEmpty == \A F : Pieces(<<>>, F) = <<>>
<1> SUFFICES ASSUME NEW F PROVE Pieces(<<>>, F) = <<>>
  OBVIOUS
<1>1. [i \in DOMAIN <<>> |-> F[<<>>[i]]] = <<>>
  OBVIOUS
<1> QED
  BY <1>1, FlatEmpty DEF Pieces

LEMMA PiecesTyped ==
  ASSUME NEW F \in Piecewise, NEW s \in Seq(Nat)
  PROVE  Pieces(s, F) \in Seq(Nat)
<1> DEFINE m == [i \in DOMAIN s |-> F[s[i]]]
<1>1. m \in Seq(Seq(Nat))
  <2>1. Len(s) \in Nat /\ DOMAIN s = 1..Len(s) /\ \A i \in 1..Len(s) : s[i] \in Nat
    OBVIOUS
  <2>2. m \in [1..Len(s) -> Seq(Nat)]
    BY <2>1 DEF Piecewise
  <2> QED
    BY <2>1, <2>2
<1> HIDE DEF m
<1>2. FlattenSeq(m) \in Seq(Nat)
  BY <1>1, FlatTyped
<1> QED
  BY <1>2 DEF Pieces, m

LEMMA PiecesAppend ==
  ASSUME NEW F \in Piecewise, NEW s \in Seq(Nat), NEW p \in Nat
  PROVE  Pieces(Append(s, p), F) = Pieces(s, F) \o F[p]
<1> DEFINE m == [i \in DOMAIN s |-> F[s[i]]]
           sp == Append(s, p)
           k == [i \in DOMAIN sp |-> F[sp[i]]]
<1>1. Len(s) \in Nat /\ DOMAIN s = 1..Len(s) /\ \A i \in 1..Len(s) : s[i] \in Nat
  OBVIOUS
<1>2. DOMAIN sp = 1..(Len(s) + 1) /\ sp[Len(s) + 1] = p /\ \A i \in 1..Len(s) : sp[i] = s[i]
  OBVIOUS
<1>3. m \in Seq(Seq(Nat)) /\ Len(m) = Len(s)
  <2>1. m \in [1..Len(s) -> Seq(Nat)]
    BY <1>1 DEF Piecewise
  <2> QED
    BY <1>1, <2>1
<1>4. F[p] \in Seq(Nat)
  BY DEF Piecewise
<1>5. k = Append(m, F[p])
  <2>1. Append(m, F[p]) = [i \in 1..(Len(s) + 1) |-> IF i = Len(s) + 1 THEN F[p] ELSE m[i]]
    <3> HIDE DEF m
    <3> QED
      BY <1>1, <1>3, <1>4
  <2>2. \A i \in 1..(Len(s) + 1) : F[sp[i]] = IF i = Len(s) + 1 THEN F[p] ELSE m[i]
    <3> HIDE DEF sp
    <3> QED
      BY <1>1, <1>2
  <2> HIDE DEF m, sp
  <2>3. k = [i \in 1..(Len(s) + 1) |-> F[sp[i]]]
    BY <1>2
  <2> QED
    BY <2>1, <2>2, <2>3
<1> HIDE DEF m, k, sp
<1>6. FlattenSeq(m) \in Seq(Nat)
  BY <1>3, FlatTyped
<1>7. FlattenSeq(k) = FlattenSeq(m) \o F[p]
  BY <1>3, <1>4, <1>5, <1>6, FlatAppend
<1> QED
  BY <1>7 DEF Pieces, m, k, sp

LEMMA PiecesConcat ==
  ASSUME NEW F \in Piecewise, NEW s \in Seq(Nat)
  PROVE  \A t \in Seq(Nat) : Pieces(s \o t, F) = Pieces(s, F) \o Pieces(t, F)
<1> DEFINE S == {t \in Seq(Nat) : Pieces(s \o t, F) = Pieces(s, F) \o Pieces(t, F)}
<1>0. Pieces(s, F) \in Seq(Nat)
  BY PiecesTyped
<1>1. <<>> \in S
  <2>1. s \o <<>> = s /\ Pieces(s, F) \o <<>> = Pieces(s, F)
    BY <1>0
  <2>2. Pieces(<<>>, F) = <<>>
    BY PiecesEmpty
  <2>3. Pieces(s \o <<>>, F) = Pieces(s, F) \o Pieces(<<>>, F)
    BY <2>1, <2>2, Zenon
  <2>4. <<>> \in Seq(Nat)
    OBVIOUS
  <2> QED
    BY <2>3, <2>4, Zenon
<1>2. \A t \in Seq(Nat), p \in Nat : t \in S => Append(t, p) \in S
  <2> SUFFICES ASSUME NEW t \in Seq(Nat), NEW p \in Nat, t \in S PROVE Append(t, p) \in S
    OBVIOUS
  <2>1. s \o Append(t, p) = Append(s \o t, p) /\ s \o t \in Seq(Nat) /\ Append(t, p) \in Seq(Nat)
    OBVIOUS
  <2>2. Pieces(Append(s \o t, p), F) = Pieces(s \o t, F) \o F[p]
    BY <2>1, PiecesAppend
  <2>3. Pieces(Append(t, p), F) = Pieces(t, F) \o F[p]
    BY PiecesAppend
  <2>4. Pieces(t, F) \in Seq(Nat) /\ F[p] \in Seq(Nat)
    BY PiecesTyped DEF Piecewise
  <2>5. \A a, b, c \in Seq(Nat) : (a \o b) \o c = a \o (b \o c)
    OBVIOUS
  <2>6. (Pieces(s, F) \o Pieces(t, F)) \o F[p] = Pieces(s, F) \o (Pieces(t, F) \o F[p])
    BY <1>0, <2>4, <2>5
  <2>7. Pieces(s \o Append(t, p), F) = Pieces(s, F) \o Pieces(Append(t, p), F)
    BY <2>1, <2>2, <2>3, <2>6
  <2> QED
    BY <2>1, <2>7
<1>3. Seq(Nat) \subseteq S
  <2> HIDE DEF S
  <2> QED
    BY <1>1, <1>2, SequenceInduction
<1> QED
  BY <1>3

\* Pieces of pieces are pieces.
Then(F, H) == [p \in Nat |-> Pieces(F[p], H)]

LEMMA PiecesThen ==
  ASSUME NEW F \in Piecewise, NEW H \in Piecewise
  PROVE  /\ Then(F, H) \in Piecewise
         /\ \A s \in Seq(Nat) : Pieces(Pieces(s, F), H) = Pieces(s, Then(F, H))
<1> DEFINE S == {s \in Seq(Nat) : Pieces(Pieces(s, F), H) = Pieces(s, Then(F, H))}
<1>0. Then(F, H) \in Piecewise
  BY PiecesTyped DEF Then, Piecewise
<1>1. <<>> \in S
  BY PiecesEmpty
<1>2. \A s \in Seq(Nat), p \in Nat : s \in S => Append(s, p) \in S
  <2> SUFFICES ASSUME NEW s \in Seq(Nat), NEW p \in Nat, s \in S PROVE Append(s, p) \in S
    OBVIOUS
  <2>1. Pieces(Append(s, p), F) = Pieces(s, F) \o F[p]
    BY PiecesAppend
  <2>2. Pieces(s, F) \in Seq(Nat) /\ F[p] \in Seq(Nat)
    BY PiecesTyped DEF Piecewise
  <2>3. Pieces(Pieces(s, F) \o F[p], H) = Pieces(Pieces(s, F), H) \o Pieces(F[p], H)
    BY <2>2, PiecesConcat
  <2>4. Pieces(Append(s, p), Then(F, H)) = Pieces(s, Then(F, H)) \o Then(F, H)[p]
    BY <1>0, PiecesAppend
  <2>5. Then(F, H)[p] = Pieces(F[p], H)
    BY DEF Then
  <2>6. Append(s, p) \in Seq(Nat)
    OBVIOUS
  <2> QED
    BY <2>1, <2>3, <2>4, <2>5, <2>6
<1>3. Seq(Nat) \subseteq S
  <2> HIDE DEF S
  <2> QED
    BY <1>1, <1>2, SequenceInduction
<1> QED
  BY <1>0, <1>3

LEMMA PiecesSingle ==
  ASSUME NEW F \in Piecewise, NEW p \in Nat
  PROVE  Pieces(<<p>>, F) = F[p]
<1>1. F[p] \in Seq(Nat) /\ <<>> \o F[p] = F[p] /\ <<p>> = Append(<<>>, p) /\ <<>> \in Seq(Nat)
  BY DEF Piecewise
<1>2. Pieces(Append(<<>>, p), F) = Pieces(<<>>, F) \o F[p]
  BY <1>1, PiecesAppend
<1> QED
  BY <1>1, <1>2, PiecesEmpty

\* A text none of whose elements is changed.
LEMMA PiecesKept ==
  ASSUME NEW F \in Piecewise, NEW s \in Seq(Nat), \A i \in DOMAIN s : F[s[i]] = <<s[i]>>
  PROVE  Pieces(s, F) = s
<1> DEFINE S == {q \in Seq(Nat) : (\A i \in DOMAIN q : F[q[i]] = <<q[i]>>) => Pieces(q, F) = q}
<1>1. <<>> \in S
  <2>1. <<>> \in Seq(Nat)
    OBVIOUS
  <2> QED
    BY <2>1, PiecesEmpty, Zenon
<1>2. \A q \in Seq(Nat), p \in Nat : q \in S => Append(q, p) \in S
  <2> SUFFICES ASSUME NEW q \in Seq(Nat), NEW p \in Nat, q \in S PROVE Append(q, p) \in S
    OBVIOUS
  <2>1. Append(q, p) \in Seq(Nat)
    OBVIOUS
  <2> SUFFICES ASSUME \A i \in DOMAIN Append(q, p) : F[Append(q, p)[i]] = <<Append(q, p)[i]>>
               PROVE  Pieces(Append(q, p), F) = Append(q, p)
    BY <2>1
  <2>2. /\ \A i \in DOMAIN q : i \in DOMAIN Append(q, p) /\ Append(q, p)[i] = q[i]
        /\ Len(q) + 1 \in DOMAIN Append(q, p) /\ Append(q, p)[Len(q) + 1] = p
    OBVIOUS
  <2>3. \A i \in DOMAIN q : F[q[i]] = <<q[i]>>
    BY <2>2
  <2>4. F[p] = <<p>>
    BY <2>2
  <2>5. Pieces(q, F) = q
    BY <2>3
  <2>6. Pieces(Append(q, p), F) = q \o <<p>>
    BY <2>4, <2>5, PiecesAppend
  <2>7. q \o <<p>> = Append(q, p)
    OBVIOUS
  <2> QED
    BY <2>6, <2>7
<1>3. Seq(Nat) \subseteq S
  <2> HIDE DEF S
  <2> QED
    BY <1>1, <1>2, SequenceInduction
<1> QED
  BY <1>3

LEMMA PiecesSame ==
  ASSUME NEW s \in Seq(Nat), NEW F, NEW G, \A i \in DOMAIN s : F[s[i]] = G[s[i]]
  PROVE  Pieces(s, F) = Pieces(s, G)
<1>1. [i \in DOMAIN s |-> F[s[i]]] = [i \in DOMAIN s |-> G[s[i]]]
  OBVIOUS
<1> QED
  BY <1>1 DEF Pieces

-----------------------------------------------------------------------------
(* The conversions of a text are conversions of its characters. *)

EncodePoint == [p \in Nat |-> Utf8Point(p)]
DropReturn == [b \in Nat |-> IF b = 13 THEN <<>> ELSE <<b>>]
EncodeLatin1 == [b \in Nat |-> IF b < 128 THEN <<b>> ELSE <<Lead(b), (b % 64) + 128>>]
KeepAll == [b \in Nat |-> <<b>>]

LEMMA HighAndLow ==
  ASSUME NEW p \in Nat
  PROVE  \E a \in Nat, b \in Nat : a = High(p) /\ 128 + b = Low6(p) /\ b < 64 /\ p = 64 * a + b
<1>1. High(p) \in Nat /\ p % 64 \in Nat /\ p % 64 < 64 /\ p = 64 * High(p) + (p % 64)
  BY DEF High
<1> QED
  BY <1>1, Zenon DEF Low6

\* The bytes of a code point.
Continuation(x) == x >= 128 /\ x < 192
Two(p, w, x) ==
  p >= 128 /\ p < 2048 /\ w >= 194 /\ w < 224 /\ Continuation(x) /\ p = 64 * (w - 192) + (x - 128)
Three(p, w, x, y) ==
  /\ p >= 2048 /\ p < 65536 /\ w >= 224 /\ w < 240 /\ Continuation(x) /\ Continuation(y)
  /\ p = 64 * (64 * (w - 224) + (x - 128)) + (y - 128)
Four(p, w, x, y, z) ==
  /\ p >= 65536 /\ w >= 240 /\ Continuation(x) /\ Continuation(y) /\ Continuation(z)
  /\ p = 64 * (64 * (64 * (w - 240) + (x - 128)) + (y - 128)) + (z - 128)

InOne(p, u) == p < 128 /\ u = <<p>>
InTwo(p, u) == \E w, x \in Nat : Two(p, w, x) /\ u = <<w, x>>
InThree(p, u) == \E w, x, y \in Nat : Three(p, w, x, y) /\ u = <<w, x, y>>
InFour(p, u) == \E w, x, y, z \in Nat : Four(p, w, x, y, z) /\ u = <<w, x, y, z>>

LEMMA PointBytes ==
  ASSUME NEW p \in Nat
  PROVE  \/ InOne(p, Utf8Point(p)) \/ InTwo(p, Utf8Point(p))
         \/ InThree(p, Utf8Point(p)) \/ InFour(p, Utf8Point(p))
<1>1. PICK q \in Nat, d \in Nat : q = High(p) /\ 128 + d = Low6(p) /\ d < 64 /\ p = 64 * q + d
  BY HighAndLow
<1>2. PICK r \in Nat, c \in Nat : r = High(q) /\ 128 + c = Low6(q) /\ c < 64 /\ q = 64 * r + c
  BY HighAndLow
<1>3. PICK t \in Nat, b \in Nat : t = High(r) /\ 128 + b = Low6(r) /\ b < 64 /\ r = 64 * t + b
  BY HighAndLow
<1>4. PICK x \in Nat, y \in Nat, z \in Nat : x = 128 + b /\ y = 128 + c /\ z = 128 + d
  OBVIOUS
<1>5. Low6(p) = z /\ Low6(High(p)) = y /\ Low6(High(High(p))) = x
  <2>1. Low6(p) = z
    BY <1>1, <1>4
  <2>2. Low6(High(p)) = y
    BY <1>1, <1>2, <1>4
  <2>3. Low6(High(High(p))) = x
    BY <1>1, <1>2, <1>3, <1>4
  <2> QED
    BY <2>1, <2>2, <2>3
<1>6. CASE p < 128
  <2>1. Utf8Point(p) = <<p>>
    BY <1>6, SMT DEF Utf8Point
  <2> QED
    BY <1>6, <2>1 DEF InOne
<1>7. CASE 128 <= p /\ p < 2048
  <2>1. PICK w \in Nat : w = 192 + q
    OBVIOUS
  <2>2. Utf8Point(p) = <<192 + High(p), Low6(p)>>
    BY <1>7, SMT DEF Utf8Point
  <2>3. Utf8Point(p) = <<w, z>>
    BY <1>1, <1>5, <2>1, <2>2, Zenon
  <2>4. Two(p, w, z)
    <3>1. q >= 2 /\ q < 32
      BY <1>1, <1>7
    <3>2. q = w - 192 /\ d = z - 128 /\ w >= 194 /\ w < 224
      BY <1>4, <2>1, <3>1
    <3>3. Continuation(z)
      BY <1>1, <1>4 DEF Continuation
    <3> QED
      BY <1>1, <1>7, <3>2, <3>3 DEF Two
  <2> QED
    BY <1>4, <2>1, <2>3, <2>4, Zenon DEF InTwo
<1>8. CASE 2048 <= p /\ p < 65536
  <2>1. PICK w \in Nat : w = 224 + r
    OBVIOUS
  <2>2. Utf8Point(p) = <<224 + High(High(p)), Low6(High(p)), Low6(p)>>
    BY <1>8, SMT DEF Utf8Point
  <2>3. Utf8Point(p) = <<w, y, z>>
    BY <1>1, <1>2, <1>5, <2>1, <2>2, Zenon
  <2>4. Three(p, w, y, z)
    <3>1. r < 16
      BY <1>1, <1>2, <1>8
    <3>2. r = w - 224 /\ c = y - 128 /\ d = z - 128 /\ w >= 224 /\ w < 240
      BY <1>4, <2>1, <3>1
    <3>3. Continuation(y) /\ Continuation(z)
      BY <1>1, <1>2, <1>4 DEF Continuation
    <3> QED
      BY <1>1, <1>2, <1>8, <3>2, <3>3 DEF Three
  <2> QED
    BY <1>4, <2>1, <2>3, <2>4 DEF InThree
<1>9. CASE p >= 65536
  <2>1. PICK w \in Nat : w = 240 + t
    OBVIOUS
  <2>2. Utf8Point(p) = <<240 + High(High(High(p))), Low6(High(High(p))), Low6(High(p)), Low6(p)>>
    BY <1>9, SMT DEF Utf8Point
  <2>3. Utf8Point(p) = <<w, x, y, z>>
    BY <1>1, <1>2, <1>3, <1>5, <2>1, <2>2, Zenon
  <2>4. Four(p, w, x, y, z)
    <3>1. t = w - 240 /\ b = x - 128 /\ c = y - 128 /\ d = z - 128 /\ w >= 240
      BY <1>4, <2>1
    <3>2. Continuation(x) /\ Continuation(y) /\ Continuation(z)
      BY <1>1, <1>2, <1>3, <1>4 DEF Continuation
    <3> QED
      BY <1>1, <1>2, <1>3, <1>9, <3>1, <3>2 DEF Four
  <2> QED
    BY <1>4, <2>1, <2>3, <2>4 DEF InFour
<1> QED
  BY <1>6, <1>7, <1>8, <1>9, SMT

LEMMA PointTyped == \A p \in Nat : Utf8Point(p) \in Seq(Nat)
<1> SUFFICES ASSUME NEW p \in Nat PROVE Utf8Point(p) \in Seq(Nat)
  OBVIOUS
<1>1. CASE InOne(p, Utf8Point(p))
  BY <1>1 DEF InOne
<1>2. CASE InTwo(p, Utf8Point(p))
  BY <1>2 DEF InTwo
<1>3. CASE InThree(p, Utf8Point(p))
  BY <1>3 DEF InThree
<1>4. CASE InFour(p, Utf8Point(p))
  BY <1>4 DEF InFour
<1> QED
  BY <1>1, <1>2, <1>3, <1>4, PointBytes

LEMMA PiecewiseTyped ==
  EncodePoint \in Piecewise /\ DropReturn \in Piecewise /\ EncodeLatin1 \in Piecewise /\ KeepAll \in Piecewise
<1>1. ASSUME NEW b \in Nat PROVE EncodeLatin1[b] \in Seq(Nat)
  <2>1. b % 64 \in Nat
    OBVIOUS
  <2>2. PICK x \in Nat : x = (b % 64) + 128
    BY <2>1
  <2>3. Lead(b) \in Nat
    BY DEF Lead
  <2>4. EncodeLatin1[b] = IF b < 128 THEN <<b>> ELSE <<Lead(b), x>>
    BY <2>2 DEF EncodeLatin1
  <2> QED
    BY <2>3, <2>4
<1>2. EncodePoint \in Piecewise
  BY PointTyped DEF EncodePoint, Piecewise
<1>3. EncodeLatin1 \in Piecewise
  <2>1. EncodeLatin1 = [b \in Nat |-> EncodeLatin1[b]]
    BY Zenon DEF EncodeLatin1
  <2> QED
    BY <1>1, <2>1 DEF Piecewise
<1>4. DropReturn \in Piecewise
  BY DEF DropReturn, Piecewise
<1>5. KeepAll \in Piecewise
  BY DEF KeepAll, Piecewise
<1> QED
  BY <1>2, <1>3, <1>4, <1>5

LEMMA ConversionsInPieces ==
  ASSUME NEW s \in Seq(Nat)
  PROVE  /\ Utf8(s) = Pieces(s, EncodePoint)
         /\ lorieConvertLF(s) = Pieces(s, DropReturn)
         /\ lorieLatin1ToUTF8(s) = Pieces(s, EncodeLatin1)
<1>1. \A i \in DOMAIN s : s[i] \in Nat
  OBVIOUS
<1>2. [i \in DOMAIN s |-> Utf8Point(s[i])] = [i \in DOMAIN s |-> EncodePoint[s[i]]]
  BY <1>1 DEF EncodePoint
<1>3. [i \in DOMAIN s |-> IF s[i] = 13 THEN <<>> ELSE <<s[i]>>] = [i \in DOMAIN s |-> DropReturn[s[i]]]
  BY <1>1 DEF DropReturn
<1>4. [i \in DOMAIN s |-> IF s[i] < 128 THEN <<s[i]>> ELSE <<Lead(s[i]), (s[i] % 64) + 128>>]
        = [i \in DOMAIN s |-> EncodeLatin1[s[i]]]
  BY <1>1 DEF EncodeLatin1
<1> QED
  BY <1>2, <1>3, <1>4, Zenon DEF Utf8, lorieConvertLF, lorieLatin1ToUTF8, Pieces

\* No byte of an encoded character is a carriage return but that of the character itself.
LEMMA ReturnsOfPoint ==
  ASSUME NEW p \in Nat
  PROVE  Pieces(Utf8Point(p), DropReturn) = IF p = 13 THEN <<>> ELSE Utf8Point(p)
<1>1. \A b \in Nat : b # 13 => DropReturn[b] = <<b>>
  BY DEF DropReturn
<1>2. CASE p = 13
  <2>1. Utf8Point(p) = <<p>>
    BY <1>2, SMT DEF Utf8Point
  <2>2. Pieces(<<p>>, DropReturn) = DropReturn[p]
    BY PiecesSingle, PiecewiseTyped
  <2>3. DropReturn[p] = <<>>
    BY <1>2 DEF DropReturn
  <2> QED
    BY <1>2, <2>1, <2>2, <2>3
<1>3. CASE p # 13
  <2> DEFINE u == Utf8Point(p)
  <2>1. u \in Seq(Nat)
    BY PointTyped
  <2> HIDE DEF u
  <2>2. \A i \in DOMAIN u : u[i] # 13 /\ u[i] \in Nat
    <3>1. CASE InOne(p, u)
      BY <1>3, <3>1 DEF InOne
    <3>2. CASE InTwo(p, u)
      BY <3>2 DEF InTwo, Two, Continuation
    <3>3. CASE InThree(p, u)
      BY <3>3 DEF InThree, Three, Continuation
    <3>4. CASE InFour(p, u)
      BY <3>4 DEF InFour, Four, Continuation
    <3> QED
      BY <3>1, <3>2, <3>3, <3>4, PointBytes DEF u
  <2>3. Pieces(u, DropReturn) = u
    BY <1>1, <2>1, <2>2, PiecesKept, PiecewiseTyped
  <2> QED
    BY <1>3, <2>3 DEF u
<1> QED
  BY <1>2, <1>3

\* The reference encoding in UTF-8, character by character.
ShownUtf8(returns) == [p \in Nat |-> IF ~returns /\ p = 13 THEN <<>> ELSE Utf8Point(p)]

LEMMA Utf8Kept ==
  ASSUME NEW s \in Seq(Nat)
  PROVE  /\ Utf8(s) = Pieces(s, ShownUtf8(TRUE))
         /\ lorieConvertLF(Utf8(s)) = Pieces(s, ShownUtf8(FALSE))
<1>1. Utf8(s) = Pieces(s, EncodePoint) /\ Utf8(s) \in Seq(Nat)
  BY ConversionsInPieces, PiecesTyped, PiecewiseTyped
<1>2. ShownUtf8(TRUE) = EncodePoint
  BY DEF ShownUtf8, EncodePoint
<1>3. lorieConvertLF(Utf8(s)) = Pieces(Pieces(s, EncodePoint), DropReturn)
  BY <1>1, ConversionsInPieces
<1>4. Pieces(Pieces(s, EncodePoint), DropReturn) = Pieces(s, Then(EncodePoint, DropReturn))
  BY PiecesThen, PiecewiseTyped
<1>5. Then(EncodePoint, DropReturn) = ShownUtf8(FALSE)
  BY ReturnsOfPoint DEF Then, EncodePoint, ShownUtf8
<1> QED
  BY <1>1, <1>2, <1>3, <1>4, <1>5

LEMMA Latin1Point == \A p \in Nat : p < 256 => EncodeLatin1[p] = Utf8Point(p)
<1> SUFFICES ASSUME NEW p \in Nat, p < 256 PROVE EncodeLatin1[p] = Utf8Point(p)
  OBVIOUS
<1>1. CASE p < 128
  <2>1. EncodeLatin1[p] = <<p>>
    BY <1>1 DEF EncodeLatin1
  <2>2. Utf8Point(p) = <<p>>
    BY <1>1, SMT DEF Utf8Point
  <2> QED
    BY <2>1, <2>2
<1>2. CASE p >= 128
  <2>1. EncodeLatin1[p] = <<Lead(p), (p % 64) + 128>>
    BY <1>2 DEF EncodeLatin1
  <2>2. Lead(p) = 192 + High(p)
    BY <1>2 DEF Lead, High
  <2>3. (p % 64) + 128 = Low6(p)
    BY DEF Low6
  <2>4. Utf8Point(p) = <<192 + High(p), Low6(p)>>
    BY <1>2, SMT DEF Utf8Point
  <2> QED
    BY <2>1, <2>2, <2>3, <2>4, Zenon
<1> QED
  BY <1>1, <1>2

LEMMA Latin1Kept ==
  ASSUME NEW s \in Seq(Nat), \A i \in DOMAIN s : s[i] < 256
  PROVE  lorieLatin1ToUTF8(lorieConvertLF(s)) = Pieces(s, ShownUtf8(FALSE))
<1>2. lorieConvertLF(s) = Pieces(s, DropReturn) /\ Pieces(s, DropReturn) \in Seq(Nat)
  BY ConversionsInPieces, PiecesTyped, PiecewiseTyped
<1>3. lorieLatin1ToUTF8(lorieConvertLF(s)) = Pieces(Pieces(s, DropReturn), EncodeLatin1)
  BY <1>2, ConversionsInPieces
<1>4. Pieces(Pieces(s, DropReturn), EncodeLatin1) = Pieces(s, Then(DropReturn, EncodeLatin1))
  BY PiecesThen, PiecewiseTyped
<1>5. ASSUME NEW p \in Nat, p < 256
      PROVE  Then(DropReturn, EncodeLatin1)[p] = ShownUtf8(FALSE)[p]
  <2>1. CASE p = 13
    BY <2>1, PiecesEmpty DEF Then, DropReturn, ShownUtf8
  <2>2. CASE p # 13
    <3>1. Then(DropReturn, EncodeLatin1)[p] = EncodeLatin1[p]
      <4>1. Pieces(<<p>>, EncodeLatin1) = EncodeLatin1[p]
        BY PiecesSingle, PiecewiseTyped
      <4> QED
        BY <2>2, <4>1 DEF Then, DropReturn
    <3>2. EncodeLatin1[p] = Utf8Point(p)
      BY <1>5, Latin1Point
    <3> QED
      BY <2>2, <3>1, <3>2 DEF ShownUtf8
  <2> QED
    BY <2>1, <2>2
<1>6. \A p \in Nat : p < 256 => Then(DropReturn, EncodeLatin1)[p] = ShownUtf8(FALSE)[p]
  BY <1>5
<1>7. Pieces(s, Then(DropReturn, EncodeLatin1)) = Pieces(s, ShownUtf8(FALSE))
  <2> DEFINE F == Then(DropReturn, EncodeLatin1)
             G == ShownUtf8(FALSE)
  <2> HIDE DEF F, G
  <2>1. \A i \in DOMAIN s : F[s[i]] = G[s[i]]
    <3>1. \A p \in Nat : p < 256 => F[p] = G[p]
      BY <1>6 DEF F, G
    <3> QED
      BY <3>1
  <2>2. Pieces(s, F) = Pieces(s, G)
    BY <2>1, PiecesSame
  <2> QED
    BY <2>2 DEF F, G
<1> QED
  BY <1>3, <1>4, <1>7

-----------------------------------------------------------------------------
(* The decoder reads what was encoded. *)

IsValue(f, q) ==
  f = [k \in 0..3 |-> IF k = 0 THEN FirstBits(Byte(q, 1)) ELSE f[k - 1] * 64 + (Byte(q, 1 + k) % 64)]

LEMMA ValueByBytes ==
  ASSUME NEW q
  PROVE  /\ Value(q, 0) = FirstBits(Byte(q, 1))
         /\ Value(q, 1) = Value(q, 0) * 64 + (Byte(q, 2) % 64)
         /\ Value(q, 2) = Value(q, 1) * 64 + (Byte(q, 3) % 64)
         /\ Value(q, 3) = Value(q, 2) * 64 + (Byte(q, 4) % 64)
<1> DEFINE e(k, v) == v * 64 + (Byte(q, 1 + k) % 64)
           v0 == FirstBits(Byte(q, 1))
           v1 == e(1, v0)
           v2 == e(2, v1)
           v3 == e(3, v2)
           g == [k \in 0..3 |-> IF k = 0 THEN v0 ELSE IF k = 1 THEN v1 ELSE IF k = 2 THEN v2 ELSE v3]
           F == CHOOSE f : IsValue(f, q)
<1>1. /\ v1 = v0 * 64 + (Byte(q, 1 + 1) % 64) /\ v2 = v1 * 64 + (Byte(q, 1 + 2) % 64)
      /\ v3 = v2 * 64 + (Byte(q, 1 + 3) % 64)
  BY Zenon
<1> HIDE DEF v0, v1, v2, v3
<1>2. IsValue(g, q)
  <2>1. g[0] = v0 /\ g[1] = v1 /\ g[2] = v2 /\ g[3] = v3
    OBVIOUS
  <2>2. \A k \in 0..3 : g[k] = IF k = 0 THEN FirstBits(Byte(q, 1)) ELSE g[k - 1] * 64 + (Byte(q, 1 + k) % 64)
    <3> HIDE DEF g
    <3> QED
      BY <1>1, <2>1 DEF v0
  <2>3. g = [k \in 0..3 |-> g[k]]
    OBVIOUS
  <2> HIDE DEF g
  <2> QED
    BY <2>2, <2>3 DEF IsValue
<1>3. IsValue(F, q)
  BY <1>2, Zenon
<1> HIDE DEF F
<1>4. /\ F[0] = FirstBits(Byte(q, 1)) /\ F[1] = F[0] * 64 + (Byte(q, 2) % 64)
      /\ F[2] = F[1] * 64 + (Byte(q, 3) % 64) /\ F[3] = F[2] * 64 + (Byte(q, 4) % 64)
  BY <1>3 DEF IsValue
<1>5. \A n : Value(q, n) = F[n]
  BY DEF Value, F, IsValue
<1> QED
  BY <1>4, <1>5

\* A sequence of count continuation bytes that is complete.
LEMMA Decoded ==
  ASSUME NEW q, NEW count \in 0..3, Following(Byte(q, 1)) = count, \A k \in 1..count : Continues(q, 1 + k)
  PROVE  lorieUtf8ToUCS4(q) =
           [ucs |-> IF Surrogate(Value(q, count)) THEN Replacement ELSE Value(q, count), len |-> count + 1]
<1> DEFINE good == {n \in 0..count : \A k \in 1..n : Continues(q, 1 + k)}
           v == Value(q, count)
<1>1. count \in good /\ count # -1
  OBVIOUS
<1>2. lorieUtf8ToUCS4(q) =
        CASE count = -1 -> [ucs |-> Replacement, len |-> Most({n \in 1..Len(q) : \A k \in 2..n : Continues(q, k)})]
          [] count \in good /\ Surrogate(v) -> [ucs |-> Replacement, len |-> count + 1]
          [] count \in good /\ ~Surrogate(v) -> [ucs |-> v, len |-> count + 1]
          [] OTHER -> [ucs |-> Replacement, len |-> Most(good) + 2]
  BY Zenon DEF lorieUtf8ToUCS4
<1> HIDE DEF good, v
<1>3. lorieUtf8ToUCS4(q) = [ucs |-> IF Surrogate(v) THEN Replacement ELSE v, len |-> count + 1]
  BY <1>1, <1>2
<1> QED
  BY <1>3 DEF v

LEMMA ByteArithmetic ==
  ASSUME NEW x \in Nat
  PROVE  /\ Continuation(x) => x \div 64 = 2 /\ x % 64 = x - 128
         /\ x < 128 => Following(x) = 0 /\ FirstBits(x) = x
         /\ x >= 194 /\ x < 224 => Following(x) = 1 /\ FirstBits(x) = x - 192
         /\ x >= 224 /\ x < 240 => Following(x) = 2 /\ FirstBits(x) = x - 224
         /\ x >= 240 /\ x < 248 => Following(x) = 3 /\ FirstBits(x) = x - 240
<1>1. Continuation(x) => x \div 64 = 2 /\ x % 64 = x - 128
  BY DEF Continuation
<1>2. x < 128 => Following(x) = 0 /\ FirstBits(x) = x
  BY DEF Following, FirstBits
<1>3. x >= 194 /\ x < 224 => Following(x) = 1 /\ FirstBits(x) = x - 192
  BY DEF Following, FirstBits
<1>4. x >= 224 /\ x < 240 => Following(x) = 2 /\ FirstBits(x) = x - 224
  BY DEF Following, FirstBits
<1>5. x >= 240 /\ x < 248 => Following(x) = 3 /\ FirstBits(x) = x - 240
  BY DEF Following, FirstBits
<1> QED
  BY <1>1, <1>2, <1>3, <1>4, <1>5

\* q begins with the bytes of u.
Begins(q, u) == \A j \in 1..Len(u) : Byte(q, j) = u[j]

LEMMA DecodesPoint ==
  ASSUME NEW p \in Nat, p < 2097152, NEW q, Begins(q, Utf8Point(p))
  PROVE  lorieUtf8ToUCS4(q) =
           [ucs |-> IF Surrogate(p) THEN Replacement ELSE p, len |-> Len(Utf8Point(p))]
<1> DEFINE u == Utf8Point(p)
<1> HIDE DEF u
<1>1. CASE InOne(p, u)
  <2>1. u = <<p>> /\ p < 128 /\ Len(u) = 1
    BY <1>1 DEF InOne
  <2>2. Byte(q, 1) = p
    BY <2>1 DEF Begins, u
  <2>3. Following(p) = 0 /\ Value(q, 0) = p
    BY <2>1, <2>2, ByteArithmetic, ValueByBytes
  <2>4. \A k \in 1..0 : Continues(q, 1 + k)
    OBVIOUS
  <2>5. lorieUtf8ToUCS4(q) = [ucs |-> IF Surrogate(Value(q, 0)) THEN Replacement ELSE Value(q, 0), len |-> 0 + 1]
    BY <2>2, <2>3, <2>4, Decoded
  <2> QED
    BY <2>1, <2>3, <2>5 DEF u
<1>2. CASE InTwo(p, u)
  <2>1. PICK w \in Nat, x \in Nat : Two(p, w, x) /\ u = <<w, x>>
    BY <1>2 DEF InTwo
  <2>2. Byte(q, 1) = w /\ Byte(q, 2) = x /\ Len(u) = 2
    BY <2>1 DEF Begins, u
  <2>3. Following(w) = 1 /\ FirstBits(w) = w - 192 /\ x \div 64 = 2 /\ x % 64 = x - 128
    BY <2>1, ByteArithmetic DEF Two
  <2>4. Value(q, 1) = p
    BY <2>1, <2>2, <2>3, ValueByBytes DEF Two
  <2>5. \A k \in 1..1 : Continues(q, 1 + k)
    BY <2>2, <2>3 DEF Continues
  <2>6. lorieUtf8ToUCS4(q) = [ucs |-> IF Surrogate(Value(q, 1)) THEN Replacement ELSE Value(q, 1), len |-> 1 + 1]
    BY <2>2, <2>3, <2>5, Decoded
  <2> QED
    BY <2>2, <2>4, <2>6 DEF u
<1>3. CASE InThree(p, u)
  <2>1. PICK w \in Nat, x \in Nat, y \in Nat : Three(p, w, x, y) /\ u = <<w, x, y>>
    BY <1>3 DEF InThree
  <2>2. Byte(q, 1) = w /\ Byte(q, 2) = x /\ Byte(q, 3) = y /\ Len(u) = 3
    BY <2>1 DEF Begins, u
  <2>3. /\ Following(w) = 2 /\ FirstBits(w) = w - 224 /\ x \div 64 = 2 /\ x % 64 = x - 128
        /\ y \div 64 = 2 /\ y % 64 = y - 128
    BY <2>1, ByteArithmetic DEF Three
  <2>4. Value(q, 2) = p
    BY <2>1, <2>2, <2>3, ValueByBytes DEF Three
  <2>5. \A k \in 1..2 : Continues(q, 1 + k)
    BY <2>2, <2>3 DEF Continues
  <2>6. lorieUtf8ToUCS4(q) = [ucs |-> IF Surrogate(Value(q, 2)) THEN Replacement ELSE Value(q, 2), len |-> 2 + 1]
    BY <2>2, <2>3, <2>5, Decoded
  <2> QED
    BY <2>2, <2>4, <2>6 DEF u
<1>4. CASE InFour(p, u)
  <2>1. PICK w \in Nat, x \in Nat, y \in Nat, z \in Nat : Four(p, w, x, y, z) /\ u = <<w, x, y, z>>
    BY <1>4 DEF InFour
  <2>2. Byte(q, 1) = w /\ Byte(q, 2) = x /\ Byte(q, 3) = y /\ Byte(q, 4) = z /\ Len(u) = 4
    BY <2>1 DEF Begins, u
  <2>3. w >= 240 /\ w < 248
    BY <2>1 DEF Four, Continuation
  <2>4. /\ Following(w) = 3 /\ FirstBits(w) = w - 240 /\ x \div 64 = 2 /\ x % 64 = x - 128
        /\ y \div 64 = 2 /\ y % 64 = y - 128 /\ z \div 64 = 2 /\ z % 64 = z - 128
    BY <2>1, <2>3, ByteArithmetic DEF Four
  <2>5. Value(q, 3) = p
    BY <2>1, <2>2, <2>4, ValueByBytes DEF Four
  <2>6. \A k \in 1..3 : Continues(q, 1 + k)
    BY <2>2, <2>4 DEF Continues
  <2>7. lorieUtf8ToUCS4(q) = [ucs |-> IF Surrogate(Value(q, 3)) THEN Replacement ELSE Value(q, 3), len |-> 3 + 1]
    BY <2>2, <2>4, <2>6, Decoded
  <2> QED
    BY <2>2, <2>5, <2>7 DEF u
<1> QED
  BY <1>1, <1>2, <1>3, <1>4, PointBytes DEF u

-----------------------------------------------------------------------------
(* The loop of lorieUtf8ToLatin1 reads character by character. *)

IsLoop(f, T, a, N) == f = [n \in 0..N |-> IF n = 0 THEN a ELSE T[f[n - 1]]]

LEMMA LoopExists ==
  ASSUME NEW T, NEW a, NEW N \in Nat
  PROVE  \E f : IsLoop(f, T, a, N)
<1> DEFINE S == {n \in Nat : \E f : IsLoop(f, T, a, n)}
<1>1. 0 \in S
  <2> DEFINE f == [n \in 0..0 |-> a]
  <2>1. f = [n \in 0..0 |-> IF n = 0 THEN a ELSE T[f[n - 1]]]
    OBVIOUS
  <2> HIDE DEF f
  <2>2. IsLoop(f, T, a, 0)
    BY <2>1 DEF IsLoop
  <2> QED
    BY <2>2
<1>2. \A n \in Nat : n \in S => n + 1 \in S
  <2> SUFFICES ASSUME NEW n \in Nat, n \in S PROVE n + 1 \in S
    OBVIOUS
  <2>1. PICK f : IsLoop(f, T, a, n)
    OBVIOUS
  <2> DEFINE g == [i \in 0..(n + 1) |-> IF i = n + 1 THEN T[f[n]] ELSE f[i]]
  <2>2. ASSUME NEW i \in 0..(n + 1) PROVE g[i] = IF i = 0 THEN a ELSE T[g[i - 1]]
    <3>1. CASE i = n + 1
      <4>1. g[i] = T[f[n]] /\ i - 1 = n /\ g[n] = f[n] /\ i # 0
        BY <3>1
      <4> QED
        BY <4>1
    <3>2. CASE i = 0
      <4>1. g[0] = f[0]
        OBVIOUS
      <4>2. f[0] = a
        BY <2>1 DEF IsLoop
      <4> QED
        BY <3>2, <4>1, <4>2
    <3>3. CASE i \in 1..n
      <4>1. g[i] = f[i] /\ g[i - 1] = f[i - 1] /\ i # 0 /\ i \in 0..n
        BY <3>3
      <4>2. f[i] = T[f[i - 1]]
        BY <2>1, <4>1 DEF IsLoop
      <4> QED
        BY <4>1, <4>2
    <3> QED
      BY <3>1, <3>2, <3>3
  <2>3. g = [i \in 0..(n + 1) |-> g[i]]
    OBVIOUS
  <2> HIDE DEF g
  <2>4. IsLoop(g, T, a, n + 1)
    BY <2>2, <2>3 DEF IsLoop
  <2> QED
    BY <2>4
<1>3. Nat \subseteq S
  <2> HIDE DEF S
  <2> QED
    BY <1>1, <1>2, Induction
<1> QED
  BY <1>3

\* The loop that lorieUtf8ToLatin1 runs.
LEMMA Latin1ByTurns ==
  ASSUME NEW s \in Seq(Nat)
  PROVE  \E f : /\ IsLoop(f, Latin1Turn(s), [at |-> 1, text |-> <<>>], Len(s))
                /\ lorieUtf8ToLatin1(s) = f[Len(s)].text
<1> DEFINE a == [at |-> 1, text |-> <<>>]
           F == CHOOSE f : IsLoop(f, Latin1Turn(s), a, Len(s))
<1>1. Len(s) \in Nat
  OBVIOUS
<1>2. IsLoop(F, Latin1Turn(s), a, Len(s))
  BY <1>1, LoopExists, Zenon
<1>3. lorieUtf8ToLatin1(s) = F[Len(s)].text
  BY DEF lorieUtf8ToLatin1, IsLoop
<1> QED
  BY <1>2, <1>3, Zenon

ShownLatin1 == [p \in Nat |-> <<IF p > 255 THEN QuestionMark ELSE p>>]

LEMMA FirstByte ==
  ASSUME NEW p \in Nat
  PROVE  Len(Utf8Point(p)) >= 1 /\ (p > 0 => Utf8Point(p)[1] # 0)
<1> DEFINE u == Utf8Point(p)
<1> HIDE DEF u
<1>1. CASE InOne(p, u)
  BY <1>1 DEF InOne, u
<1>2. CASE InTwo(p, u)
  <2>1. PICK w \in Nat, x \in Nat : Two(p, w, x) /\ u = <<w, x>>
    BY <1>2 DEF InTwo
  <2>2. w # 0
    BY <2>1 DEF Two
  <2>3. Len(u) >= 1 /\ u[1] = w
    BY <2>1
  <2> QED
    BY <2>2, <2>3 DEF u
<1>3. CASE InThree(p, u)
  <2>1. PICK w \in Nat, x \in Nat, y \in Nat : Three(p, w, x, y) /\ u = <<w, x, y>>
    BY <1>3 DEF InThree
  <2>2. w # 0
    BY <2>1 DEF Three
  <2>3. Len(u) >= 1 /\ u[1] = w
    BY <2>1
  <2> QED
    BY <2>2, <2>3 DEF u
<1>4. CASE InFour(p, u)
  <2>1. PICK w \in Nat, x \in Nat, y \in Nat, z \in Nat : Four(p, w, x, y, z) /\ u = <<w, x, y, z>>
    BY <1>4 DEF InFour
  <2>2. w # 0
    BY <2>1 DEF Four
  <2>3. Len(u) >= 1 /\ u[1] = w
    BY <2>1
  <2> QED
    BY <2>2, <2>3 DEF u
<1>5. Len(u) >= 1 /\ (p > 0 => u[1] # 0)
  BY <1>1, <1>2, <1>3, <1>4, PointBytes DEF u
<1> QED
  BY <1>5 DEF u

LEMMA RestBegins ==
  ASSUME NEW s \in Seq(Nat), NEW l \in Nat, l >= 1, l <= Len(s), NEW u \in Seq(Nat),
         Len(u) <= (Len(s) - l) + 1, \A j \in 1..Len(u) : s[(l + j) - 1] = u[j]
  PROVE  Begins(Rest(s, l), u)
<1> DEFINE r == Rest(s, l)
<1>0. Len(s) \in Nat
  BY LenProperties
<1>1. PICK e \in Nat : e = Len(s)
  BY <1>0, Zenon
<1>2. r = SubSeq(s, l, e)
  BY <1>1 DEF Rest
<1>3. \A i \in l..e : s[i] \in Nat
  BY <1>1
<1>4. /\ SubSeq(s, l, e) \in Seq(Nat)
      /\ Len(SubSeq(s, l, e)) = IF l <= e THEN e - l + 1 ELSE 0
      /\ \A j \in 1..(e - l + 1) : SubSeq(s, l, e)[j] = s[l + j - 1]
  <2>1. l \in Int /\ e \in Int
    OBVIOUS
  <2> QED
    BY <1>3, <2>1, SubSeqProperties
<1> HIDE DEF r
<1>5. r \in Seq(Nat) /\ Len(r) = e - l + 1 /\ \A j \in 1..(e - l + 1) : r[j] = s[l + j - 1]
  BY <1>1, <1>2, <1>4
<1>6. \A j \in 1..Len(u) : j \in DOMAIN r /\ r[j] = u[j]
  <2>1. PICK n \in Nat : n = Len(u)
    OBVIOUS
  <2>2. DOMAIN r = 1..(e - l + 1)
    BY <1>5
  <2>3. \A j \in 1..n : j \in 1..(e - l + 1) /\ l + j - 1 = (l + j) - 1
    BY <1>1, <2>1
  <2> QED
    BY <1>5, <2>1, <2>2, <2>3
<1> QED
  BY <1>6 DEF Begins, Byte, r

\* The loop behind the bytes x, with the text t written.
Behind(x, t) == [at |-> Len(x) + 1, text |-> t]

\* s is u with x before and y behind it.
Around(s, x, u, y) == s = (x \o u) \o y

LEMMA TurnReads ==
  ASSUME NEW x \in Seq(Nat), NEW y \in Seq(Nat), NEW p \in Nat, Decodable(p), NEW t \in Seq(Nat),
         NEW s, Around(s, x, Utf8Point(p), y)
  PROVE  Latin1Turn(s)[Behind(x, t)] = Behind(x \o Utf8Point(p), t \o ShownLatin1[p])
<1> DEFINE u == Utf8Point(p)
           o == [at |-> Len(x) + 1, text |-> t]
           r == Rest(s, Len(x) + 1)
           l == Len(x) + 1
<1>1. u \in Seq(Nat) /\ Len(u) >= 1 /\ u[1] # 0
  BY PointTyped, FirstByte DEF Decodable
<1> HIDE DEF u
<1>2. s \in Seq(Nat) /\ Len(s) = Len(x) + Len(u) + Len(y) /\ Len(x \o u) = Len(x) + Len(u)
  BY <1>1 DEF u, Around
<1>3. \A j \in 1..Len(u) : s[Len(x) + j] = u[j]
  BY <1>1, <1>2 DEF u, Around
<1>4. Byte(s, l) # 0
  <2>1. l \in 1..Len(s) /\ DOMAIN s = 1..Len(s) /\ 1 \in 1..Len(u)
    <3>1. PICK n \in Nat, a \in Nat, b \in Nat : n = Len(u) /\ a = Len(x) /\ b = Len(y) /\ n >= 1
      BY <1>1
    <3>2. l = a + 1 /\ Len(s) = (a + n) + b
      BY <1>2, <3>1
    <3>3. a + 1 \in 1..((a + n) + b) /\ 1 \in 1..n
      BY <3>1
    <3>4. DOMAIN s = 1..Len(s)
      BY <1>2
    <3> HIDE DEF l
    <3> QED
      BY <3>1, <3>2, <3>3, <3>4
  <2>2. s[l] = u[1]
    BY <1>3, <2>1
  <2> HIDE DEF l
  <2> QED
    BY <1>1, <2>1, <2>2 DEF Byte
<1>5. Begins(r, u)
  <2>1. l \in Nat /\ l >= 1 /\ l <= Len(s) /\ Len(u) <= (Len(s) - l) + 1
    <3>1. PICK n \in Nat, a \in Nat, b \in Nat : n = Len(u) /\ a = Len(x) /\ b = Len(y)
      BY <1>1
    <3>2. l = a + 1 /\ Len(s) = (a + n) + b /\ n >= 1
      BY <1>1, <1>2, <3>1
    <3> HIDE DEF l
    <3> QED
      BY <3>1, <3>2
  <2>2. \A j \in 1..Len(u) : s[(l + j) - 1] = u[j]
    <3>1. \A j \in 1..Len(u) : (l + j) - 1 = Len(x) + j
      OBVIOUS
    <3> HIDE DEF l
    <3> QED
      BY <1>3, <3>1, Zenon
  <2>3. Begins(Rest(s, l), u)
    <3> HIDE DEF l
    <3> QED
      BY <1>1, <1>2, <2>1, <2>2, RestBegins
  <2> QED
    BY <2>3, Zenon
<1>6. lorieUtf8ToUCS4(r) = [ucs |-> IF Surrogate(p) THEN Replacement ELSE p, len |-> Len(u)]
  <2> HIDE DEF r
  <2> QED
    BY <1>5, DecodesPoint DEF Decodable, u
<1>7. Latin1Of(IF Surrogate(p) THEN Replacement ELSE p) = IF p > 255 THEN QuestionMark ELSE p
  BY DEF Latin1Of, Surrogate, Replacement
<1>8. o \in [at : Nat, text : Seq(Nat)] /\ o.at = l /\ o.text = t
  OBVIOUS
<1>9. Latin1Turn(s)[o] = [at |-> l + Len(u), text |-> Append(t, IF p > 255 THEN QuestionMark ELSE p)]
  <2> DEFINE c == lorieUtf8ToUCS4(Rest(s, o.at))
  <2>1. Latin1Turn(s)[o] = IF Byte(s, o.at) = 0 THEN o ELSE [at |-> o.at + c.len, text |-> Append(o.text, Latin1Of(c.ucs))]
    <3> HIDE DEF o
    <3> QED
      BY <1>8, Zenon DEF Latin1Turn
  <2>2. c = lorieUtf8ToUCS4(r)
    BY <1>8
  <2> HIDE DEF o, c, r, l
  <2>3. c.len = Len(u) /\ Latin1Of(c.ucs) = IF p > 255 THEN QuestionMark ELSE p
    BY <1>6, <1>7, <2>2
  <2> QED
    BY <1>4, <1>8, <2>1, <2>3, Zenon
<1>10. Append(t, IF p > 255 THEN QuestionMark ELSE p) = t \o ShownLatin1[p]
  BY DEF ShownLatin1, QuestionMark
<1>11. l + Len(u) = Len(x \o u) + 1
  BY <1>1, <1>2
<1> QED
  BY <1>9, <1>10, <1>11, Zenon DEF u, Behind

LEMMA PiecesLengthen ==
  ASSUME NEW F \in Piecewise, \A p \in Nat : Len(F[p]) >= 1
  PROVE  \A s \in Seq(Nat) : Len(Pieces(s, F)) >= Len(s)
<1> DEFINE S == {s \in Seq(Nat) : Len(Pieces(s, F)) >= Len(s)}
<1>1. <<>> \in S
  <2>1. <<>> \in Seq(Nat) /\ Len(<<>>) >= Len(<<>>)
    OBVIOUS
  <2>2. Pieces(<<>>, F) = <<>>
    BY PiecesEmpty
  <2> QED
    BY <2>1, <2>2, Zenon
<1>2. \A s \in Seq(Nat), p \in Nat : s \in S => Append(s, p) \in S
  <2> SUFFICES ASSUME NEW s \in Seq(Nat), NEW p \in Nat, s \in S PROVE Append(s, p) \in S
    OBVIOUS
  <2>1. Pieces(Append(s, p), F) = Pieces(s, F) \o F[p]
    BY PiecesAppend
  <2>2. Pieces(s, F) \in Seq(Nat) /\ F[p] \in Seq(Nat) /\ Len(F[p]) >= 1
    BY PiecesTyped DEF Piecewise
  <2>3. Len(Pieces(s, F) \o F[p]) = Len(Pieces(s, F)) + Len(F[p])
    BY <2>2
  <2>4. Append(s, p) \in Seq(Nat) /\ Len(Append(s, p)) = Len(s) + 1
    OBVIOUS
  <2>5. Len(Pieces(s, F)) \in Nat /\ Len(F[p]) \in Nat /\ Len(s) \in Nat
    BY <2>2
  <2>6. Len(Pieces(s, F)) + Len(F[p]) >= Len(s) + 1
    BY <2>2, <2>5
  <2>7. Len(Pieces(Append(s, p), F)) >= Len(Append(s, p))
    BY <2>1, <2>3, <2>4, <2>6
  <2> QED
    BY <2>4, <2>7
<1>3. Seq(Nat) \subseteq S
  <2> HIDE DEF S
  <2> QED
    BY <1>1, <1>2, SequenceInduction
<1> QED
  BY <1>3

LEMMA SplitAt ==
  ASSUME NEW pts \in Seq(Nat), NEW k \in Nat, k < Len(pts)
  PROVE  \E a, b \in Seq(Nat) :
           /\ a = SubSeq(pts, 1, k) /\ pts = Append(a, pts[k + 1]) \o b
           /\ SubSeq(pts, 1, k + 1) = Append(a, pts[k + 1]) /\ pts[k + 1] \in Nat
<1> DEFINE a == SubSeq(pts, 1, k)
           b == SubSeq(pts, k + 2, Len(pts))
           q == pts[k + 1]
<1>1. PICK n \in Nat : n = Len(pts) /\ k < n /\ \A i \in 1..n : pts[i] \in Nat
  OBVIOUS
<1>2. q \in Nat
  BY <1>1
<1>3. a \in Seq(Nat) /\ Len(a) = k /\ \A i \in 1..k : a[i] = pts[i]
  BY <1>1
<1>4. b \in Seq(Nat) /\ Len(b) = n - (k + 1) /\ \A i \in 1..(n - (k + 1)) : b[i] = pts[(k + 1) + i]
  <2>1. \A i \in (k + 2)..n : pts[i] \in Nat
    BY <1>1
  <2>2. k + 2 \in Int /\ n \in Int
    OBVIOUS
  <2>3. /\ SubSeq(pts, k + 2, n) \in Seq(Nat)
        /\ Len(SubSeq(pts, k + 2, n)) = IF k + 2 <= n THEN n - (k + 2) + 1 ELSE 0
        /\ \A i \in 1..(n - (k + 2) + 1) : SubSeq(pts, k + 2, n)[i] = pts[(k + 2) + i - 1]
    BY <2>1, <2>2, SubSeqProperties
  <2>4. b = SubSeq(pts, k + 2, n)
    BY <1>1
  <2> HIDE DEF b
  <2> QED
    BY <1>1, <2>3, <2>4
<1>5. SubSeq(pts, 1, k + 1) = Append(a, q)
  BY <1>1
<1> HIDE DEF a, b, q
<1>6. pts = Append(a, q) \o b
  <2> DEFINE c == Append(a, q)
             d == c \o b
  <2>1. c \in Seq(Nat) /\ Len(c) = k + 1 /\ c[k + 1] = q /\ \A i \in 1..k : c[i] = a[i]
    BY <1>2, <1>3
  <2> HIDE DEF c
  <2>2. /\ d \in Seq(Nat) /\ Len(d) = Len(c) + Len(b)
        /\ \A i \in 1..(Len(c) + Len(b)) : d[i] = IF i <= Len(c) THEN c[i] ELSE b[i - Len(c)]
    BY <1>4, <2>1, ConcatProperties
  <2> HIDE DEF d
  <2>3. Len(c) + Len(b) = n
    BY <1>1, <1>4, <2>1
  <2>4. \A i \in 1..n : d[i] = pts[i]
    <3> SUFFICES ASSUME NEW i \in 1..n PROVE d[i] = pts[i]
      OBVIOUS
    <3>0. d[i] = IF i <= k + 1 THEN c[i] ELSE b[i - (k + 1)]
      BY <2>1, <2>2, <2>3
    <3>1. CASE i <= k
      BY <1>3, <2>1, <3>0, <3>1
    <3>2. CASE i = k + 1
      <4>1. i <= k + 1
        BY <3>2
      <4> QED
        BY <2>1, <3>0, <3>2, <4>1 DEF q
    <3>3. CASE i > k + 1
      <4>1. i - (k + 1) \in 1..(n - (k + 1)) /\ (k + 1) + (i - (k + 1)) = i /\ ~(i <= k + 1)
        BY <1>1, <3>3
      <4> QED
        BY <1>4, <3>0, <4>1
    <3> QED
      BY <3>1, <3>2, <3>3
  <2>5. d = pts
    BY <1>1, <2>2, <2>3, <2>4, SeqEqual
  <2> QED
    BY <2>5 DEF c, d
<1> QED
  BY <1>2, <1>3, <1>4, <1>5, <1>6 DEF a, q

\* What the loop has after the first k characters.
Reached(pts, k) ==
  Behind(Utf8(SubSeq(pts, 1, k)), Pieces(SubSeq(pts, 1, k), ShownLatin1))

LEMMA ShownLatin1Typed == ShownLatin1 \in Piecewise
  BY DEF ShownLatin1, Piecewise, QuestionMark

LEMMA NextCharacter ==
  ASSUME NEW pts \in Seq(Nat), AllDecodable(pts), NEW k \in Nat, k < Len(pts)
  PROVE  Latin1Turn(Utf8(pts))[Reached(pts, k)] = Reached(pts, k + 1)
<1>1. PICK a \in Seq(Nat), b \in Seq(Nat) :
           /\ a = SubSeq(pts, 1, k) /\ pts = Append(a, pts[k + 1]) \o b
           /\ SubSeq(pts, 1, k + 1) = Append(a, pts[k + 1]) /\ pts[k + 1] \in Nat
  BY SplitAt
<1>2. PICK p \in Nat : p = pts[k + 1]
  BY <1>1
<1>3. Decodable(p)
  BY <1>2 DEF AllDecodable
<1> DEFINE x == Utf8(a)
           y == Utf8(b)
           t == Pieces(a, ShownLatin1)
           u == Utf8Point(p)
           ap == Append(a, p)
<1>4. x \in Seq(Nat) /\ y \in Seq(Nat) /\ t \in Seq(Nat) /\ ap \in Seq(Nat)
  BY ConversionsInPieces, PiecesTyped, PiecewiseTyped, ShownLatin1Typed
<1>5. Utf8(ap) = x \o u
  <2>1. Pieces(ap, EncodePoint) = Pieces(a, EncodePoint) \o EncodePoint[p]
    BY PiecesAppend, PiecewiseTyped
  <2>2. EncodePoint[p] = u
    BY DEF EncodePoint
  <2>3. Utf8(ap) = Pieces(ap, EncodePoint) /\ x = Pieces(a, EncodePoint)
    BY <1>4, ConversionsInPieces
  <2> QED
    BY <2>1, <2>2, <2>3
<1>6. Utf8(pts) = (x \o u) \o y
  <2>1. Pieces(ap \o b, EncodePoint) = Pieces(ap, EncodePoint) \o Pieces(b, EncodePoint)
    BY <1>4, PiecesConcat, PiecewiseTyped
  <2>2. Utf8(ap) = Pieces(ap, EncodePoint) /\ y = Pieces(b, EncodePoint) /\ Utf8(pts) = Pieces(pts, EncodePoint)
    BY <1>4, ConversionsInPieces
  <2>3. pts = ap \o b
    BY <1>1, <1>2
  <2> HIDE DEF ap, x, y, u
  <2> QED
    BY <1>5, <2>1, <2>2, <2>3
<1>7. Pieces(ap, ShownLatin1) = t \o ShownLatin1[p]
  BY PiecesAppend, ShownLatin1Typed
<1> HIDE DEF x, y, t, ap
<1>8. Latin1Turn(Utf8(pts))[Behind(x, t)] = Behind(x \o u, t \o ShownLatin1[p])
  <2> DEFINE s == Utf8(pts)
  <2>1. Around(s, x, Utf8Point(p), y)
    BY <1>6 DEF Around
  <2>2. x \in Seq(Nat) /\ y \in Seq(Nat) /\ t \in Seq(Nat)
    BY <1>4
  <2> HIDE DEF s
  <2>3. Latin1Turn(s)[Behind(x, t)] = Behind(x \o Utf8Point(p), t \o ShownLatin1[p])
    BY <1>3, <2>1, <2>2, TurnReads
  <2> QED
    BY <2>3, Zenon DEF s
<1>9. Reached(pts, k) = Behind(x, t)
  BY <1>1, Zenon DEF Reached, x, t
<1>10. Reached(pts, k + 1) = Behind(x \o u, t \o ShownLatin1[p])
  <2>1. SubSeq(pts, 1, k + 1) = ap
    BY <1>1, <1>2 DEF ap
  <2> QED
    BY <1>5, <1>7, <2>1, Zenon DEF Reached
<1> QED
  BY <1>8, <1>9, <1>10

LEMMA LoopStays ==
  ASSUME NEW pts \in Seq(Nat)
  PROVE  /\ SubSeq(pts, 1, Len(pts)) = pts
         /\ Latin1Turn(Utf8(pts))[Reached(pts, Len(pts))] = Reached(pts, Len(pts))
<1> DEFINE s == Utf8(pts)
           o == Reached(pts, Len(pts))
           t == Pieces(pts, ShownLatin1)
<1>1. SubSeq(pts, 1, Len(pts)) = pts
  OBVIOUS
<1>2. s \in Seq(Nat) /\ t \in Seq(Nat)
  BY ConversionsInPieces, PiecesTyped, PiecewiseTyped, ShownLatin1Typed
<1>3. o = [at |-> Len(s) + 1, text |-> t]
  BY <1>1, Zenon DEF Reached, Behind
<1> HIDE DEF s, t, o
<1>4. o \in [at : Nat, text : Seq(Nat)] /\ o.at = Len(s) + 1
  BY <1>2, <1>3
<1>5. Byte(s, o.at) = 0
  <2>1. Len(s) + 1 \notin DOMAIN s
    BY <1>2
  <2> QED
    BY <1>4, <2>1 DEF Byte
<1>6. Latin1Turn(s)[o] = o
  BY <1>4, <1>5, Zenon DEF Latin1Turn
<1> QED
  BY <1>1, <1>6 DEF s, o

LEMMA Latin1Shows ==
  ASSUME NEW pts \in Seq(Nat), AllDecodable(pts)
  PROVE  lorieUtf8ToLatin1(Utf8(pts)) = Pieces(pts, ShownLatin1)
<1> DEFINE s == Utf8(pts)
           T == Latin1Turn(s)
<1>1. s \in Seq(Nat) /\ Len(s) >= Len(pts) /\ Len(s) \in Nat /\ Len(pts) \in Nat
  <2>1. s = Pieces(pts, EncodePoint) /\ s \in Seq(Nat)
    BY ConversionsInPieces, PiecesTyped, PiecewiseTyped
  <2>2. \A p \in Nat : Len(EncodePoint[p]) >= 1
    BY FirstByte DEF EncodePoint
  <2>3. Len(Pieces(pts, EncodePoint)) >= Len(pts)
    BY <2>2, PiecesLengthen, PiecewiseTyped
  <2> QED
    BY <2>1, <2>3
<1>2. PICK f : IsLoop(f, T, [at |-> 1, text |-> <<>>], Len(s)) /\ lorieUtf8ToLatin1(s) = f[Len(s)].text
  BY <1>1, Latin1ByTurns
<1>3. \A k \in Nat : k < Len(pts) => T[Reached(pts, k)] = Reached(pts, k + 1)
  BY NextCharacter
<1>4. T[Reached(pts, Len(pts))] = Reached(pts, Len(pts)) /\ SubSeq(pts, 1, Len(pts)) = pts
  BY LoopStays
<1>5. Reached(pts, 0) = [at |-> 1, text |-> <<>>]
  <2>1. SubSeq(pts, 1, 0) = <<>> /\ <<>> \in Seq(Nat) /\ Len(<<>>) = 0
    OBVIOUS
  <2>2. Utf8(<<>>) = <<>>
    BY <2>1, ConversionsInPieces, PiecesEmpty
  <2>3. Reached(pts, 0) = [at |-> 0 + 1, text |-> <<>>]
    BY <2>1, <2>2, PiecesEmpty, Zenon DEF Reached, Behind
  <2> QED
    BY <2>3
<1>6. PICK R : \A n \in Nat : R[n] = Reached(pts, IF n < Len(pts) THEN n ELSE Len(pts))
  <2>1. \A n \in Nat : [m \in Nat |-> Reached(pts, IF m < Len(pts) THEN m ELSE Len(pts))][n] =
          Reached(pts, IF n < Len(pts) THEN n ELSE Len(pts))
    BY Zenon
  <2> QED
    BY <2>1, Zenon
<1> HIDE DEF s, T
<1>7. R[0] = [at |-> 1, text |-> <<>>]
  <2>1. (IF 0 < Len(pts) THEN 0 ELSE Len(pts)) = 0
    BY <1>1
  <2> QED
    BY <1>5, <1>6, <2>1
<1>8. \A n \in Nat : T[R[n]] = R[n + 1]
  <2> SUFFICES ASSUME NEW n \in Nat PROVE T[R[n]] = R[n + 1]
    OBVIOUS
  <2>0. n + 1 \in Nat /\ R[n] = Reached(pts, IF n < Len(pts) THEN n ELSE Len(pts))
    BY <1>6
  <2>00. R[n + 1] = Reached(pts, IF n + 1 < Len(pts) THEN n + 1 ELSE Len(pts))
    BY <1>6, <2>0
  <2>1. CASE n < Len(pts)
    <3>1. (IF n + 1 < Len(pts) THEN n + 1 ELSE Len(pts)) = n + 1
      BY <1>1, <2>1
    <3> QED
      BY <1>3, <2>0, <2>00, <2>1, <3>1
  <2>2. CASE ~(n < Len(pts))
    <3>1. ~(n + 1 < Len(pts))
      BY <1>1, <2>2
    <3> QED
      BY <1>4, <2>0, <2>00, <2>2, <3>1
  <2> QED
    BY <2>1, <2>2
<1>9. \A n \in Nat : n <= Len(s) => f[n] = R[n]
  <2> DEFINE S == {n \in Nat : n <= Len(s) => f[n] = R[n]}
  <2>1. 0 \in S
    BY <1>1, <1>2, <1>7 DEF IsLoop
  <2>2. \A n \in Nat : n \in S => n + 1 \in S
    <3> SUFFICES ASSUME NEW n \in Nat, n \in S PROVE n + 1 \in S
      OBVIOUS
    <3>0. n + 1 \in Nat
      OBVIOUS
    <3> SUFFICES ASSUME n + 1 <= Len(s) PROVE f[n + 1] = R[n + 1]
      BY <3>0
    <3>1. n + 1 \in 0..Len(s) /\ n + 1 # 0 /\ (n + 1) - 1 = n /\ n <= Len(s)
      BY <1>1
    <3>2. f[n + 1] = T[f[n]]
      BY <1>2, <3>1 DEF IsLoop
    <3>3. f[n] = R[n]
      BY <3>1
    <3> QED
      BY <1>8, <3>2, <3>3
  <2>3. Nat \subseteq S
    <3> HIDE DEF S
    <3> QED
      BY <2>1, <2>2, Induction
  <2> QED
    BY <2>3
<1>10. f[Len(s)] = Reached(pts, Len(pts))
  <2>1. f[Len(s)] = R[Len(s)]
    BY <1>1, <1>9
  <2>2. ~(Len(s) < Len(pts))
    BY <1>1
  <2> QED
    BY <1>1, <1>6, <2>1, <2>2
<1>11. Reached(pts, Len(pts)).text = Pieces(pts, ShownLatin1)
  BY <1>4 DEF Reached, Behind
<1> QED
  BY <1>2, <1>10, <1>11 DEF s

-----------------------------------------------------------------------------
(* What is expected of a text is what its conversions make of it. *)

ShownIn(returns, shown) == [p \in Nat |-> IF ~returns /\ p = 13 THEN <<>> ELSE shown[p]]

LEMMA ExpectedInPieces ==
  ASSUME NEW c \in DOMAIN Text, NEW n \in 1..MaxCopies
  PROVE  /\ Text[c][n] \in Seq(Nat)
         /\ ExpectedUtf8[c][n] = Pieces(Text[c][n], ShownUtf8(c = "android"))
         /\ ExpectedLatin1[c][n] = Pieces(Text[c][n], ShownIn(c = "android", ShownLatin1))
         /\ Utf8Text[c][n] = Utf8(Text[c][n])
<1> DEFINE q == Text[c][n]
           a == c = "android"
<1>1. q \in Seq(Nat)
  BY TextAssumption
<1>2. \A i \in DOMAIN q : q[i] \in Nat
  BY <1>1
<1>3. ASSUME NEW shown
      PROVE  Expected(c, n, shown) = Pieces(q, ShownIn(a, shown))
  <2>1. Expected(c, n, shown) = FlattenSeq([i \in DOMAIN q |-> IF c # "android" /\ q[i] = 13 THEN <<>> ELSE shown[q[i]]])
    BY DEF Expected
  <2> DEFINE F == ShownIn(a, shown)
  <2>2. \A p \in Nat : F[p] = IF c # "android" /\ p = 13 THEN <<>> ELSE shown[p]
    BY DEF ShownIn
  <2> HIDE DEF F, q
  <2>3. [i \in DOMAIN q |-> IF c # "android" /\ q[i] = 13 THEN <<>> ELSE shown[q[i]]] = [i \in DOMAIN q |-> F[q[i]]]
    BY <1>2, <2>2
  <2> QED
    BY <2>1, <2>3 DEF Pieces, F
<1>4. ExpectedUtf8[c][n] = Expected(c, n, EncodePoint) /\ ExpectedLatin1[c][n] = Expected(c, n, ShownLatin1)
  BY DEF ExpectedUtf8, ExpectedLatin1, EncodePoint, ShownLatin1
<1>5. ShownIn(a, EncodePoint) = ShownUtf8(a)
  BY DEF ShownIn, EncodePoint, ShownUtf8
<1>6. Utf8Text[c][n] = Utf8(q)
  BY DEF Utf8Text
<1>7. ExpectedUtf8[c][n] = Pieces(q, ShownUtf8(a))
  BY <1>3, <1>4, <1>5
<1>8. ExpectedLatin1[c][n] = Pieces(q, ShownIn(a, ShownLatin1))
  BY <1>3, <1>4
<1> QED
  BY <1>1, <1>6, <1>7, <1>8

LEMMA ReturnsDropped ==
  ASSUME NEW s \in Seq(Nat), AllDecodable(s)
  PROVE  AllDecodable(Pieces(s, DropReturn))
<1> DEFINE S == {q \in Seq(Nat) : AllDecodable(q) => AllDecodable(Pieces(q, DropReturn))}
<1>1. <<>> \in S
  <2>1. <<>> \in Seq(Nat)
    OBVIOUS
  <2>2. Pieces(<<>>, DropReturn) = <<>>
    BY PiecesEmpty
  <2> QED
    BY <2>1, <2>2, Zenon
<1>2. \A q \in Seq(Nat), p \in Nat : q \in S => Append(q, p) \in S
  <2> SUFFICES ASSUME NEW q \in Seq(Nat), NEW p \in Nat, q \in S PROVE Append(q, p) \in S
    OBVIOUS
  <2>0. Append(q, p) \in Seq(Nat)
    OBVIOUS
  <2> SUFFICES ASSUME AllDecodable(Append(q, p)) PROVE AllDecodable(Pieces(Append(q, p), DropReturn))
    BY <2>0
  <2>1. AllDecodable(q) /\ Decodable(p)
    <3>1. /\ \A i \in DOMAIN q : i \in DOMAIN Append(q, p) /\ Append(q, p)[i] = q[i]
          /\ Len(q) + 1 \in DOMAIN Append(q, p) /\ Append(q, p)[Len(q) + 1] = p
      OBVIOUS
    <3> QED
      BY <3>1 DEF AllDecodable
  <2>2. Pieces(Append(q, p), DropReturn) = Pieces(q, DropReturn) \o DropReturn[p]
    BY PiecesAppend, PiecewiseTyped
  <2> DEFINE r == Pieces(q, DropReturn)
  <2>3. r \in Seq(Nat) /\ AllDecodable(r)
    BY <2>1, PiecesTyped, PiecewiseTyped
  <2> HIDE DEF r
  <2>4. CASE p = 13
    <3>1. DropReturn[p] = <<>> /\ r \o <<>> = r
      BY <2>3, <2>4 DEF DropReturn
    <3> QED
      BY <2>2, <2>3, <3>1 DEF r
  <2>5. CASE p # 13
    <3>1. DropReturn[p] = <<p>>
      BY <2>5 DEF DropReturn
    <3>2. r \o <<p>> = Append(r, p)
      BY <2>3
    <3>3. \A i \in DOMAIN Append(r, p) : (i \in DOMAIN r /\ Append(r, p)[i] = r[i]) \/ Append(r, p)[i] = p
      BY <2>3
    <3>4. AllDecodable(Append(r, p))
      BY <2>1, <2>3, <3>3, Zenon DEF AllDecodable
    <3> QED
      BY <2>2, <3>1, <3>2, <3>4 DEF r
  <2> QED
    BY <2>4, <2>5
<1>3. Seq(Nat) \subseteq S
  <2> HIDE DEF S
  <2> QED
    BY <1>1, <1>2, SequenceInduction
<1> QED
  BY <1>3

LEMMA DropThenShow ==
  ASSUME NEW F \in Piecewise
  PROVE  Then(DropReturn, F) = ShownIn(FALSE, F)
<1>1. ASSUME NEW p \in Nat PROVE Pieces(DropReturn[p], F) = IF p = 13 THEN <<>> ELSE F[p]
  <2>1. CASE p = 13
    BY <2>1, PiecesEmpty DEF DropReturn
  <2>2. CASE p # 13
    BY <2>2, PiecesSingle DEF DropReturn
  <2> QED
    BY <2>1, <2>2
<1> QED
  BY <1>1 DEF Then, ShownIn

LEMMA DroppedFirst ==
  ASSUME NEW F \in Piecewise, NEW s \in Seq(Nat)
  PROVE  Pieces(Pieces(s, DropReturn), F) = Pieces(s, ShownIn(FALSE, F))
<1>1. Pieces(Pieces(s, DropReturn), F) = Pieces(s, Then(DropReturn, F))
  BY PiecesThen, PiecewiseTyped
<1> QED
  BY <1>1, DropThenShow

\* A copy of Android is encoded, one of a client converted, and both can be
\* shown in Latin-1.
LEMMA ExpectedIsConverted ==
  ASSUME NEW c \in DOMAIN Text, NEW n \in 1..MaxCopies
  PROVE  /\ c = "android" => Utf8Text[c][n] = ExpectedUtf8[c][n]
         /\ c # "android" =>
              /\ lorieConvertLF(Utf8Text[c][n]) = ExpectedUtf8[c][n]
              /\ (\A i \in DOMAIN Text[c][n] : Text[c][n][i] < 256) =>
                    lorieLatin1ToUTF8(lorieConvertLF(Text[c][n])) = ExpectedUtf8[c][n]
         /\ AllDecodable(Text[c][n]) => lorieUtf8ToLatin1(ExpectedUtf8[c][n]) = ExpectedLatin1[c][n]
<1> DEFINE q == Text[c][n]
<1>1. q \in Seq(Nat) /\ Utf8Text[c][n] = Utf8(q)
  BY ExpectedInPieces
<1>2. c = "android" => ExpectedUtf8[c][n] = Pieces(q, ShownUtf8(TRUE))
  BY ExpectedInPieces
<1>3. c # "android" => ExpectedUtf8[c][n] = Pieces(q, ShownUtf8(FALSE))
  BY ExpectedInPieces
<1>4. c = "android" => ExpectedLatin1[c][n] = Pieces(q, ShownIn(TRUE, ShownLatin1))
  BY ExpectedInPieces
<1>5. c # "android" => ExpectedLatin1[c][n] = Pieces(q, ShownIn(FALSE, ShownLatin1))
  BY ExpectedInPieces
<1> HIDE DEF q
<1>6. Utf8(q) = Pieces(q, ShownUtf8(TRUE)) /\ lorieConvertLF(Utf8(q)) = Pieces(q, ShownUtf8(FALSE))
  BY <1>1, Utf8Kept
<1>7. (\A i \in DOMAIN q : q[i] < 256) => lorieLatin1ToUTF8(lorieConvertLF(q)) = Pieces(q, ShownUtf8(FALSE))
  BY <1>1, Latin1Kept
<1>8. ASSUME c = "android", AllDecodable(q) PROVE lorieUtf8ToLatin1(ExpectedUtf8[c][n]) = ExpectedLatin1[c][n]
  <2>1. lorieUtf8ToLatin1(Utf8(q)) = Pieces(q, ShownLatin1)
    BY <1>1, <1>8, Latin1Shows
  <2>2. ShownIn(TRUE, ShownLatin1) = ShownLatin1
    BY DEF ShownIn, ShownLatin1
  <2> QED
    BY <1>2, <1>4, <1>6, <1>8, <2>1, <2>2
<1>9. ASSUME c # "android", AllDecodable(q) PROVE lorieUtf8ToLatin1(ExpectedUtf8[c][n]) = ExpectedLatin1[c][n]
  <2> DEFINE r == Pieces(q, DropReturn)
  <2>1. r \in Seq(Nat) /\ AllDecodable(r)
    BY <1>1, <1>9, PiecesTyped, PiecewiseTyped, ReturnsDropped
  <2>2. lorieUtf8ToLatin1(Utf8(r)) = Pieces(r, ShownLatin1)
    BY <2>1, Latin1Shows
  <2>3. Pieces(r, ShownLatin1) = Pieces(q, ShownIn(FALSE, ShownLatin1))
    BY <1>1, ShownLatin1Typed, DroppedFirst
  <2>4. Utf8(r) = Pieces(q, ShownIn(FALSE, EncodePoint))
    <3>1. Utf8(r) = Pieces(r, EncodePoint)
      BY <2>1, ConversionsInPieces
    <3>2. Pieces(r, EncodePoint) = Pieces(q, ShownIn(FALSE, EncodePoint))
      BY <1>1, PiecewiseTyped, DroppedFirst
    <3> QED
      BY <3>1, <3>2
  <2>5. ShownIn(FALSE, EncodePoint) = ShownUtf8(FALSE)
    BY DEF ShownIn, EncodePoint, ShownUtf8
  <2> QED
    BY <1>3, <1>5, <1>9, <2>2, <2>3, <2>4, <2>5
<1> QED
  BY <1>1, <1>2, <1>3, <1>6, <1>7, <1>8, <1>9 DEF q

LEMMA NothingShown == lorieUtf8ToLatin1(<<>>) = <<>>
<1> DEFINE e == <<>>
<1>1. e \in Seq(Nat) /\ DOMAIN e = {}
  OBVIOUS
<1>2. AllDecodable(e)
  BY <1>1 DEF AllDecodable
<1>3. Utf8(e) = e /\ Pieces(e, ShownLatin1) = e
  BY <1>1, ConversionsInPieces, PiecesEmpty
<1> HIDE DEF e
<1>4. lorieUtf8ToLatin1(Utf8(e)) = Pieces(e, ShownLatin1)
  BY <1>1, <1>2, Latin1Shows
<1> QED
  BY <1>3, <1>4 DEF e

-----------------------------------------------------------------------------
(* Every copy on its way shows the text of the one who made it. *)

\* The bytes of the n-th copy, made by c.
Made(c, n, b) == b = ExpectedUtf8[c][n] /\ AllDecodable(Text[c][n])

Right(d, by) ==
  \/ d.id = 0 /\ d.bytes = <<>>
  \/ d.id \in 1..Len(by) /\ Made(by[d.id], d.id, d.bytes)

Makers ==
  /\ hist.by \in Seq(DOMAIN Text) /\ Len(hist.by) = hist.copies /\ hist.copies <= MaxCopies
  /\ \A c \in Clients : own[c] > 0 => own[c] \in 1..hist.copies /\ hist.by[own[c]] = c

MessagesRight(q, by) == \A i \in DOMAIN q : q[i].kind = "send" => Right(q[i].data, by)
TokensRight(q, by) == \A i \in DOMAIN q : q[i].kind = "type" => Right(q[i].data, by)
PastedRight(p, by) == Right(p.data, by) /\ p.bytes = Converted(p.data, p.target)

TextInv ==
  /\ Makers
  /\ Right(clip, hist.by) /\ (cachedData # NoData => Right(cachedData, hist.by))
  /\ MessagesRight(up, hist.by) /\ MessagesRight(work, hist.by) /\ TokensRight(down, hist.by)
  /\ PastedRight(hist.pasted, hist.by)

LEMMA NothingIsRight ==
  ASSUME NEW by
  PROVE  Right(NoText, by) /\ PastedRight(NothingPasted, by)
<1>1. Right(NoText, by)
  BY DEF Right, NoText, Copy
<1>2. NothingPasted.data = NoText /\ NothingPasted.bytes = <<>> /\ NothingPasted.target = "UTF8_STRING"
  BY DEF NothingPasted
<1>3. Converted(NoText, "UTF8_STRING") = <<>>
  BY DEF Converted, NoText, Copy
<1> QED
  BY <1>1, <1>2, <1>3 DEF PastedRight

LEMMA InitText == Init => TextInv
<1> SUFFICES ASSUME Init PROVE TextInv
  OBVIOUS
<1>1. /\ clip = NoText /\ up = <<>> /\ down = <<>> /\ cachedData = NoData /\ work = <<>>
      /\ hist.copies = 0 /\ hist.by = <<>> /\ hist.pasted = NothingPasted /\ own = [c \in Clients |-> 0]
  BY DEF Init
<1>2. Makers
  BY <1>1, TextAssumption DEF Makers
<1>3. MessagesRight(up, hist.by) /\ MessagesRight(work, hist.by) /\ TokensRight(down, hist.by)
  BY <1>1 DEF MessagesRight, TokensRight
<1> QED
  BY <1>1, <1>2, <1>3, NothingIsRight DEF TextInv

\* More copies do not change those there are.
LEMMA StaysRight ==
  ASSUME NEW by \in Seq(DOMAIN Text), NEW c \in DOMAIN Text
  PROVE  /\ \A d : Right(d, by) => Right(d, Append(by, c))
         /\ \A q : MessagesRight(q, by) => MessagesRight(q, Append(by, c))
         /\ \A q : TokensRight(q, by) => TokensRight(q, Append(by, c))
<1>1. \A d : Right(d, by) => Right(d, Append(by, c))
  <2>1. /\ Len(Append(by, c)) = Len(by) + 1 /\ Len(by) \in Nat
        /\ \A i \in 1..Len(by) : Append(by, c)[i] = by[i]
    OBVIOUS
  <2>2. \A i \in 1..Len(by) : i \in 1..(Len(by) + 1)
    BY <2>1
  <2> QED
    BY <2>1, <2>2, Zenon DEF Right
<1> QED
  BY <1>1, Zenon DEF MessagesRight, TokensRight

\* Only a copy changes who made the copies, only a paste what was pasted.
LEMMA StepOfHistory ==
  ASSUME Typed, [Next]_vars
  PROVE  \/ UserCopies \/ \E c \in Clients : ClientCopies(c)
         \/ hist'.by = hist.by /\ hist'.copies = hist.copies /\ hist'.pasted = hist.pasted
         \/ /\ hist'.by = hist.by /\ hist'.copies = hist.copies
            /\ HandleClipboardData \/ \E t \in Targets : Paste(t)
<1> DEFINE SameBy == hist'.by = hist.by /\ hist'.copies = hist.copies
           Same == SameBy /\ hist'.pasted = hist.pasted
<1>0. HistTyped(hist)
  BY DEF Typed
<1>1. CASE hist' = hist
  BY <1>1
<1>2. ASSUME NEW m, hist' = [hist EXCEPT !.missed = m] PROVE Same
  BY <1>0, <1>2 DEF HistTyped, HistFields
<1>3. ASSUME NEW v, Announce(clip, v) PROVE Same
  BY <1>2, <1>3 DEF Announce
<1>4. CASE HandleClipboardChange
  BY <1>3, <1>4 DEF HandleClipboardChange
<1>5. CASE FocusChanged
  BY <1>3, <1>5, FocusEffect
<1>6. CASE Connect
  BY <1>0, <1>6 DEF Connect, HistTyped, HistFields
<1>7. CASE Disconnect
  BY <1>0, <1>7 DEF Disconnect, HistTyped, HistFields
<1>8. \A h, token : HistTyped(h) => Swallow(h, token).by = h.by /\ SameAges(h, Swallow(h, token))
  BY DEF Swallow, HistTyped, HistFields, SameAges
<1>9. \A h, ev, d : HistTyped(h) => Write(h, ev, d).by = h.by /\ SameAges(h, Write(h, ev, d))
  BY DEF Write, HistTyped, HistFields, SameAges
<1>10. CASE ActivityReadsEvent
  <2>1. ASSUME NEW token, NEW m, NEW x, hist' = [Swallow(hist, token) EXCEPT !.missed = m, !.crossed = x] PROVE Same
    <3> DEFINE s == Swallow(hist, token)
    <3>1. HistTyped(s) /\ s.by = hist.by /\ SameAges(hist, s) /\ hist' = [s EXCEPT !.missed = m, !.crossed = x]
      BY <1>0, <1>8, <2>1, SwallowEffect
    <3> HIDE DEF s
    <3> QED
      BY <3>1 DEF HistTyped, HistFields, SameAges
  <2>2. ASSUME NEW m, NEW x, hist' = [hist EXCEPT !.dropped = m, !.missed = x] PROVE Same
    BY <1>0, <2>2 DEF HistTyped, HistFields
  <2> DEFINE e == down[1]
             n == Len(Payload(e.data))
             token == IF 3 + n \in DOMAIN down THEN down[3 + n] ELSE [kind |-> "none"]
             m == Swallow(hist, token).missed \/ view.seen < clip.id
             x == Swallow(hist, token).crossed \/ e.data.id < clip.id
  <2>3. \/ hist' = [Swallow(hist, token) EXCEPT !.missed = m, !.crossed = x]
        \/ hist' = hist
        \/ hist' = [hist EXCEPT !.dropped = hist.dropped \/ (view.sync /\ ~view.focus), !.missed = hist.missed \/ ~view.sync]
        \/ hist' = [hist EXCEPT !.dropped = TRUE]
    BY <1>10, Zenon DEF ActivityReadsEvent
  <2>4. ASSUME hist' = [hist EXCEPT !.dropped = TRUE] PROVE Same
    BY <1>0, <2>4 DEF HistTyped, HistFields
  <2> HIDE DEF Same, token, m, x
  <2> QED
    BY <1>1, <2>1, <2>2, <2>3, <2>4 DEF Same
<1>11. CASE ActivityReadsGarbage
  BY <1>0, <1>1, <1>8, <1>11 DEF ActivityReadsGarbage, SameAges
<1>12. CASE HandleClipboardAnnounce
  BY <1>0, <1>12 DEF HandleClipboardAnnounce, HistTyped, HistFields
<1>13. CASE HandleClipboardData
  BY <1>0, <1>13 DEF HandleClipboardData, HistTyped, HistFields
<1>14. ASSUME NEW t \in Targets, Paste(t) PROVE SameBy
  <2>1. ASSUME NEW e, hist' = [hist EXCEPT !.pasted = e] PROVE SameBy
    BY <1>0, <2>1 DEF HistTyped, HistFields
  <2>2. ASSUME hist' = [hist EXCEPT !.dropped = TRUE] PROVE SameBy
    BY <1>0, <2>2 DEF HistTyped, HistFields
  <2>3. ASSUME hist' = Write(hist, "request", NoText) PROVE SameBy
    BY <1>0, <1>9, <2>3 DEF SameAges
  <2> HIDE DEF SameBy
  <2> QED
    BY <1>14, <2>1, <2>2, <2>3 DEF Paste
<1>15. ASSUME NEW a \in asked, ClientAnswers(a) PROVE Same
  <2>1. ASSUME NEW m, NEW x, NEW d, NEW marked, marked = [hist EXCEPT !.crossed = x, !.missed = m],
               hist' = marked \/ hist' = Write(marked, "send", d)
        PROVE  Same
    <3>1. HistTyped(marked) /\ marked.by = hist.by /\ SameAges(hist, marked)
      BY <1>0, <2>1 DEF HistTyped, HistFields, SameAges
    <3>2. Write(marked, "send", d).by = marked.by /\ SameAges(marked, Write(marked, "send", d))
      BY <1>9, <3>1, Zenon
    <3> QED
      BY <2>1, <3>1, <3>2 DEF SameAges
  <2> DEFINE r == ReceivedText(a.client, a.target)
             x == hist.crossed \/ a.client # owner
             y == hist.missed \/ ~alive \/ r \in {<<>>, <<Copy(own[a.client], <<>>)>>}
             marked == [hist EXCEPT !.crossed = x, !.missed = y]
  <2>2. \/ hist' = [hist EXCEPT !.missed = hist.missed \/ Offers[a.client] = {}]
        \/ hist' = hist
        \/ hist' = Write(marked, "send", r[1]) \/ hist' = marked
        \/ hist' = [hist EXCEPT !.missed = TRUE]
    BY <1>15, Zenon DEF ClientAnswers
  <2>3. marked = [hist EXCEPT !.crossed = x, !.missed = y]
    OBVIOUS
  <2> HIDE DEF r, x, y, marked
  <2>4. hist' = Write(marked, "send", r[1]) \/ hist' = marked => Same
    BY <2>1, <2>3
  <2> QED
    BY <1>2, <2>2, <2>4
<1>16. CASE GraceEnds \/ ReloadPreferences \/ ServerReads \/ UNCHANGED vars
  BY <1>1, <1>16 DEF GraceEnds, ReloadPreferences, ServerReads, vars
<1> QED
  BY <1>4, <1>5, <1>6, <1>7, <1>10, <1>11, <1>12, <1>13, <1>14, <1>15, <1>16 DEF Next, Activity, Main

LEMMA Copiers ==
  /\ "android" \in DOMAIN Text /\ "android" \notin Clients
  /\ \A c \in Clients : c \in DOMAIN Text /\ c # "android"
  BY ClipboardAssumption

LEMMA CopyEffect ==
  ASSUME Typed, NEW x, (x = "android" /\ UserCopies) \/ (x \in Clients /\ ClientCopies(x))
  PROVE  /\ hist.copies < MaxCopies
         /\ hist'.by = Append(hist.by, x) /\ hist'.copies = hist.copies + 1 /\ hist'.pasted = NothingPasted
<1>0. HistTyped(hist)
  BY DEF Typed
<1>1. ASSUME NEW m, hist' = [CopyMade(x) EXCEPT !.missed = m]
      PROVE  hist'.by = Append(hist.by, x) /\ hist'.copies = hist.copies + 1 /\ hist'.pasted = NothingPasted
  BY <1>0, <1>1 DEF CopyMade, HistTyped, HistFields
<1>2. CASE x = "android" /\ UserCopies
  BY <1>1, <1>2 DEF UserCopies
<1>3. CASE x \in Clients /\ ClientCopies(x)
  BY <1>1, <1>3 DEF ClientCopies
<1> QED
  BY <1>2, <1>3

LEMMA OwnKept ==
  ASSUME [Next]_vars, \A c \in Clients : ~ClientCopies(c)
  PROVE  own' = own
<1>1. ASSUME NEW a \in asked, ClientAnswers(a) PROVE own' = own
  BY <1>1 DEF ClientAnswers
<1>2. CASE Activity
  BY <1>2 DEF Activity, ActivityReadsEvent, ActivityReadsGarbage, xVars
<1>3. CASE Main
  BY <1>3 DEF Main, HandleClipboardAnnounce, HandleClipboardData
<1>4. CASE UserCopies \/ GraceEnds \/ HandleClipboardChange \/ FocusChanged \/ ReloadPreferences
             \/ Connect \/ Disconnect \/ ServerReads \/ UNCHANGED vars
  BY <1>4
  DEF UserCopies, GraceEnds, HandleClipboardChange, FocusChanged, ReloadPreferences, Connect,
      Disconnect, ServerReads, vars, xVars
<1>5. ASSUME NEW t \in Targets, Paste(t) PROVE own' = own
  BY <1>5 DEF Paste
<1> QED
  BY <1>1, <1>2, <1>3, <1>4, <1>5 DEF Next

LEMMA NextMakers == Typed /\ Makers /\ [Next]_vars => Makers'
<1> SUFFICES ASSUME Typed, Makers, [Next]_vars PROVE Makers'
  OBVIOUS
<1>0. /\ hist.copies \in Nat /\ own \in [Clients -> Nat] /\ MaxCopies \in Nat
      /\ hist.by \in Seq(DOMAIN Text) /\ Len(hist.by) = hist.copies
  BY TextAssumption DEF Typed, HistTyped, Makers
<1>1. ASSUME NEW x \in DOMAIN Text, hist.copies < MaxCopies, hist'.by = Append(hist.by, x),
             hist'.copies = hist.copies + 1,
             \A c \in Clients : own'[c] = own[c] \/ (c = x /\ own'[c] = hist.copies + 1)
      PROVE  Makers'
  <2>1. /\ hist'.by \in Seq(DOMAIN Text) /\ Len(hist'.by) = hist.copies + 1
        /\ hist'.by[hist.copies + 1] = x /\ \A i \in 1..hist.copies : hist'.by[i] = hist.by[i]
    BY <1>0, <1>1
  <2>2. ASSUME NEW c \in Clients, own'[c] > 0
        PROVE  own'[c] \in 1..(hist.copies + 1) /\ hist'.by[own'[c]] = c
    <3>1. CASE own'[c] = own[c]
      <4>1. own[c] \in 1..hist.copies /\ hist.by[own[c]] = c
        BY <2>2, <3>1 DEF Makers
      <4> QED
        BY <1>0, <2>1, <3>1, <4>1
    <3>2. CASE c = x /\ own'[c] = hist.copies + 1
      BY <1>0, <2>1, <3>2
    <3> QED
      BY <1>1, <3>1, <3>2
  <2>3. hist.copies + 1 <= MaxCopies
    BY <1>0, <1>1
  <2> QED
    BY <1>1, <2>1, <2>2, <2>3 DEF Makers
<1>2. CASE UserCopies
  <2> DEFINE x == "android"
  <2>1. x = "android" /\ UserCopies
    BY <1>2
  <2>2. own' = own /\ x \in DOMAIN Text
    BY <1>2, Copiers DEF UserCopies, xVars
  <2> HIDE DEF x
  <2>3. hist.copies < MaxCopies /\ hist'.by = Append(hist.by, x) /\ hist'.copies = hist.copies + 1
    BY <2>1, CopyEffect
  <2> QED
    BY <1>1, <2>2, <2>3
<1>3. ASSUME NEW c \in Clients, ClientCopies(c) PROVE Makers'
  <2>1. own' = [own EXCEPT ![c] = hist.copies + 1]
    BY <1>3 DEF ClientCopies, NewCopy
  <2>2. \A y \in Clients : own'[y] = own[y] \/ (y = c /\ own'[y] = hist.copies + 1)
    BY <1>0, <2>1
  <2>3. hist.copies < MaxCopies /\ hist'.by = Append(hist.by, c) /\ hist'.copies = hist.copies + 1
    BY <1>3, CopyEffect
  <2>4. c \in DOMAIN Text
    BY Copiers
  <2> QED
    BY <1>1, <2>2, <2>3, <2>4
<1>4. CASE ~UserCopies /\ \A c \in Clients : ~ClientCopies(c)
  <2>1. own' = own /\ hist'.by = hist.by /\ hist'.copies = hist.copies
    BY <1>4, OwnKept, StepOfHistory
  <2> QED
    BY <2>1 DEF Makers
<1> QED
  BY <1>2, <1>3, <1>4

LEMMA RightGrows ==
  ASSUME Typed, Makers, [Next]_vars
  PROVE  /\ \A d : Right(d, hist.by) => Right(d, hist'.by)
         /\ \A q : MessagesRight(q, hist.by) => MessagesRight(q, hist'.by)
         /\ \A q : TokensRight(q, hist.by) => TokensRight(q, hist'.by)
<1>0. hist.by \in Seq(DOMAIN Text)
  BY DEF Makers
<1>1. ASSUME NEW x \in DOMAIN Text, hist'.by = Append(hist.by, x)
      PROVE  /\ \A d : Right(d, hist.by) => Right(d, hist'.by)
             /\ \A q : MessagesRight(q, hist.by) => MessagesRight(q, hist'.by)
             /\ \A q : TokensRight(q, hist.by) => TokensRight(q, hist'.by)
  BY <1>0, <1>1, StaysRight
<1>2. CASE UserCopies
  <2> DEFINE x == "android"
  <2>1. x = "android" /\ UserCopies /\ x \in DOMAIN Text
    BY <1>2, Copiers
  <2> HIDE DEF x
  <2>2. hist'.by = Append(hist.by, x)
    BY <2>1, CopyEffect
  <2> QED
    BY <1>1, <2>1, <2>2
<1>3. CASE \E c \in Clients : ClientCopies(c)
  <2>1. PICK c \in Clients : ClientCopies(c)
    BY <1>3
  <2>2. hist'.by = Append(hist.by, c) /\ c \in DOMAIN Text
    BY <2>1, Copiers, CopyEffect
  <2> QED
    BY <1>1, <2>2
<1>4. CASE hist'.by = hist.by
  BY <1>4, Zenon
<1> QED
  BY <1>2, <1>3, <1>4, StepOfHistory

-----------------------------------------------------------------------------
(* The queues. *)

LEMMA MessageAppended ==
  ASSUME NEW by, NEW q \in Seq(Ups), NEW m \in Ups, MessagesRight(q, by), m.kind = "send" => Right(m.data, by)
  PROVE  MessagesRight(Append(q, m), by)
<1>1. /\ DOMAIN Append(q, m) = 1..(Len(q) + 1) /\ DOMAIN q = 1..Len(q) /\ Len(q) \in Nat
      /\ Append(q, m)[Len(q) + 1] = m /\ \A i \in 1..Len(q) : Append(q, m)[i] = q[i]
  BY AppendProperties, LenProperties
<1>2. \A i \in 1..(Len(q) + 1) : i = Len(q) + 1 \/ i \in 1..Len(q)
  BY <1>1
<1> HIDE DEF MessagesRight
<1> QED
  BY <1>1, <1>2, Zenon DEF MessagesRight

LEMMA MessageTaken ==
  ASSUME NEW by, NEW q \in Seq(Ups), q # <<>>, MessagesRight(q, by)
  PROVE  /\ MessagesRight(Tail(q), by) /\ (Head(q).kind = "send" => Right(Head(q).data, by))
         /\ Head(q) \in Ups
<1>1. /\ Head(q) = q[1] /\ 1 \in DOMAIN q
      /\ \A i \in DOMAIN Tail(q) : i + 1 \in DOMAIN q /\ Tail(q)[i] = q[i + 1]
  BY TailOf
<1>2. q[1] \in Ups
  BY <1>1
<1> QED
  BY <1>1, <1>2, Zenon DEF MessagesRight

LEMMA TokensLeft ==
  ASSUME NEW by, NEW q \in Seq(Tokens), NEW m \in Nat \ {0}, TokensRight(q, by)
  PROVE  TokensRight(SubSeq(q, m, Len(q)), by)
<1> DEFINE r == SubSeq(q, m, Len(q))
<1>1. /\ r \in Seq(Tokens)
      /\ Len(r) = IF m <= Len(q) THEN Len(q) - m + 1 ELSE 0
      /\ \A i \in 1..Len(r) : r[i] = q[m + i - 1]
  BY RestOfStream
<1> HIDE DEF r
<1>2. DOMAIN q = 1..Len(q) /\ DOMAIN r = 1..Len(r) /\ Len(q) \in Nat
  BY <1>1, LenProperties
<1>3. \A i \in DOMAIN r : m + i - 1 \in DOMAIN q /\ r[i] = q[m + i - 1]
  BY <1>1, <1>2
<1>4. TokensRight(r, by)
  BY <1>3, Zenon DEF TokensRight
<1> QED
  BY <1>4 DEF r

LEMMA TokensJoined ==
  ASSUME NEW by, NEW s \in Seq(Tokens), NEW t \in Seq(Tokens), TokensRight(s, by), TokensRight(t, by)
  PROVE  TokensRight(s \o t, by)
<1>1. PICK r : r = s \o t
  OBVIOUS
<1>2. ElementsFrom(r, s, t)
  BY <1>1, ConcatElements
<1>3. TokensRight(r, by)
  BY <1>2, Zenon DEF ElementsFrom, TokensRight
<1> QED
  BY <1>1, <1>3

LEMMA TokensOfEvent ==
  ASSUME NEW by, NEW ev \in {"send", "request"}, NEW d \in Copies, Right(d, by)
  PROVE  TokensRight(Head1(ev, d), by) /\ TokensRight(Payload(d), by)
<1>1. TokensRight(Payload(d), by)
  BY DEF TokensRight, Payload
<1>2. DOMAIN Head1(ev, d) = 1..2
  BY DEF Head1
<1>3. Head1(ev, d)[1] = [kind |-> "type", ev |-> ev, data |-> d] /\ Head1(ev, d)[2] = [kind |-> "rest"]
  BY DEF Head1
<1>4. Head1(ev, d)[1].data = d /\ Head1(ev, d)[2].kind = "rest"
  BY <1>3
<1>5. \A i \in 1..2 : i = 1 \/ i = 2
  OBVIOUS
<1>6. TokensRight(Head1(ev, d), by)
  BY <1>2, <1>4, <1>5 DEF TokensRight
<1> QED
  BY <1>1, <1>6

-----------------------------------------------------------------------------
(* Every copy stays right, action by action. *)

LEMMA AndroidCopyRight ==
  ASSUME Typed, Makers, UserCopies
  PROVE  Right(clip', hist'.by)
<1> DEFINE n == hist.copies + 1
           x == "android"
<1>1. /\ hist.copies \in Nat /\ hist.by \in Seq(DOMAIN Text) /\ Len(hist.by) = hist.copies
      /\ MaxCopies \in Nat
  BY TextAssumption DEF Typed, HistTyped, Makers
<1>2. x \in DOMAIN Text /\ x = "android" /\ x \notin Clients
  BY Copiers
<1> HIDE DEF x
<1>3. hist.copies < MaxCopies /\ hist'.by = Append(hist.by, x)
  BY <1>2, CopyEffect
<1>4. n \in 1..MaxCopies /\ n \in 1..Len(hist'.by) /\ hist'.by[n] = x
  BY <1>1, <1>2, <1>3
<1>5. clip'.id = n /\ clip'.bytes = Utf8Text[x][n]
  BY <1>2 DEF UserCopies, NewCopy, Copy
<1>6. AllDecodable(Text[x][n])
  BY <1>2, <1>4, TextAssumption
<1>7. Utf8Text[x][n] = ExpectedUtf8[x][n]
  <2> HIDE DEF n
  <2> QED
    BY <1>2, <1>4, ExpectedIsConverted
<1>8. Made(x, n, clip'.bytes)
  BY <1>5, <1>6, <1>7 DEF Made
<1> HIDE DEF n
<1> QED
  BY <1>4, <1>5, <1>8 DEF Right

LEMMA NextClipRight == Typed /\ TextInv /\ [Next]_vars => Right(clip', hist'.by)
<1> SUFFICES ASSUME Typed, TextInv, [Next]_vars PROVE Right(clip', hist'.by)
  OBVIOUS
<1>1. CASE UNCHANGED clip
  BY <1>1, RightGrows DEF TextInv
<1>2. CASE UserCopies
  BY <1>2, AndroidCopyRight DEF TextInv
<1>3. CASE ActivityReadsEvent
  <2>1. CASE \E rest \in Nat \ {0} : TakesText(down[1].data, rest)
    <3> DEFINE d == down[1].data
    <3>1. Len(down) >= 2 /\ down[1].kind = "type" /\ d \in Copies
      BY <1>3, ReadEffect
    <3>2. 1 \in DOMAIN down
      BY <3>1 DEF Typed
    <3>3. Right(d, hist.by)
      BY <3>1, <3>2 DEF TextInv, TokensRight
    <3>4. Right(d, hist'.by)
      BY <3>3, RightGrows DEF TextInv
    <3>5. clip'.id = d.id /\ clip'.bytes = d.bytes
      BY <2>1, <3>1 DEF TakesText, SetClipboardText, Copies
    <3> QED
      BY <3>4, <3>5 DEF Right
  <2>2. CASE DropsEmpty \/ AnswersRequest
    BY <1>1, <2>2 DEF DropsEmpty, AnswersRequest
  <2> QED
    BY <1>3, <2>1, <2>2, ReadEffect
<1>4. CASE GraceEnds \/ HandleClipboardChange \/ FocusChanged \/ ReloadPreferences
             \/ Connect \/ Disconnect \/ ServerReads \/ Main \/ ActivityReadsGarbage \/ UNCHANGED vars
  BY <1>1, <1>4
  DEF GraceEnds, HandleClipboardChange, FocusChanged, ReloadPreferences, Connect, Main,
      HandleClipboardAnnounce, HandleClipboardData, Disconnect, ServerReads, ActivityReadsGarbage, vars, androidVars
<1>5. CASE (\E t \in Targets : Paste(t)) \/ (\E c \in Clients : ClientCopies(c)) \/ (\E a \in asked : ClientAnswers(a))
  BY <1>1, <1>5 DEF Paste, ClientCopies, ClientAnswers, androidVars
<1> QED
  BY <1>2, <1>3, <1>4, <1>5 DEF Next, Activity

LEMMA NextCacheRight == Typed /\ TextInv /\ [Next]_vars => (cachedData' # NoData => Right(cachedData', hist'.by))
<1> SUFFICES ASSUME Typed, TextInv, [Next]_vars, cachedData' # NoData PROVE Right(cachedData', hist'.by)
  OBVIOUS
<1>1. CASE UNCHANGED cachedData
  BY <1>1, RightGrows DEF TextInv
<1>2. CASE HandleClipboardAnnounce
  BY <1>2 DEF HandleClipboardAnnounce, CacheAfterAnnounce
<1>3. CASE HandleClipboardData
  <2>1. work # <<>> /\ Head(work).kind = "send" /\ cachedData' = Head(work).data
    BY <1>3 DEF HandleClipboardData
  <2>2. Right(cachedData', hist.by)
    BY <2>1, MessageTaken DEF Typed, TextInv
  <2> QED
    BY <2>2, RightGrows DEF TextInv
<1>4. CASE UserCopies \/ GraceEnds \/ HandleClipboardChange \/ FocusChanged \/ ReloadPreferences
             \/ Connect \/ Disconnect \/ ServerReads \/ Activity \/ UNCHANGED vars
  BY <1>1, <1>4
  DEF UserCopies, GraceEnds, HandleClipboardChange, FocusChanged, ReloadPreferences, Connect,
      Disconnect, ServerReads, Activity, ActivityReadsEvent, ActivityReadsGarbage, vars, xVars
<1>5. CASE (\E t \in Targets : Paste(t)) \/ (\E c \in Clients : ClientCopies(c)) \/ (\E a \in asked : ClientAnswers(a))
  BY <1>1, <1>5 DEF Paste, ClientCopies, ClientAnswers
<1> QED
  BY <1>2, <1>3, <1>4, <1>5 DEF Next, Main

LEMMA NextWorkRight == Typed /\ TextInv /\ [Next]_vars => MessagesRight(work', hist'.by)
<1> SUFFICES ASSUME Typed, TextInv, [Next]_vars PROVE MessagesRight(work', hist'.by)
  OBVIOUS
<1>0. work \in Seq(Ups) /\ up \in Seq(Ups) /\ MessagesRight(work, hist.by) /\ MessagesRight(up, hist.by)
  BY DEF Typed, TextInv
<1>1. SUFFICES MessagesRight(work', hist.by)
  BY RightGrows DEF TextInv
<1>2. CASE UNCHANGED work
  BY <1>0, <1>2
<1>3. CASE Main
  <2>1. work # <<>> /\ work' = Tail(work)
    BY <1>3 DEF Main, HandleClipboardAnnounce, HandleClipboardData
  <2> QED
    BY <1>0, <2>1, MessageTaken
<1>4. CASE ServerReads
  <2>1. up # <<>> /\ (work' = Append(work, Head(up)) \/ work' = work)
    BY <1>4 DEF ServerReads, QueueWorkProc
  <2>2. Head(up) \in Ups /\ (Head(up).kind = "send" => Right(Head(up).data, hist.by))
    BY <1>0, <2>1, MessageTaken
  <2>3. MessagesRight(Append(work, Head(up)), hist.by)
    BY <1>0, <2>2, MessageAppended
  <2> QED
    BY <1>0, <2>1, <2>3
<1>5. CASE UserCopies \/ GraceEnds \/ HandleClipboardChange \/ FocusChanged \/ ReloadPreferences
             \/ Connect \/ Disconnect \/ Activity \/ UNCHANGED vars
  BY <1>2, <1>5
  DEF UserCopies, GraceEnds, HandleClipboardChange, FocusChanged, ReloadPreferences, Connect,
      Disconnect, Activity, ActivityReadsEvent, ActivityReadsGarbage, vars, xVars
<1>6. CASE (\E t \in Targets : Paste(t)) \/ (\E c \in Clients : ClientCopies(c)) \/ (\E a \in asked : ClientAnswers(a))
  BY <1>2, <1>6 DEF Paste, ClientCopies, ClientAnswers
<1> QED
  BY <1>3, <1>4, <1>5, <1>6 DEF Next

LEMMA NextUpRight == Typed /\ TextInv /\ [Next]_vars => MessagesRight(up', hist'.by)
<1> SUFFICES ASSUME Typed, TextInv, [Next]_vars PROVE MessagesRight(up', hist'.by)
  OBVIOUS
<1>0. up \in Seq(Ups) /\ MessagesRight(up, hist.by) /\ Right(clip, hist.by)
  BY DEF Typed, TextInv
<1>1. SUFFICES MessagesRight(up', hist.by)
  BY RightGrows DEF TextInv
<1>2. CASE UNCHANGED up
  BY <1>0, <1>2
<1>3. ASSUME NEW m \in Ups, m.kind # "send", up' \in {up, Append(up, m)} PROVE MessagesRight(up', hist.by)
  <2>1. MessagesRight(Append(up, m), hist.by)
    BY <1>0, <1>3, MessageAppended
  <2> QED
    BY <1>0, <1>3, <2>1
<1>4. ASSUME NEW v, ViewTyped(v), Announce(clip, v) PROVE MessagesRight(up', hist.by)
  <2>1. up' = up \/ (up' \in {up, Append(up, Announcement)} /\ Announcement \in Ups)
    BY <1>4, AnnounceEffect
  <2>2. Announcement.kind # "send"
    BY DEF Announcement
  <2> QED
    BY <1>2, <1>3, <2>1, <2>2
<1>5. CASE HandleClipboardChange
  BY <1>4, <1>5 DEF HandleClipboardChange, Typed
<1>6. CASE FocusChanged
  BY <1>2, <1>4, <1>6, FocusEffect, FocusTyped
<1>7. CASE ReloadPreferences
  <2> DEFINE m == [kind |-> "enable", on |-> ~view.sync]
  <2>1. m \in Ups /\ m.kind # "send"
    <3>1. (~view.sync) \in BOOLEAN
      OBVIOUS
    <3> QED
      BY <3>1 DEF Ups
  <2>2. up' \in {up, Append(up, m)}
    BY <1>7 DEF ReloadPreferences, Send
  <2> HIDE DEF m
  <2> QED
    BY <1>3, <2>1, <2>2
<1>8. CASE Connect
  <2>1. up' = <<[kind |-> "enable", on |-> view.sync]>>
    BY <1>8 DEF Connect
  <2> QED
    BY <2>1 DEF MessagesRight
<1>9. CASE Disconnect
  <2>1. up' = <<>>
    BY <1>9 DEF Disconnect
  <2> QED
    BY <2>1 DEF MessagesRight
<1>10. CASE ActivityReadsEvent
  <2>1. CASE \E rest \in Nat \ {0} : TakesText(down[1].data, rest)
    BY <1>2, <2>1 DEF TakesText
  <2>2. CASE DropsEmpty
    BY <1>2, <2>2 DEF DropsEmpty
  <2>3. ASSUME NEW d \in {NoText, clip}, up' = Append(up, [kind |-> "send", data |-> d])
        PROVE  MessagesRight(up', hist.by)
    <3> DEFINE m == [kind |-> "send", data |-> d]
    <3>1. m \in Ups /\ m.data = d
      BY SpecialCopies DEF Ups, Typed
    <3>2. Right(d, hist.by)
      BY <1>0, NothingIsRight
    <3> HIDE DEF m
    <3>3. MessagesRight(Append(up, m), hist.by)
      BY <1>0, <3>1, <3>2, MessageAppended
    <3> QED
      BY <2>3, <3>3 DEF m
  <2>4. CASE AnswersRequest
    BY <1>2, <2>3, <2>4 DEF AnswersRequest
  <2> QED
    BY <1>10, <2>1, <2>2, <2>4, ReadEffect
<1>11. CASE ServerReads
  <2>1. up # <<>> /\ up' = Tail(up)
    BY <1>11 DEF ServerReads
  <2> QED
    BY <1>0, <2>1, MessageTaken
<1>12. CASE UserCopies \/ GraceEnds \/ Main \/ ActivityReadsGarbage \/ UNCHANGED vars
  BY <1>2, <1>12
  DEF UserCopies, GraceEnds, Main, HandleClipboardAnnounce, HandleClipboardData, ActivityReadsGarbage, vars
<1>13. CASE (\E t \in Targets : Paste(t)) \/ (\E c \in Clients : ClientCopies(c)) \/ (\E a \in asked : ClientAnswers(a))
  BY <1>2, <1>13 DEF Paste, ClientCopies, ClientAnswers
<1> QED
  BY <1>5, <1>6, <1>7, <1>8, <1>9, <1>10, <1>11, <1>12, <1>13 DEF Next, Activity

\* What a client answers is the text it copied.
LEMMA ReceivedRight ==
  ASSUME Typed, Makers, NEW c \in Clients, own[c] > 0, NEW t \in Offers[c]
  PROVE  \/ ReceivedText(c, t) = <<>>
         \/ \E d \in Copies : ReceivedText(c, t) = <<d>> /\ Right(d, hist.by)
<1> DEFINE n == own[c]
           latin == lorieLatin1ToUTF8(lorieConvertLF(Text[c][n]))
           utf == lorieConvertLF(Utf8Text[c][n])
<1>1. /\ n \in 1..hist.copies /\ hist.by[n] = c /\ n \in 1..MaxCopies /\ n \in Nat
      /\ n \in 1..Len(hist.by)
  <2>1. hist.copies \in Nat /\ Len(hist.by) = hist.copies /\ hist.copies <= MaxCopies
    BY DEF Makers, Typed, HistTyped
  <2>2. MaxCopies \in Nat
    BY TextAssumption
  <2>3. n \in 1..hist.copies /\ hist.by[n] = c
    BY DEF Makers
  <2> HIDE DEF n
  <2> QED
    BY <2>1, <2>2, <2>3
<1>2. c \in DOMAIN Text /\ c # "android"
  BY Copiers
<1> HIDE DEF n
<1>3. /\ utf = ExpectedUtf8[c][n]
      /\ (\A i \in DOMAIN Text[c][n] : Text[c][n][i] < 256) => latin = ExpectedUtf8[c][n]
  BY <1>1, <1>2, ExpectedIsConverted
<1>4. utf \in Texts /\ latin \in Texts
  BY <1>1 DEF Texts
<1> HIDE DEF utf, latin
<1>5. ASSUME NEW b \in Texts, b = ExpectedUtf8[c][n], AllDecodable(Text[c][n])
      PROVE  Copy(n, b) \in Copies /\ Right(Copy(n, b), hist.by)
  <2>1. Copy(n, b) \in Copies /\ Copy(n, b).id = n /\ Copy(n, b).bytes = b
    BY <1>1 DEF Copy, Copies
  <2>2. Made(c, n, b)
    BY <1>5 DEF Made
  <2> QED
    BY <1>1, <2>1, <2>2 DEF Right
<1>6. CASE t = "STRING"
  <2>1. ReceivedText(c, t) = <<Copy(n, latin)>>
    BY <1>6 DEF ReceivedText, n, latin
  <2>2. AllDecodable(Text[c][n]) /\ \A i \in DOMAIN Text[c][n] : Text[c][n][i] < 256
    BY <1>1, <1>2, <1>6, TextAssumption
  <2> QED
    BY <1>3, <1>4, <1>5, <2>1, <2>2
<1>7. CASE t = "UTF8_STRING" /\ lorieCheckUTF8(Utf8Text[c][n])
  <2>1. ReceivedText(c, t) = <<Copy(n, utf)>>
    BY <1>7 DEF ReceivedText, n, utf
  <2>2. AllDecodable(Text[c][n])
    BY <1>1, <1>2, <1>7, TextAssumption
  <2> QED
    BY <1>3, <1>4, <1>5, <2>1, <2>2
<1>8. CASE t = "UTF8_STRING" /\ ~lorieCheckUTF8(Utf8Text[c][n])
  BY <1>8 DEF ReceivedText, n
<1>9. t \in Targets
  BY ClipboardAssumption
<1> QED
  BY <1>6, <1>7, <1>8, <1>9 DEF Targets

LEMMA AnswerRight ==
  ASSUME Typed, Makers, CopiersAsked, NEW a \in asked, ClientAnswers(a)
  PROVE  \/ UNCHANGED down
         \/ \E d \in Copies : Right(d, hist.by) /\ down' = down \o Head1("send", d) \o Payload(d)
<1> DEFINE r == ReceivedText(a.client, a.target)
<1>1. \/ UNCHANGED down
      \/ a.target \in Offers[a.client] /\ r # <<>> /\ down' = down \o Head1("send", r[1]) \o Payload(r[1])
  BY DEF ClientAnswers
<1>2. a.client \in Clients /\ own[a.client] > 0
  BY DEF Typed, CopiersAsked
<1>3. ASSUME a.target \in Offers[a.client], r # <<>>, down' = down \o Head1("send", r[1]) \o Payload(r[1])
      PROVE  \E d \in Copies : Right(d, hist.by) /\ down' = down \o Head1("send", d) \o Payload(d)
  <2>1. PICK d \in Copies : r = <<d>> /\ Right(d, hist.by)
    BY <1>2, <1>3, ReceivedRight
  <2>2. r[1] = d
    BY <2>1
  <2> HIDE DEF r
  <2>3. down' = down \o Head1("send", d) \o Payload(d)
    BY <1>3, <2>2, Zenon
  <2> QED
    BY <2>1, <2>3, Zenon
<1> QED
  BY <1>1, <1>3

LEMMA NextDownRight == Typed /\ CopiersAsked /\ TextInv /\ [Next]_vars => TokensRight(down', hist'.by)
<1> SUFFICES ASSUME Typed, CopiersAsked, TextInv, [Next]_vars PROVE TokensRight(down', hist'.by)
  OBVIOUS
<1>0. down \in Seq(Tokens) /\ TokensRight(down, hist.by)
  BY DEF Typed, TextInv
<1>1. SUFFICES TokensRight(down', hist.by)
  BY RightGrows DEF TextInv
<1>2. CASE UNCHANGED down
  BY <1>0, <1>2
<1>3. ASSUME NEW m \in Nat \ {0}, down' = SubSeq(down, m, Len(down)) PROVE TokensRight(down', hist.by)
  BY <1>0, <1>3, TokensLeft
<1>4. CASE ActivityReadsEvent
  <2>1. CASE \E rest \in Nat \ {0} : TakesText(down[1].data, rest)
    BY <1>3, <2>1 DEF TakesText
  <2>2. CASE DropsEmpty \/ AnswersRequest
    <3>1. down' = SubSeq(down, 3, Len(down)) /\ 3 \in Nat \ {0}
      BY <2>2 DEF DropsEmpty, AnswersRequest
    <3> QED
      BY <1>3, <3>1
  <2> QED
    BY <1>4, <2>1, <2>2, ReadEffect
<1>5. CASE ActivityReadsGarbage
  <2>1. down' = SubSeq(down, 3, Len(down)) /\ 3 \in Nat \ {0}
    BY <1>5 DEF ActivityReadsGarbage
  <2> QED
    BY <1>3, <2>1
<1>6. CASE Disconnect
  <2>1. down' = <<>>
    BY <1>6 DEF Disconnect
  <2> QED
    BY <2>1 DEF TokensRight
<1>7. ASSUME NEW ev \in {"send", "request"}, NEW d \in Copies, Right(d, hist.by)
      PROVE  /\ TokensRight(down \o Head1(ev, d), hist.by)
             /\ TokensRight((down \o Head1(ev, d)) \o Payload(d), hist.by)
  <2>1. PICK h \in Seq(Tokens), p \in Seq(Tokens) : h = Head1(ev, d) /\ p = Payload(d)
    BY EventTokens
  <2>2. TokensRight(h, hist.by) /\ TokensRight(p, hist.by)
    BY <1>7, <2>1, TokensOfEvent
  <2>3. PICK q \in Seq(Tokens) : q = down \o h
    BY <1>0, <2>1, ConcatProperties
  <2>4. TokensRight(q, hist.by)
    BY <1>0, <2>2, <2>3, TokensJoined
  <2>5. TokensRight(q \o p, hist.by)
    BY <2>2, <2>4, TokensJoined
  <2> QED
    BY <2>1, <2>3, <2>4, <2>5, Zenon
<1>8. ASSUME NEW t \in Targets, Paste(t) PROVE TokensRight(down', hist.by)
  <2>1. UNCHANGED down \/ down' = down \o Head1("request", NoText)
    BY <1>8 DEF Paste
  <2>2. TokensRight(down \o Head1("request", NoText), hist.by)
    BY <1>7, NothingIsRight, SpecialCopies
  <2> QED
    BY <1>2, <2>1, <2>2
<1>9. ASSUME NEW a \in asked, ClientAnswers(a) PROVE TokensRight(down', hist.by)
  <2>1. CASE UNCHANGED down
    BY <1>2, <2>1
  <2>2. ASSUME NEW d \in Copies, Right(d, hist.by), down' = down \o Head1("send", d) \o Payload(d)
        PROVE  TokensRight(down', hist.by)
    BY <1>7, <2>2
  <2> QED
    BY <1>9, <2>1, <2>2, AnswerRight DEF TextInv
<1>10. CASE UserCopies \/ GraceEnds \/ HandleClipboardChange \/ FocusChanged \/ ReloadPreferences
              \/ Connect \/ ServerReads \/ Main \/ UNCHANGED vars
  BY <1>2, <1>10
  DEF UserCopies, GraceEnds, HandleClipboardChange, FocusChanged, ReloadPreferences, Connect,
      ServerReads, Main, HandleClipboardAnnounce, HandleClipboardData, vars
<1>11. CASE \E c \in Clients : ClientCopies(c)
  BY <1>2, <1>11 DEF ClientCopies
<1> QED
  BY <1>4, <1>5, <1>6, <1>8, <1>9, <1>10, <1>11 DEF Next, Activity

LEMMA PasteIsRight ==
  ASSUME NEW by, NEW d, Right(d, by), NEW p
  PROVE  PastedRight(Pasted(d, p), by)
<1>1. /\ Pasted(d, p).data = d /\ Pasted(d, p).target = p.target
      /\ Pasted(d, p).bytes = Converted(d, p.target)
  BY DEF Pasted
<1> QED
  BY <1>1 DEF PastedRight

LEMMA NextPastedRight == Typed /\ TextInv /\ [Next]_vars => PastedRight(hist'.pasted, hist'.by)
<1> SUFFICES ASSUME Typed, TextInv, [Next]_vars PROVE PastedRight(hist'.pasted, hist'.by)
  OBVIOUS
<1>0. HistTyped(hist) /\ Makers /\ PastedRight(hist.pasted, hist.by)
  BY DEF Typed, TextInv
<1>1. CASE hist'.pasted = hist.pasted
  BY <1>0, <1>1, RightGrows DEF PastedRight
<1>2. CASE hist'.pasted = NothingPasted
  BY <1>2, NothingIsRight
<1>3. ASSUME NEW d, Right(d, hist.by), NEW p, hist'.pasted = Pasted(d, p) PROVE PastedRight(hist'.pasted, hist'.by)
  <2>1. Right(d, hist'.by)
    BY <1>0, <1>3, RightGrows
  <2> QED
    BY <1>3, <2>1, PasteIsRight
<1>4. CASE UserCopies
  <2> DEFINE x == "android"
  <2>1. x = "android" /\ UserCopies
    BY <1>4
  <2> HIDE DEF x
  <2> QED
    BY <1>2, <2>1, CopyEffect
<1>5. CASE \E c \in Clients : ClientCopies(c)
  BY <1>2, <1>5, CopyEffect
<1>6. CASE HandleClipboardData
  <2>1. /\ work # <<>> /\ Head(work).kind = "send"
        /\ hist' = [hist EXCEPT !.dropped = FALSE,
                                !.pasted = IF pending = <<>> THEN hist.pasted ELSE Pasted(Head(work).data, Head(pending))]
    BY <1>6 DEF HandleClipboardData
  <2>2. hist'.pasted = IF pending = <<>> THEN hist.pasted ELSE Pasted(Head(work).data, Head(pending))
    BY <1>0, <2>1 DEF HistTyped, HistFields
  <2>3. Right(Head(work).data, hist.by)
    BY <2>1, MessageTaken DEF Typed, TextInv
  <2> QED
    BY <1>1, <1>3, <2>2, <2>3
<1>7. ASSUME NEW t \in Targets, Paste(t) PROVE PastedRight(hist'.pasted, hist'.by)
  <2>1. CASE PasteCached(t)
    BY <1>3, <2>1 DEF PasteCached, TextInv
  <2>2. CASE PasteWaits(t)
    BY <1>1, <2>2 DEF PasteWaits
  <2> QED
    BY <1>7, <2>1, <2>2, TypedPaste
<1> QED
  BY <1>1, <1>4, <1>5, <1>6, <1>7, StepOfHistory

LEMMA NextText == Typed /\ CopiersAsked /\ TextInv /\ [Next]_vars => TextInv'
<1> SUFFICES ASSUME Typed, CopiersAsked, TextInv, [Next]_vars PROVE TextInv'
  OBVIOUS
<1>1. Makers'
  BY NextMakers DEF TextInv
<1>2. Right(clip', hist'.by) /\ (cachedData' # NoData => Right(cachedData', hist'.by))
  BY NextClipRight, NextCacheRight
<1>3. MessagesRight(up', hist'.by) /\ MessagesRight(work', hist'.by) /\ TokensRight(down', hist'.by)
  BY NextUpRight, NextWorkRight, NextDownRight
<1>4. PastedRight(hist'.pasted, hist'.by)
  BY NextPastedRight
<1> QED
  BY <1>1, <1>2, <1>3, <1>4 DEF TextInv

LEMMA TextInvShows == Typed /\ TextInv => TextIntact
<1> SUFFICES ASSUME Typed, TextInv PROVE TextIntact
  OBVIOUS
<1>1. /\ hist.copies \in Nat /\ MaxCopies \in Nat /\ hist.copies <= MaxCopies
      /\ hist.by \in Seq(DOMAIN Text) /\ Len(hist.by) = hist.copies
  BY TextAssumption DEF Typed, HistTyped, TextInv, Makers
<1>2. \A i \in 1..Len(hist.by) : hist.by[i] \in DOMAIN Text /\ i \in 1..MaxCopies /\ i # 0
  BY <1>1
<1>3. ASSUME NEW d, Right(d, hist.by)
      PROVE  Shows(d, d.bytes, ExpectedUtf8) /\ Shows(d, lorieUtf8ToLatin1(d.bytes), ExpectedLatin1)
  <2>1. CASE d.id = 0 /\ d.bytes = <<>>
    BY <2>1, NothingShown DEF Shows
  <2>2. CASE d.id \in 1..Len(hist.by) /\ Made(hist.by[d.id], d.id, d.bytes)
    <3>1. PICK c \in DOMAIN Text, n \in 1..MaxCopies : c = hist.by[d.id] /\ n = d.id /\ n # 0
      BY <1>2, <2>2
    <3>2. d.bytes = ExpectedUtf8[c][n] /\ AllDecodable(Text[c][n])
      BY <2>2, <3>1 DEF Made
    <3>3. lorieUtf8ToLatin1(d.bytes) = ExpectedLatin1[c][n]
      BY <3>2, ExpectedIsConverted
    <3> QED
      BY <3>1, <3>2, <3>3 DEF Shows
  <2> QED
    BY <1>3, <2>1, <2>2 DEF Right
<1> DEFINE p == hist.pasted
<1>4. Right(clip, hist.by) /\ Right(p.data, hist.by) /\ p.bytes = Converted(p.data, p.target)
  BY DEF TextInv, PastedRight
<1>5. Shows(clip, clip.bytes, ExpectedUtf8)
  BY <1>3, <1>4
<1>6. Shows(p.data, p.bytes, IF p.target = "STRING" THEN ExpectedLatin1 ELSE ExpectedUtf8)
  <2>1. /\ Shows(p.data, p.data.bytes, ExpectedUtf8)
        /\ Shows(p.data, lorieUtf8ToLatin1(p.data.bytes), ExpectedLatin1)
    BY <1>3, <1>4
  <2>2. CASE p.target = "STRING"
    <3>1. p.bytes = lorieUtf8ToLatin1(p.data.bytes)
      BY <1>4, <2>2 DEF Converted
    <3> QED
      BY <2>1, <2>2, <3>1
  <2>3. CASE p.target # "STRING"
    <3>1. p.bytes = p.data.bytes
      BY <1>4, <2>3 DEF Converted
    <3> QED
      BY <2>1, <2>3, <3>1
  <2> QED
    BY <2>2, <2>3
<1> QED
  BY <1>5, <1>6 DEF TextIntact

\* A text keeps its characters on every way between the clients and Android
\* (lorieConvertLF, lorieLatin1ToUTF8, lorieCheckUTF8, lorieUtf8ToLatin1): only
\* carriage returns are lost, and what Latin-1 lacks becomes '?'.
THEOREM TextsAreIntact == Spec => []TextIntact
<1>1. Init => Typed /\ CopiersAsked /\ TextInv
  BY InitTyped, InitAgree, InitText DEF AgreeInv
<1>2. Typed /\ CopiersAsked /\ TextInv /\ [Next]_vars => (Typed /\ CopiersAsked /\ TextInv)'
  BY NextTyped, NextCopiersAsked, NextText
<1> QED
  BY <1>1, <1>2, TextInvShows, PTL DEF Spec
=============================================================================
