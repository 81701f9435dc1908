---------------------------- MODULE MCClipboard ----------------------------
EXTENDS Clipboard

\* One client that only knows Latin-1, one that only knows UTF-8.  The texts
\* have characters at the limits of every encoded length; one is empty once
\* its carriage return is dropped, one is not valid.
MCOffers == [c \in Clients |-> {IF c = "latin" THEN "STRING" ELSE "UTF8_STRING"}]
MCText ==
  LET android == <<65, 233, 8364, 128512>>
      latin == <<127, 13, 128, 191, 192, 255>>
  IN  [android |-> <<android, android, android>>,
       latin |-> <<latin, <<13>>, latin>>,
       utf |-> <<<<128, 2047, 13, 2048, 65533>>, <<65536>>, <<2097152>>>>]
=============================================================================
