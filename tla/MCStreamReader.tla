--------------------------- MODULE MCStreamReader ---------------------------
(* StreamReader with bytes for TLC: 6 and 7 are CR and LF, and the size of *)
(* a chunk is one digit or two, all of them 0 and 5.  A keepalive's chunk  *)
(* is too short for the length its line seems to say, that of a packet     *)
(* long enough.                                                            *)
EXTENDS StreamReader

MCCRLF == <<6, 7>>
MCSizeLine == [n \in {3, 3 + SealedLength} |->
                  IF n = 3 THEN <<0>> \o MCCRLF ELSE <<0, 5>> \o MCCRLF]
=============================================================================
