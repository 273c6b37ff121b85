------------------------------ MODULE BytePipe ------------------------------
(***************************************************************************)
(* What a pipe promises the one thread that reads it: a first-in first-out *)
(* byte stream.  `sent' counts the bytes accepted from writers and         *)
(* `received' lists those returned to the reader; bytes are numbered in    *)
(* the order in which they were accepted.  `ended' says that the reader's  *)
(* last read reported end of file.                                         *)
(***************************************************************************)
EXTENDS Integers, Sequences

VARIABLES made, open, sent, received, ended

bvars == <<made, open, sent, received, ended>>

Init ==
    /\ made = FALSE
    /\ open = {}
    /\ sent = 0
    /\ received = <<>>
    /\ ended = FALSE

\* Anything but a report of end of file may make the last one out of date.
Forget == ended' => ended

Make ==
    /\ ~made
    /\ made' = TRUE
    /\ open' = {"read", "write"}
    /\ Forget
    /\ UNCHANGED <<sent, received>>

\* Bytes are accepted only while both ends are open.
Put ==
    /\ open = {"read", "write"}
    /\ sent' \in Nat /\ sent' > sent
    /\ Forget
    /\ UNCHANGED <<made, open, received>>

\* The reader gets the next bytes: none skipped, none twice, in order.
Take ==
    /\ \E n \in 1..(sent - Len(received)) :
          received' = received \o [i \in 1..n |-> Len(received) + i]
    /\ Forget
    /\ UNCHANGED <<made, open, sent>>

Shut(end) ==
    /\ end \in open
    /\ open' = open \ {end}
    /\ Forget
    /\ UNCHANGED <<made, sent, received>>

\* End of file is reported when no write can follow and all was received.
End ==
    /\ "write" \notin open
    /\ Len(received) = sent
    /\ ended' = TRUE
    /\ UNCHANGED <<made, open, sent, received>>

Overlook ==
    /\ ended' = FALSE
    /\ UNCHANGED <<made, open, sent, received>>

Next == Make \/ Put \/ Take \/ Shut("read") \/ Shut("write") \/ End \/ Overlook

Spec == Init /\ [][Next]_bvars
=============================================================================
