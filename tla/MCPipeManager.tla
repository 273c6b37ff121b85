--------------------------- MODULE MCPipeManager ---------------------------
(***************************************************************************)
(* Small instances of PipeManager for TLC.  A behaviour is either solo:    *)
(* one reader without deadlines, several writers, so that the pipe is a    *)
(* byte stream; or shared: several readers with and without deadlines,     *)
(* where bytes may go to any of them, and one writer.                      *)
(***************************************************************************)
EXTENDS PipeManager

CONSTANTS thePipe, theReader, theWriter

VARIABLE solo

mcVars == <<vars, solo>>

ActiveReaders == IF solo THEN {theReader} ELSE Readers
ActiveWriters == IF solo THEN Writers ELSE {theWriter}
Deadlines == IF solo THEN {FALSE} ELSE Timeouts
Reads == IF solo THEN ReadLengths ELSE {1}
Writes == IF solo THEN WriteLengths ELSE {2}

MCInit == Init /\ solo \in BOOLEAN

MCNext ==
    \/ \E p \in Pipes : CreatePipe(p) /\ UNCHANGED solo
    \/ \E p \in Pipes, e \in Ends : Close(p, e) /\ UNCHANGED solo
    \/ \E w \in ActiveWriters, p \in Pipes, n \in Writes, nb \in BOOLEAN :
          Write(w, p, n, nb) /\ UNCHANGED solo
    \/ \E r \in ActiveReaders, p \in Pipes, n \in Reads, timed \in Deadlines :
          Read(r, p, n, timed) /\ UNCHANGED solo
    \/ \E w \in Writers : WriteWake(w) /\ UNCHANGED solo
    \/ \E r \in Readers : ReadWake(r) /\ UNCHANGED solo
    \/ \E r \in Readers : ReadTimeout(r) /\ UNCHANGED solo
    \/ \E t \in Threads : SpuriousWake(t) /\ UNCHANGED solo

MCSpec == MCInit /\ [][MCNext]_mcVars
MCFairSpec == MCSpec /\ Fairness

\* The pipe as the byte stream it is for a solo reader; in a shared behaviour
\* the stream stays as it is before the pipe is made.
Stream == INSTANCE BytePipe WITH
    made <- solo /\ thePipe \in created,
    open <- IF solo THEN open[thePipe] ELSE {},
    sent <- IF solo THEN written[thePipe] ELSE 0,
    received <- IF solo THEN got[theReader][thePipe] ELSE <<>>,
    ended <- solo /\ ret[theReader] = [outcome |-> "eof", pipe |-> thePipe]

\* With one reader and no deadlines, the pipe implements the byte stream
\* BytePipe: accepted bytes reach the reader once each and in order, and end
\* of file is reported only after the last of them.
ImplementsByteStream == Stream!Spec
=============================================================================
