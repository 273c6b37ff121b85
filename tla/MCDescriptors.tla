--------------------------- MODULE MCDescriptors ---------------------------
(***************************************************************************)
(* The VMs of the model-checked instances of Descriptors.                  *)
(***************************************************************************)
EXTENDS Descriptors

CONSTANTS t1, t2

\* max_open_fds set: pipes and PTYs, forks, exits and dispose.
Pipes == [limited |-> TRUE, fds |-> 3, pairs |-> 1, pids |-> {1, 2}, descs |-> 1..3,
          flockers |-> {}]

\* No VM-wide limit, so that a process's own table fills up.
FullTable == [limited |-> FALSE, fds |-> 3, pairs |-> 1, pids |-> {1}, descs |-> 1..3,
              flockers |-> {}]

\* Two threads in fd_flock on two files of one process.
Contended == [limited |-> FALSE, fds |-> 3, pairs |-> 0, pids |-> {1}, descs |-> 1..3,
              flockers |-> {t1, t2}]

\* A thread in fd_flock, and a file shared by a fork.
Forked == [limited |-> FALSE, fds |-> 2, pairs |-> 0, pids |-> {1, 2}, descs |-> 1..2,
           flockers |-> {t1}]

AllScenes == {Pipes, FullTable, Contended, Forked}
FlockScenes == {Forked}
=============================================================================
