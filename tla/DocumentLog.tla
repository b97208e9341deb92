----------------------------- MODULE DocumentLog -----------------------------
(***************************************************************************)
(* What the document repository promises: every legal document owns a log  *)
(* of snapshots that only grows at its end and holds no snapshot twice.    *)
(* The version number of a snapshot is its place in the log.               *)
(***************************************************************************)
EXTENDS Naturals, Sequences

CONSTANTS Document, Snapshot

VARIABLE log

LogInit == log = [d \in Document |-> <<>>]

Publish(d, s) ==
    /\ \A n \in DOMAIN log[d] : log[d][n] # s
    /\ log' = [log EXCEPT ![d] = Append(@, s)]

LogNext == \E d \in Document, s \in Snapshot : Publish(d, s)

LogSpec == LogInit /\ [][LogNext]_log

===============================================================================
