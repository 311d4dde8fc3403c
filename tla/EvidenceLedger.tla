--------------------------- MODULE EvidenceLedger ---------------------------
(***************************************************************************)
(* What the dispatcher promises to whoever reads its records: three        *)
(* append-only logs, in which every notification cites one audit record    *)
(* that no other notification cites, and every advisory row names one      *)
(* notification that no other row names and repeats its zone, level and    *)
(* audit key.  Nothing is said of queues, threads, retries or crashes.     *)
(***************************************************************************)
EXTENDS Integers, Sequences

CONSTANT Decisions      \* what an audit record can attest to

VARIABLES
    evidence,   \* the audit records, in the order they became durable
    notices,    \* the notifications sent
    records     \* the advisory rows

logs == <<evidence, notices, records>>

Cited(k) == \E i \in DOMAIN notices : notices[i].key = k

Recorded(n) == \E i \in DOMAIN records : records[i].sns = n

Init ==
    /\ evidence = <<>>
    /\ notices = <<>>
    /\ records = <<>>

Attest ==
    /\ \E d \in Decisions : evidence' = Append(evidence, d)
    /\ UNCHANGED <<notices, records>>

Notify ==
    /\ \E k \in DOMAIN evidence :
          /\ ~Cited(k)
          /\ notices' = Append(notices,
                [unit |-> evidence[k].unit, zone |-> evidence[k].zone,
                 level |-> evidence[k].level, key |-> k])
    /\ UNCHANGED <<evidence, records>>

Record ==
    /\ \E n \in DOMAIN notices :
          /\ ~Recorded(n)
          /\ records' = Append(records,
                [zone |-> notices[n].zone, level |-> notices[n].level,
                 key |-> notices[n].key, sns |-> n])
    /\ UNCHANGED <<evidence, notices>>

Next == Attest \/ Notify \/ Record

Spec == Init /\ [][Next]_logs
=============================================================================
