---------------------------- MODULE MCPostDocker ----------------------------
(* Instances of PostDocker for TLC.                                        *)
EXTENDS PostDockerProps, TLC

CONSTANTS w1, w2, w3

(* One application and three databases over three v3 containers: every     *)
(* matching, injective or not, complete or with an orphan or an entry left *)
(* without a container; v3's containers all running, or the last stopped;  *)
(* data volumes all located, or the last container's on a bind mount.  The *)
(* first two containers are alike, so w2 is only claimed after w1.         *)
MCPlans ==
    [claim : {c \in [Entries -> Workloads \cup {None}] :
                 \A j \in Entries : c[j] = w2 => \E i \in Entries : i < j /\ c[i] = w1},
     running : {Workloads, {w1, w2}},
     vols : {Workloads, {w1, w2}}]

(* One application, then one database, both matched and running.           *)
ResumePlans ==
    {[claim |-> <<w1, w2>>, running |-> Workloads, vols |-> {w2}]}

(* A single database.                                                      *)
DatabasePlans ==
    {[claim |-> <<w1>>, running |-> Workloads, vols |-> {w1}]}
=============================================================================
