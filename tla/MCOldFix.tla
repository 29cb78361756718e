------------------------------ MODULE MCOldFix ------------------------------
(* Instances of OldFix for TLC.                                            *)
EXTENDS OldFixProps, TLC

CONSTANTS a1, a2, v1, v2, x1

(* Two rows, two v3 containers and a third one.  Every nameMatch between   *)
(* rows and v3 containers; the third container is a stranger's that both   *)
(* rows match, or one that the takeover created for the first row.  Rows   *)
(* name any v3 container, even the same one, or none.                      *)
Hosts ==
    {[kind |-> (v1 :> "v3" @@ v2 :> "v3" @@ x1 :> k),
      alike |-> m \cup (Apps \X {x1}), exposed |-> {v1}] :
        k \in {"new", "other"}, m \in SUBSET (Apps \X {v1, v2})}

MCStarts ==
    {[host |-> h,
      rows |-> [a \in Apps |-> [cid |-> id[a], status |-> st,
                                port |-> FALSE, bot |-> TRUE]],
      name |-> [c \in Containers |-> IF h.kind[c] = "new" THEN a1 ELSE None],
      up |-> [c \in Containers |-> IF c = x1 THEN u ELSE "running"]] :
        h \in Hosts, id \in [Apps -> {v1, v2, None}],
        st \in {"running", "stopped"}, u \in {"running", "stopped"}}
=============================================================================
