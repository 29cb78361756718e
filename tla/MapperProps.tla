----------------------------- MODULE MapperProps -----------------------------
(***************************************************************************)
(* What a plan promises about the rows it inserts and the containers it    *)
(* hands to takeover.                                                      *)
(***************************************************************************)
EXTENDS Mapper

Planned    == DOMAIN apps \cup DOMAIN dbs
Claim(r)   == IF r \in DOMAIN apps THEN apps[r].workload ELSE dbs[r].workload
RowPort(r) == IF r \in DOMAIN apps THEN apps[r].port ELSE dbs[r].public
Accepted   == pc \in {"insert", "insertDBs", "done"}

(* A row whose id stands on some container gets a container that shows the *)
(* id, wherever in the listing a container with a similar id comes first   *)
(* (mapper.go: "Full-id matches win").                                     *)
FullIdWins ==
    \A r \in Planned :
        (\E w \in Listed : r \in in.signals[w]) =>
            Claim(r) \in Listed /\ r \in in.signals[Claim(r)]

(* Two rows that claim one container (by a shared prefix) get through only *)
(* when it publishes nothing: otherwise their ports collide and the plan   *)
(* is refused.                                                             *)
SharedPublishesNothing ==
    \A r, s \in Planned :
        (r # s /\ Claim(r) = Claim(s) /\ Claim(r) # None) => DOMAIN in.forwards[Claim(r)] = {}

(* No two containers of an accepted plan bind one host port, and none      *)
(* binds a port of a row coolifygo had before.                             *)
BoundOnce ==
    Accepted =>
        \A r \in Planned : Binds(r) # 0 =>
            /\ Binds(r) \notin in.used
            /\ \A s \in Planned : Binds(s) = Binds(r) => s = r

(* The port a matched row advertises is the one its container will bind,   *)
(* and a container that is reachable on some host port stays reachable on  *)
(* its lowest: v3's bot flag cannot suppress it.                           *)
RowTellsBinding ==
    \A r \in Planned :
        Claim(r) # None =>
            /\ Binds(r) = RowPort(r)
            /\ DOMAIN in.forwards[Claim(r)] # {} =>
                   /\ Binds(r) \in DOMAIN in.forwards[Claim(r)]
                   /\ \A p \in DOMAIN in.forwards[Claim(r)] : Binds(r) =< p

(* What the completeness gate lets through leaves nobody unreachable: when *)
(* no container is an orphan, each one that published a port is inherited  *)
(* by exactly one row, and the container made for that row binds one of    *)
(* its ports (mapper.go: an unmatched one "would otherwise be destroyed    *)
(* when v3 is wiped").                                                     *)
ExposedInherited ==
    Accepted /\ orphans = {} =>
        \A w \in Listed : DOMAIN in.forwards[w] # {} =>
            \E r \in Planned :
                /\ Claim(r) = w /\ Binds(r) \in DOMAIN in.forwards[w]
                /\ \A s \in Planned \ {r} : Claim(s) # w

(* An application with a git source in v3 is inserted with the row of that *)
(* source, or its lost link was reported.                                  *)
LinkedOrWarned ==
    pc = "done" =>
        \A a \in DOMAIN rows :
            /\ in.src[a] # None => rows[a].git = in.src[a] \/ a \in warned
            /\ rows[a].git # None => rows[a].git \in linked

(* A host port of an application goes on leading to the container port it  *)
(* led to ("zero-config-drift", takeover.go).  It does not: the new        *)
(* container forwards to the port of the same number.                      *)
ForwardKept ==
    \A a \in DOMAIN apps :
        AppBinds(a) # 0 => ForwardsTo(a) = in.forwards[apps[a].workload][AppBinds(a)]
=============================================================================
