----------------------------- MODULE NodeServer -----------------------------
(***************************************************************************)
(* The network thread of the node servers (node_server.cpp): which units   *)
(* each of them runs and what it answers.  The unit list is a chain of the *)
(* units in the order they were spawned, keyed by unit token.              *)
(***************************************************************************)
EXTENDS Network, Sequences, SequencesExt

CONSTANT
    Zone    \* node server -> the positions inside its global_bounding_box

ASSUME ZoneAssumption == Zone \in [Nodes -> SUBSET Positions]

VARIABLES
    unit_list,    \* node server -> the tokens of its units, oldest first
    unit_count

nodeVars == <<unit_list, unit_count>>

NodeTypeOK ==
    /\ unit_list \in [Nodes -> Seq(Token)]
    /\ unit_count \in [Nodes -> Nat]

NodeInit ==
    /\ unit_list = [n \in Nodes |-> << >>]
    /\ unit_count = [n \in Nodes |-> 0]

unitsOf(n) == ToSet(unit_list[n])

placeOf(n, t) == CHOOSE k \in DOMAIN unit_list[n] : unit_list[n][k] = t

\* "Double logout will give a positive answer": the unit need not be there.
onLogoutInternal(n, m) ==
    /\ m \in Arriving(n, "LogoutInternal")
    /\ IF m.token \in unitsOf(n)
       THEN /\ unit_list' = [unit_list EXCEPT ![n] = RemoveAt(@, placeOf(n, m.token))]
            /\ unit_count' = [unit_count EXCEPT ![n] = @ - 1]
       ELSE UNCHANGED nodeVars
    /\ SendTo([type |-> "LogoutInternalAnswer", to |-> Proxy,
               token |-> m.token])

\* MUTANT of onInitializePositionInternal: a repeated request spawns again.
MutantSpawnTwice(n, m) ==
    LET inside == m.position \in Zone[n]
    IN  /\ m \in Arriving(n, "InitializePositionInternal")
        /\ Len(unit_list[n]) < 4
        /\ IF inside
           THEN /\ unit_list' = [unit_list EXCEPT ![n] = Append(@, m.token)]
                /\ unit_count' = [unit_count EXCEPT ![n] = @ + 1]
           ELSE UNCHANGED nodeVars
        /\ SendTo([type |-> "InitializePositionInternalAnswer",
                   to |-> m.proxy_server, token |-> m.token,
                   node_server |-> AnyAddress(n), success |-> inside])

\* A unit is spawned if it is new and inside the zone; the answer is positive
\* also if it was there already.  It tells the end point the server has for
\* itself, node_server_end_point, and goes to the one in the request.
onInitializePositionInternal(n, m) ==
    LET present == m.token \in unitsOf(n)
        inside  == m.position \in Zone[n]
    IN  /\ m \in Arriving(n, "InitializePositionInternal")
        /\ IF ~present /\ inside
           THEN /\ unit_list' = [unit_list EXCEPT ![n] = Append(@, m.token)]
                /\ unit_count' = [unit_count EXCEPT ![n] = @ + 1]
           ELSE UNCHANGED nodeVars
        /\ SendTo([type |-> "InitializePositionInternalAnswer",
                   to |-> m.proxy_server, token |-> m.token,
                   node_server |-> AnyAddress(n), success |-> present \/ inside])

onUnitActionInternal(n, m) ==
    /\ m \in Arriving(n, "UnitActionInternal")
    /\ m.token \in unitsOf(n)
    /\ SendTo([type |-> "UnitActionInternalAnswer", to |-> Proxy,
               token |-> m.token])
    /\ UNCHANGED nodeVars

NodeNext ==
    \E n \in Nodes, m \in datagrams :
        \/ onLogoutInternal(n, m)
        \/ onInitializePositionInternal(n, m)
        \/ onUnitActionInternal(n, m)
=============================================================================
