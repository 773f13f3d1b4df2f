--------------------------- MODULE RoomRegistry ---------------------------
(***************************************************************************)
(* The cluster's index of one room: classroom/RoomRegistry.js.             *)
(*                                                                         *)
(* Any API task runs resolveNode for any caller.  Every Redis command is   *)
(* one step; a call keeps what it read in local variables across them.     *)
(* What a caller does with the answer is onJoin of                         *)
(* signaling/socketHandlers.js: the node checks the registry once more and *)
(* takes the room, or sends the caller back.                               *)
(***************************************************************************)
EXTENDS Naturals, FiniteSets

CONSTANTS
  Callers,        \* people opening the room; one resolveNode call each at a time
  Nodes,          \* SFU nodes
  None,           \* an absent key, a null
  Avoids,         \* the values of ?avoid= callers send
  Loads,          \* what a heartbeat may report: below maxRooms, or not
  MayDrain,       \* nodes that may be drained
  MayFail,        \* nodes that may die, or miss heartbeats for NODE_TTL_SEC
  RoomMayClose    \* the last person may leave, which closes the room

ASSUME NoneIsNew    == None \notin Nodes \cup {"open", "full", "draining"}
ASSUME AvoidsType   == Avoids \subseteq SUBSET Nodes
ASSUME LoadsType    == Loads \subseteq {"open", "full"}
ASSUME FaultsType   == MayDrain \subseteq Nodes /\ MayFail \subseteq Nodes
ASSUME MayCloseType == RoomMayClose \in BOOLEAN

VARIABLES
  room,      \* roomKey: the node this room is assigned to
  info,      \* nodeKey(n): "open", "full", "draining", or None once expired
  pool,      \* nodesKey: the set of node ids
  up,        \* nodes whose process is alive
  draining,  \* nodes whose isDraining() is true
  leaving,   \* nodes inside markNodeDraining, before its SREM
  here,      \* here[n]: callers who are in the room on node n
  releasing, \* nodes that closed the room and whose releaseRoom is under way
  astray,    \* history: nodes whose people lost the key, or came in without it
  tidying,   \* ids whose SREM listNodes has sent and not waited for
  call       \* each caller's resolveNode: where it is and what it read

redis == <<room, info, pool>>
nodeVars == <<up, draining, leaving>>
roomVars == <<here, releasing, astray>>
vars == <<redis, nodeVars, roomVars, tidying, call>>

Points == {"idle", "get", "check", "del", "ids", "infos", "set", "lost", "winner", "done"}
NodeOrNone == Nodes \cup {None}
Idle == [at |-> "idle", avoid |-> {}, seen |-> None, ids |-> {}, pick |-> None]

TypeOK ==
  /\ room \in NodeOrNone
  /\ info \in [Nodes -> {"open", "full", "draining", None}]
  /\ pool \subseteq Nodes
  /\ up \subseteq Nodes
  /\ draining \subseteq Nodes
  /\ leaving \subseteq Nodes
  /\ releasing \subseteq Nodes
  /\ astray \subseteq Nodes
  /\ tidying \subseteq Nodes
  /\ here \in [Nodes -> SUBSET Callers]
  /\ call \in [Callers -> [at : Points, avoid : SUBSET Nodes, seen : NodeOrNone,
                           ids : SUBSET Nodes, pick : NodeOrNone]]

Init ==
  /\ room = None
  /\ info = [n \in Nodes |-> "open"]
  /\ pool = Nodes
  /\ up = Nodes
  /\ draining = {}
  /\ leaving = {}
  /\ releasing = {}
  /\ astray = {}
  /\ tidying = {}
  /\ here = [n \in Nodes |-> {}]
  /\ call = [c \in Callers |-> Idle]

-----------------------------------------------------------------------------
(* Nodes                                                                   *)

(* heartbeat: SET nodeKey and SADD in one MULTI.                           *)
Heartbeat(n, load) ==
  /\ n \in up
  /\ info' = [info EXCEPT ![n] = IF n \in draining THEN "draining" ELSE load]
  /\ pool' = pool \cup {n}
  /\ UNCHANGED <<room, nodeVars, roomVars, tidying, call>>

(* A drain starts: isDraining() is true from here on.                      *)
StartDrain(n) ==
  /\ n \in (up \cap MayDrain) \ draining
  /\ draining' = draining \cup {n}
  /\ UNCHANGED <<redis, up, leaving, roomVars, tidying, call>>

(* markNodeDraining: the node's record, if it has one, is marked ...       *)
MarkNodeDraining(n) ==
  /\ n \in (up \cap draining) \ leaving
  /\ info' = [info EXCEPT ![n] = IF @ = None THEN None ELSE "draining"]
  /\ leaving' = leaving \cup {n}
  /\ UNCHANGED <<room, pool, up, draining, roomVars, tidying, call>>

(* ... and its id is taken out of the pool.                                *)
LeavePool(n) ==
  /\ n \in up \cap leaving
  /\ pool' = pool \ {n}
  /\ leaving' = leaving \ {n}
  /\ UNCHANGED <<room, info, up, draining, roomVars, tidying, call>>

(* NODE_TTL_SEC without a heartbeat.                                       *)
NodeExpires(n) ==
  /\ n \in MayFail
  /\ info[n] # None
  /\ info' = [info EXCEPT ![n] = None]
  /\ UNCHANGED <<room, pool, nodeVars, roomVars, tidying, call>>

(* The process dies, and every room and call of its own with it.           *)
NodeDies(n) ==
  /\ n \in up \cap MayFail
  /\ up' = up \ {n}
  /\ here' = [here EXCEPT ![n] = {}]
  /\ astray' = astray \ {n}
  /\ releasing' = releasing \ {n}
  /\ leaving' = leaving \ {n}
  /\ UNCHANGED <<redis, draining, tidying, call>>

-----------------------------------------------------------------------------
(* resolveNode                                                             *)

At(c, point) == call[c].at = point
Go(c, point) == call' = [call EXCEPT ![c].at = point]
Answer(c, n) == call' = [call EXCEPT ![c].at = "done", ![c].pick = n]

ResolveNode(c, avoid) ==
  /\ At(c, "idle")
  /\ \A n \in Nodes : c \notin here[n]
  /\ call' = [call EXCEPT ![c] = [Idle EXCEPT !.at = "get", !.avoid = avoid]]
  /\ UNCHANGED <<redis, nodeVars, roomVars, tidying>>

(* GET roomKey.                                                            *)
GetRoom(c) ==
  /\ At(c, "get")
  /\ call' = [call EXCEPT ![c].seen = room,
                          ![c].at = IF room = None \/ room \in call[c].avoid
                                    THEN "ids" ELSE "check"]
  /\ UNCHANGED <<redis, nodeVars, roomVars, tidying>>

(* Mutant of CheckNode: a full node counts as one that has disappeared.    *)
CheckNodeNotFull(c) ==
  /\ At(c, "check")
  /\ IF info[call[c].seen] \in {None, "full"} THEN Go(c, "del") ELSE Answer(c, call[c].seen)
  /\ UNCHANGED <<redis, nodeVars, roomVars, tidying>>

(* Mutant of CheckNode: the assignment is trusted, its node not looked up. *)
CheckNodeTrusting(c) ==
  /\ At(c, "check")
  /\ Answer(c, call[c].seen)
  /\ UNCHANGED <<redis, nodeVars, roomVars, tidying>>

(* GET nodeKey(existing): a node that is known is the answer.              *)
CheckNode(c) ==
  /\ At(c, "check")
  /\ IF info[call[c].seen] = None THEN Go(c, "del") ELSE Answer(c, call[c].seen)
  /\ UNCHANGED <<redis, nodeVars, roomVars, tidying>>

(* DEL roomKey, whatever it holds by now: history of who loses it.         *)
DelKey ==
  /\ room' = None
  /\ astray' = astray \cup {n \in Nodes : room = n /\ here[n] # {}}

(* The node has disappeared: its room is forgotten.                        *)
DelRoom(c) ==
  /\ At(c, "del")
  /\ DelKey
  /\ Go(c, "ids")
  /\ UNCHANGED <<info, pool, nodeVars, here, releasing, tidying>>

(* listNodes: SMEMBERS ...                                                 *)
ListIds(c) ==
  /\ At(c, "ids")
  /\ call' = [call EXCEPT ![c].ids = pool, ![c].at = "infos"]
  /\ UNCHANGED <<redis, nodeVars, roomVars, tidying>>

Candidates(c) == {n \in call[c].ids \ call[c].avoid : info[n] = "open"}

(* ... then MGET; an SREM is sent for the ids whose record expired.  The   *)
(* emptiest candidate is chosen; without one the call fails.               *)
ListInfos(c) ==
  /\ At(c, "infos")
  /\ tidying' = tidying \cup {n \in call[c].ids : info[n] = None}
  /\ \/ /\ Candidates(c) = {}
        /\ call' = [call EXCEPT ![c] = Idle]
     \/ \E n \in Candidates(c) : call' = [call EXCEPT ![c].pick = n, ![c].at = "set"]
  /\ UNCHANGED <<redis, nodeVars, roomVars>>

(* That SREM arrives, whether or not the node has registered again.        *)
Tidy(n) ==
  /\ n \in tidying
  /\ pool' = pool \ {n}
  /\ tidying' = tidying \ {n}
  /\ UNCHANGED <<room, info, nodeVars, roomVars, call>>

(* Mutant of SetNX: SET without NX.                                        *)
SetAlways(c) ==
  /\ At(c, "set")
  /\ room' = call[c].pick
  /\ Go(c, "done")
  /\ UNCHANGED <<info, pool, nodeVars, roomVars, tidying>>

(* SET roomKey chosen NX.                                                  *)
SetNX(c) ==
  /\ At(c, "set")
  /\ IF room = None THEN room' = call[c].pick /\ Go(c, "done")
                    ELSE room' = room /\ Go(c, "lost")
  /\ UNCHANGED <<info, pool, nodeVars, roomVars, tidying>>

(* Somebody else assigned it: GET roomKey, then GET nodeKey(actual).       *)
GetWinner(c) ==
  /\ At(c, "lost")
  /\ call' = [call EXCEPT ![c].seen = room, ![c].at = "winner"]
  /\ UNCHANGED <<redis, nodeVars, roomVars, tidying>>

CheckWinner(c) ==
  LET actual == call[c].seen IN
  /\ At(c, "winner")
  /\ Answer(c, IF actual # None /\ info[actual] # None THEN actual ELSE call[c].pick)
  /\ UNCHANGED <<redis, nodeVars, roomVars, tidying>>

-----------------------------------------------------------------------------
(* What the node the caller was sent to does (socketHandlers.js)           *)

(* onJoin: a room that is here admits everyone; a draining node, and one   *)
(* the registry contradicts, does not open it.                             *)
Admits(n) == here[n] # {} \/ (n \notin draining /\ room \in {None, n})

Join(c) ==
  LET n == call[c].pick IN
  /\ At(c, "done")
  /\ n \in up
  /\ Admits(n)
  /\ here' = [here EXCEPT ![n] = @ \cup {c}]
  /\ astray' = IF room = None THEN astray \cup {n} ELSE astray
  /\ call' = [call EXCEPT ![c] = Idle]
  /\ UNCHANGED <<redis, nodeVars, releasing, tidying>>

(* wrong_node, node_draining, or nobody answers.                           *)
SentBack(c) ==
  LET n == call[c].pick IN
  /\ At(c, "done")
  /\ ~(n \in up /\ Admits(n))
  /\ call' = [call EXCEPT ![c] = Idle]
  /\ UNCHANGED <<redis, nodeVars, roomVars, tidying>>

(* teardown: the last one out closes the room, and closeRoom goes on to    *)
(* releaseRoom ...                                                         *)
Leave(c, n) ==
  LET others == here[n] \ {c} IN
  /\ c \in here[n]
  /\ RoomMayClose \/ others # {}
  /\ here' = [here EXCEPT ![n] = others]
  /\ astray' = IF others = {} THEN astray \ {n} ELSE astray
  /\ releasing' = IF others = {} THEN releasing \cup {n} ELSE releasing
  /\ UNCHANGED <<redis, nodeVars, tidying, call>>

(* ... whose DEL does not look at what the key holds by then.              *)
ReleaseRoom(n) ==
  /\ n \in releasing
  /\ DelKey
  /\ releasing' = releasing \ {n}
  /\ UNCHANGED <<info, pool, nodeVars, here, tidying, call>>

Steps(c) ==
  \/ GetRoom(c) \/ CheckNode(c) \/ DelRoom(c) \/ ListIds(c) \/ ListInfos(c)
  \/ SetNX(c) \/ GetWinner(c) \/ CheckWinner(c) \/ Join(c) \/ SentBack(c)

Next ==
  \/ \E n \in Nodes :
       \/ \E load \in Loads : Heartbeat(n, load)
       \/ StartDrain(n) \/ MarkNodeDraining(n) \/ LeavePool(n)
       \/ NodeExpires(n) \/ NodeDies(n) \/ Tidy(n) \/ ReleaseRoom(n)
  \/ \E c \in Callers :
       \/ \E avoid \in Avoids : ResolveNode(c, avoid)
       \/ Steps(c)
       \/ \E n \in Nodes : Leave(c, n)

Spec == Init /\ [][Next]_vars

(* Redis and the nodes answer, so a call that was made goes on to its end. *)
Fairness == \A c \in Callers : WF_vars(Steps(c))
FairSpec == Spec /\ Fairness

(* A client that was sent back asks again.                                 *)
RetryingSpec ==
  FairSpec /\ \A c \in Callers : WF_vars(\E avoid \in Avoids : ResolveNode(c, avoid))

-----------------------------------------------------------------------------
(* "A room lives on exactly one SFU node for its whole life" (header of    *)
(* RoomRegistry.js): two people who are in the room are on the same SFU,   *)
(* through concurrent first joins, ?avoid=, full and draining nodes.       *)
OneNode ==
  \A m, n \in Nodes : (here[m] # {} /\ here[n] # {}) => m = n

(* The same promise as a specification: through all the calls of all the   *)
(* API tasks, the room gets one node once, and everybody enters it there.  *)
Placement == INSTANCE RoomPlacement WITH Callers <- Callers, Nodes <- Nodes, None <- None,
                                         room <- room, here <- here
PlacedOnce == Placement!Spec

(* Two people joining a new lesson at the same moment are not sent to two  *)
(* different nodes: the answers of resolveNode agree.                      *)
OneAnswer ==
  \A c, d \in Callers : (At(c, "done") /\ At(d, "done")) => call[c].pick = call[d].pick

(* With nodes that die or fall silent and rooms that close late, people    *)
(* are on two nodes only where the key was deleted under the people of one *)
(* of them, or somebody with an old answer came in while there was none:   *)
(* no read kept across a DEL, an expiry or a lost SET NX adds another way. *)
OneKeyedNode ==
  \A m, n \in Nodes \ astray : (here[m] # {} /\ here[n] # {}) => m = n

(* "The node is gone ... so a fresh assignment is correct": one resolveNode*)
(* of a room whose node is dead and forgotten is enough to free the room.  *)
DeadNodeIsForgotten ==
  \A n \in Nodes, c \in Callers :
    (room = n /\ n \notin up /\ info[n] = None /\ At(c, "get") /\ n \notin call[c].avoid)
      ~> room # n

(* "the client re-resolves ... and connects elsewhere" (onJoin): someone a *)
(* draining node turned away, and who asks again, gets into the room.      *)
TurnedAway(c) ==
  At(c, "done") /\ call[c].pick \in draining /\ ~Admits(call[c].pick)
ConnectsElsewhere ==
  \A c \in Callers : TurnedAway(c) ~> \E n \in Nodes : c \in here[n]

-----------------------------------------------------------------------------
(* While no node fails and the room stays open, the assignment never       *)
(* changes, and whatever a call read or answers is the assignment.         *)
NodesAreKnown == \A n \in Nodes : info[n] # None

CallsAgree ==
  \A c \in Callers :
    /\ At(c, "check") => call[c].seen = room /\ room # None
    /\ At(c, "set") => call[c].pick # None
    /\ At(c, "lost") => room # None
    /\ At(c, "winner") => call[c].seen = room /\ room # None
    /\ At(c, "done") => call[c].pick = room /\ room # None
    /\ ~At(c, "del")

LivesWhereAssigned == \A n \in Nodes : here[n] # {} => room = n

NothingReleased == releasing = {}

(* Nodes that are not astray have the key, whatever fails.                 *)
KeyedInv == \A n \in Nodes \ astray : here[n] # {} => room = n

IInv == TypeOK /\ NodesAreKnown /\ CallsAgree /\ LivesWhereAssigned /\ NothingReleased
=============================================================================
