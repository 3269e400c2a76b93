------------------------------ MODULE MCTimed ------------------------------
(* The parts of the game with something that must happen in the end, each in *)
(* a scene of its own: what does not belong to the scene keeps its initial   *)
(* state.                                                                    *)
EXTENDS MCWaitingList

VARIABLES
    scene,
    \* Spawns
    monster, spawnedMap, wait, checkSpawnEvent, checks, near, missed,
    \* Raids
    running, refCount, eventCount, nextEvent, pending,
    \* Walks
    a

CONSTANTS m1, m2, m3

spawnVars == <<monster, spawnedMap, wait, checkSpawnEvent, checks, near, missed>>
raidVars == <<running, refCount, eventCount, nextEvent, pending>>
timedVars == <<scene, waitingVars, spawnVars, raidVars, a>>

S == INSTANCE Spawns WITH
        N <- 2, Monsters <- {m1, m2, m3}, Interval <- <<1, 1>>,
        MinBatch <- 1, MaxBatch <- 1, AllowBlockSpawn <- TRUE

R == INSTANCE Raids WITH
        Raids <- {"horde", "boss", "wave"},
        RefType <- [horde |-> "none", boss |-> "block", wave |-> "single"],
        Events <- [horde |-> <<"announce", "area", "script">>, boss |-> <<"announce", "single">>,
                   wave |-> <<"item", "area">>], MaxRefs <- 4

W == INSTANCE Walks WITH Far <- 1, MaxEvents <- 3, Requests <- 3

TimedInit ==
    /\ scene \in {"waiting list", "spawn", "raids", "walk"}
    /\ WaitingInit
    /\ S!Init /\ (scene # "spawn" => spawnedMap = {})
    /\ R!Init
    /\ W!Init

Waiting(A) ==
    scene = "waiting list" /\ A /\ UNCHANGED <<scene, spawnVars, raidVars, a>>
Spawning(A) ==
    scene = "spawn" /\ A /\ UNCHANGED <<scene, waitingVars, raidVars, a>>
Raiding(A) ==
    scene = "raids" /\ A /\ UNCHANGED <<scene, waitingVars, spawnVars, a>>
Walking(A) ==
    scene = "walk" /\ A /\ UNCHANGED <<scene, waitingVars, spawnVars, raidVars>>

TimedNext ==
    \/ Waiting(WaitingNext) \/ Spawning(S!Next) \/ Raiding(R!Next) \/ Walking(W!Next)
    \/ Walking(a.left = 0 /\ UNCHANGED a)       \* the bound: nothing more is asked for

(* The fairness of WaitingFairSpec; the scheduler runs what is due, and *)
(* time passes; a check of a spawn often enough finds room.                  *)
TimedSpec ==
    /\ TimedInit /\ [][TimedNext]_timedVars
    /\ WF_timedVars(Waiting(Tick))
    /\ \A p \in Players : WF_timedVars(Waiting(Logout(p)))
    /\ \A p \in Patient :
          WF_timedVars(Waiting(left[p] # NotWaiting /\ Login(p)))
    /\ \A b \in 1 .. 2 : WF_timedVars(Spawning(S!Tick(b)))
    /\ SF_timedVars(Spawning(S!CheckWithRoom))
    /\ \A r \in {"horde", "boss", "wave"} :
          WF_timedVars(Raiding(R!ExecuteRaidEvent(r)))
    /\ WF_timedVars(Walking(W!RunTask)) /\ WF_timedVars(Walking(W!Rest))
    /\ \A n \in 1 .. 6 : WF_timedVars(Walking(W!Fire(n)))

(* The properties of the instances, under their own names.                   *)
SpawnsChecked == S!SpawnsChecked
SpawnsFill == scene = "spawn" => S!SpawnsFill
RaidsGoOn == R!RaidsGoOn
RaidsEnd == R!RaidsEnd
ActionsRecallable == W!ActionsRecallable
WaitingActionEnds == W!WaitingActionEnds
=============================================================================
