------------------------------- MODULE Spawns -------------------------------
(* One Spawn (spawn.cpp): the blocks where a monster should stand, the map   *)
(* of those that do, and the check that the scheduler runs for it, which     *)
(* stops when every block is taken and is started again by a monster that    *)
(* leaves the world (monster.cpp).  The map holds a reference of each        *)
(* monster; a monster holds a bare pointer to its spawn.                     *)
(*                                                                           *)
(* Time is in checks: wait[b] is what is left of the block's interval.       *)
(* Left out: Spawns::clear, which runs when no task will run any more.       *)
EXTENDS Naturals, FiniteSets

CONSTANTS
    N,              \* blocks are 1..N, the order of spawnMap
    Monsters,       \* addresses of Monster objects (bound)
    Interval,       \* Interval[b]: the block's interval, in checks
    MinBatch,       \* RATE_SPAWN_MIN
    MaxBatch,       \* RATE_SPAWN_MAX
    AllowBlockSpawn

Blocks == 1..N

VARIABLES
    monster,        \* the Monster objects
    spawnedMap,     \* pairs of a block and a monster
    wait,           \* what is left until lastSpawn + interval
    checkSpawnEvent,
    checks,         \* tasks checkSpawn in the scheduler
    near,           \* blocks with a player in sight
    missed          \* blocks emptied or left empty without a check to come (history)

vars == <<monster, spawnedMap, wait, checkSpawnEvent, checks, near, missed>>

(* life: a monster that was removed is kept as long as it is referenced.     *)
(* spawn: whether Monster::spawn points here.                                *)
NoMonster == [life |-> "none", refs |-> 0, spawn |-> FALSE]

TypeOK ==
    /\ monster \in [Monsters -> [life  : {"none", "living", "removed"},
                                 refs  : 0..3, spawn : BOOLEAN]]
    /\ spawnedMap \subseteq Blocks \X Monsters
    /\ wait \in [Blocks -> Nat]
    /\ checkSpawnEvent \in BOOLEAN /\ checks \in Nat
    /\ near \subseteq Blocks /\ missed \subseteq Blocks

Taken(map) == {pair[1] : pair \in map}

(* Thing::unRef for the monsters in S: the last reference deletes.           *)
Unref(mon, S) ==
    [m \in Monsters |->
        IF m \notin S THEN mon[m]
        ELSE IF mon[m].refs = 1 THEN NoMonster
        ELSE [mon[m] EXCEPT !.refs = @ - 1]]

(* A monster enters the world: Game::internalPlaceCreature takes a reference,*)
(* spawnMonster another.                                                     *)
Placed(mon, S) ==
    [m \in Monsters |->
        IF m \in S THEN [life |-> "living", refs |-> 2, spawn |-> TRUE] ELSE mon[m]]

(* Spawn::startup: every block, as far as there is room; no check is started *)
(* for those where there is none.                                            *)
Init ==
    \E map \in SUBSET (Blocks \X Monsters) :
        /\ \A p, q \in map : p # q => p[1] # q[1] /\ p[2] # q[2]
        /\ spawnedMap = map
        /\ monster = Placed([m \in Monsters |-> NoMonster], {p[2] : p \in map})
        /\ wait = [b \in Blocks |-> IF b \in Taken(map) THEN Interval[b] ELSE 0]
        /\ checkSpawnEvent = FALSE /\ checks = 0
        /\ near = {} /\ missed = Blocks \ Taken(map)

-----------------------------------------------------------------------------
(* Mutant: only a monster that somebody sees gone starts the check.          *)
StartEventIfSeen ==
    /\ checkSpawnEvent' = (checkSpawnEvent \/ near # {})
    /\ checks' = IF checkSpawnEvent \/ near = {} THEN checks ELSE checks + 1

(* Spawn::startEvent.                                                        *)
StartEvent ==
    /\ checkSpawnEvent' = TRUE
    /\ checks' = IF checkSpawnEvent THEN checks ELSE checks + 1

(* A monster dies, despawns or is removed by a script: Game::removeCreature  *)
(* tells it, and Game::cleanup drops the world's reference.                  *)
Remove(m) ==
    /\ monster[m].life = "living"
    /\ monster' = Unref([monster EXCEPT ![m].life = "removed"], {m})
    /\ IF monster[m].spawn THEN StartEvent ELSE UNCHANGED <<checkSpawnEvent, checks>>
    /\ UNCHANGED <<spawnedMap, wait, near, missed>>

Convinced == {m \in Monsters : monster[m].life = "living" /\ ~ monster[m].spawn}

(* Monster::convinceCreature: removeMonster takes it out of the map; nobody  *)
(* starts the check.                                                         *)
Convince(m) ==
    /\ monster[m].life = "living" /\ monster[m].spawn
    /\ Cardinality(Convinced) + N < Cardinality(Monsters)       \* bound
    /\ monster' = Unref([monster EXCEPT ![m].spawn = FALSE], {m})
    /\ spawnedMap' = {pair \in spawnedMap : pair[2] # m}
    /\ missed' = missed \cup {pair[1] : pair \in spawnedMap \ spawnedMap'}
    /\ UNCHANGED <<wait, checkSpawnEvent, checks, near>>

(* A player comes to, or leaves, a block; time passes.                       *)
Visit(b) ==
    /\ near' = IF b \in near THEN near \ {b} ELSE near \cup {b}
    /\ UNCHANGED <<monster, spawnedMap, wait, checkSpawnEvent, checks, missed>>

Tick(b) ==
    /\ wait[b] > 0
    /\ wait' = [wait EXCEPT ![b] = @ - 1]
    /\ UNCHANGED <<monster, spawnedMap, checkSpawnEvent, checks, near, missed>>

-----------------------------------------------------------------------------
Gone == {pair \in spawnedMap : monster[pair[2]].life = "removed"}
Kept == spawnedMap \ Gone

(* The blocks the loop of checkSpawn comes to after those that are taken, or *)
(* whose monster has only just been found gone.                              *)
Due == {b \in Blocks \ Taken(spawnedMap) : wait[b] = 0}
Blocked == IF AllowBlockSpawn THEN Due \cap near ELSE {}

(* Where the loop may stop: it counts the blocks it tries, and breaks when   *)
(* they are as many as a number drawn anew each time.                        *)
StopsAfter(b) ==
    LET tried == {c \in Due \ Blocked : c <= b} IN
    /\ b \in tried
    /\ MinBatch <= Cardinality(tried) /\ Cardinality(tried) <= MaxBatch

Reached ==
    {{c \in Due : c <= b} : b \in {c \in Due : StopsAfter(c)}}
    \cup (IF Cardinality(Due \ Blocked) < MaxBatch THEN {Due} ELSE {})

(* Mutant: the check is run again only while nothing has been spawned.       *)
AgainIfEmpty(map) == map = {}

Again(map) == Cardinality(map) < N

(* Spawn::checkSpawn.  Of the blocks it tries, those in placed find room for *)
(* their monster.                                                            *)
CheckSpawn ==
    /\ checks > 0
    /\ \E reached \in Reached :
       \E placed \in SUBSET (reached \ Blocked) :
       \E new \in [placed -> {m \in Monsters : monster[m].life = "none"}] :
          /\ \A b, c \in placed : b # c => new[b] # new[c]
          /\ spawnedMap' = Kept \cup {<<b, new[b]>> : b \in placed}
          /\ monster' = Placed(Unref(monster, {pair[2] : pair \in Gone}),
                               {new[b] : b \in placed})
          /\ wait' = [b \in Blocks |->
                        IF b \in Taken(Gone) \cup placed \cup (reached \cap Blocked)
                        THEN Interval[b] ELSE wait[b]]
    /\ checkSpawnEvent' = Again(spawnedMap')
    /\ checks' = IF Again(spawnedMap') THEN checks ELSE checks - 1
    /\ missed' = {}
    /\ UNCHANGED near

Disturb ==
    \/ \E m \in Monsters : Remove(m) \/ Convince(m)
    \/ \E b \in Blocks : Visit(b)

Next == Disturb \/ (\E b \in Blocks : Tick(b)) \/ CheckSpawn

-----------------------------------------------------------------------------
(* There is one check in the scheduler exactly while checkSpawnEvent says so *)
(* (the guard of startEvent must not put a second one there), the map holds  *)
(* one monster for a block and none that was freed, each of its monsters is  *)
(* counted, and a block whose monster is gone gets a check: a chain of       *)
(* checks that stopped was started again by all that makes it needed, except *)
(* a convincing and a start without room (spawn.cpp:232, 303-370,            *)
(* monster.cpp:166, 1454).                                                   *)
SpawnsChecked ==
    /\ checks = (IF checkSpawnEvent THEN 1 ELSE 0)
    /\ \A p, q \in spawnedMap : p # q => p[1] # q[1] /\ p[2] # q[2]
    /\ \A m \in Monsters :
          monster[m].refs = (IF monster[m].life = "living" THEN 1 ELSE 0)
                            + (IF m \in {p[2] : p \in spawnedMap} THEN 1 ELSE 0)
    /\ \A b \in Blocks :
          \/ checkSpawnEvent
          \/ b \in missed
          \/ \E p \in spawnedMap : p[1] = b /\ monster[p[2]].life = "living"

(* What fairness may be asked for: a check that finds room for every block   *)
(* it tries.                                                                 *)
CheckWithRoom ==
    /\ CheckSpawn
    /\ \E reached \in Reached : reached \ Blocked \subseteq Taken(spawnedMap')

(* When no monster is removed or convinced any more and no player stays in   *)
(* sight, every block has its monster in the end, however few blocks a check *)
(* may try, but for the blocks that lost theirs to a convincing, or never had *)
(* one, while no check was to come (spawn.cpp:310-370).                                     *)
SpawnsFill ==
    <>[][~ Disturb]_vars /\ <>(near = {} /\ [](near = {})) =>
        <>[](Taken(spawnedMap) \cup missed = Blocks)
=============================================================================
