----------------------- MODULE AutomationCache_proofs -----------------------
(***************************************************************************)
(* Proofs about AutomationCache, for every set of scenes and of goroutines *)
(* and any number of saves and faults.                                     *)
(***************************************************************************)
EXTENDS AutomationCache, TLAPS

USE CacheAssumption

-----------------------------------------------------------------------------
(* Types. What a goroutine deletes or adds first is a scene, and a scene is *)
(* never of a later version than the saves so far allow.                    *)

Aiming == {"delMultiple", "delAction", "delGroup", "delList", "delEmpty", "del",
           "addConds", "addActs"}

DbTypes ==
    /\ enabled \in [Scenes -> {"gone", "Y", "N"}]
    /\ conds \in [Scenes -> BOOLEAN]
    /\ version \in [Scenes -> Nat]
    /\ saves \in 0..MaxSaves
    /\ \A s \in Scenes : version[s] <= saves + 1

RedisTypes ==
    /\ list \in {Missing, NoTask} \cup SUBSET Groups
    /\ group \subseteq Groups
    /\ action \in [Scenes -> {Missing} \cup Versions \X Versions]

ProcTypes ==
    /\ field \in {"one", "multiple"}
    /\ pc \in [Procs -> Pcs]
    /\ mem \in [Procs -> Memory]
    /\ faults \in Nat
    /\ \A p \in Procs : pc[p] \in Aiming => mem[p].scene \in Scenes

Types == DbTypes /\ RedisTypes /\ ProcTypes

LEMMA BlankType ==
  /\ Blank \in Memory
  /\ \A s \in Scenes : ForScene(s) \in Memory /\ ForScene(s).scene = s
  BY DEF Blank, ForScene, Memory

LEMMA TypesImply == Types => TypeOK
<1> SUFFICES ASSUME Types PROVE TypeOK
  OBVIOUS
<1>1. version \in [Scenes -> Versions]
  BY DEF Types, DbTypes, Versions
<1> QED
  BY <1>1 DEF Types, DbTypes, RedisTypes, ProcTypes, TypeOK

LEMMA InitTypes == Init => Types
<1> SUFFICES ASSUME Init PROVE Types
  OBVIOUS
<1>2. DbTypes
  BY DEF Init, DbTypes
<1>3. RedisTypes
  BY DEF Init, RedisTypes
<1>4. ProcTypes
  BY BlankType DEF Init, ProcTypes, Pcs, Aiming
<1> QED
  BY <1>2, <1>3, <1>4 DEF Types

\* A goroutine moves to l and remembers m.
LEMMA Moves ==
  ASSUME ProcTypes, NEW p \in Procs, NEW l \in Pcs, NEW m \in Memory,
         pc' = [pc EXCEPT ![p] = l], mem' = [mem EXCEPT ![p] = m],
         l \in Aiming => m.scene \in Scenes,
         field' \in {"one", "multiple"}, faults' \in Nat
  PROVE  ProcTypes'
<1>1. pc' \in [Procs -> Pcs] /\ mem' \in [Procs -> Memory]
  BY DEF ProcTypes
<1>2. \A q \in Procs : pc'[q] \in Aiming => mem'[q].scene \in Scenes
  BY DEF ProcTypes
<1> QED
  BY <1>1, <1>2 DEF ProcTypes

\* It moves on and keeps what it remembers.
LEMMA MovesOn ==
  ASSUME ProcTypes, NEW p \in Procs, NEW l \in Pcs,
         pc' = [pc EXCEPT ![p] = l], UNCHANGED <<mem, faults>>,
         l \in Aiming => mem[p].scene \in Scenes,
         field' \in {"one", "multiple"}
  PROVE  ProcTypes'
<1>1. pc' \in [Procs -> Pcs]
  BY DEF ProcTypes
<1>2. \A q \in Procs : pc'[q] \in Aiming => mem'[q].scene \in Scenes
  BY DEF ProcTypes
<1> QED
  BY <1>1, <1>2 DEF ProcTypes

\* The rows of the database are groups.
LEMMA RowsType ==
  ASSUME DbTypes, NEW S \in SUBSET Scenes
  PROVE  ConditionRows \subseteq Groups /\ ActionRows(S) \subseteq Groups
<1>1. version \in [Scenes -> Versions]
  BY DEF DbTypes, Versions
<1> QED
  BY <1>1 DEF ConditionRows, ActionRows, Groups

LEMMA SameDb ==
  ASSUME DbTypes, UNCHANGED dbVars
  PROVE  DbTypes'
  BY DEF DbTypes, dbVars

LEMMA SameRedis ==
  ASSUME RedisTypes, UNCHANGED redisVars
  PROVE  RedisTypes'
  BY DEF RedisTypes, redisVars

\* A save changes the rows of a scene and starts a goroutine.
LEMMA SaveTypes ==
  ASSUME Types, NEW s \in Scenes, NEW w \in Workers, Save(s, w)
  PROVE  Types'
<1>1. w \in Procs /\ DbTypes /\ RedisTypes /\ ProcTypes
  BY DEF Procs, Types
<1>2. ASSUME NEW l \in {"idle", "addConds", "delMultiple"}, NEW again \in BOOLEAN,
             Saves(s, w, l, again)
      PROVE  RedisTypes' /\ ProcTypes'
  <2>1. RedisTypes'
    BY <1>1, <1>2, SameRedis DEF Saves
  <2>2. PICK m \in Memory : /\ mem' = [mem EXCEPT ![w] = m]
                            /\ l = "idle" \/ m.scene = s
    <3>1. CASE l = "idle"
      BY <1>2, <3>1, BlankType DEF Saves
    <3>2. CASE l # "idle"
      <4>1. [ForScene(s) EXCEPT !.readd = again] \in Memory
        BY BlankType DEF Memory
      <4>2. [ForScene(s) EXCEPT !.readd = again].scene = s
        BY DEF ForScene, Blank
      <4> QED BY <1>2, <3>2, <4>1, <4>2 DEF Saves
    <3> QED BY <3>1, <3>2
  <2>3. l \in Pcs /\ pc' = [pc EXCEPT ![w] = l] /\ UNCHANGED <<field, faults>>
    BY <1>2 DEF Saves, GoTo, Pcs
  <2>4. l = "idle" => l \notin Aiming
    BY DEF Aiming
  <2>5. ProcTypes'
    BY <1>1, <2>2, <2>3, <2>4, Moves DEF ProcTypes
  <2> QED BY <2>1, <2>5
<1>3. ASSUME NEW e \in {"Y", "N"}, NEW c \in BOOLEAN, Writes(s, e, c),
             saves < MaxSaves, saves' = saves + 1
      PROVE  DbTypes'
  BY <1>1, <1>3 DEF Writes, DbTypes
<1>4. CASE CreateSceneAutomation(s, w)
  <2>1. PICK on \in BOOLEAN :
            Writes(s, "N", on) /\ Saves(s, w, IF on THEN "addConds" ELSE "idle", FALSE)
    BY <1>4 DEF CreateSceneAutomation
  <2>2. PICK l \in {"idle", "addConds"} : Saves(s, w, l, FALSE)
    BY <2>1
  <2>3. saves < MaxSaves /\ saves' = saves + 1
    BY <2>2 DEF Saves
  <2> QED BY <1>2, <1>3, <2>1, <2>2, <2>3 DEF Types
<1>5. CASE UpdateSceneAutomation(s, w)
  <2>1. PICK e \in {"Y", "N"} :
            Writes(s, e, e = "Y") /\ Saves(s, w, "delMultiple", e = "Y")
    BY <1>5 DEF UpdateSceneAutomation
  <2>2. PICK again \in BOOLEAN : Writes(s, e, again) /\ Saves(s, w, "delMultiple", again)
    BY <2>1, Zenon
  <2>3. saves < MaxSaves /\ saves' = saves + 1
    BY <2>2 DEF Saves
  <2> QED BY <1>2, <1>3, <2>2, <2>3 DEF Types
<1>6. CASE SwitchSceneAutomation(s, w)
  <2>1. PICK e \in {"Y", "N"} :
            /\ enabled' = [enabled EXCEPT ![s] = e]
            /\ Saves(s, w, IF e = "Y" THEN "addConds" ELSE "delMultiple", FALSE)
    BY <1>6 DEF SwitchSceneAutomation
  <2>2. PICK l \in {"addConds", "delMultiple"} : Saves(s, w, l, FALSE)
    BY <2>1
  <2>3. saves < MaxSaves /\ saves' = saves + 1 /\ UNCHANGED <<conds, version>>
    BY <1>6, <2>2 DEF Saves, SwitchSceneAutomation
  <2>4. DbTypes'
    BY <1>1, <2>1, <2>3 DEF DbTypes
  <2> QED BY <1>2, <2>2, <2>4 DEF Types
<1> QED
  BY <1>4, <1>5, <1>6 DEF Save

\* The deletion of a scene touches only rows.
LEMMA RemovalTypes ==
  ASSUME Types, NEW s \in Scenes, DeleteSceneAutomation(s)
  PROVE  Types'
<1>1. DbTypes'
  BY DEF DeleteSceneAutomation, Types, DbTypes
<1>2. UNCHANGED <<redisVars, field, pc, mem, faults>>
  BY DEF DeleteSceneAutomation
<1>3. ProcTypes'
  BY <1>2 DEF Types, ProcTypes
<1> QED
  BY <1>1, <1>2, <1>3, SameRedis DEF Types

\* After a deletion a goroutine has what it needs for what comes next.
LEMMA AfterDeleteTypes ==
  ASSUME ProcTypes, NEW p \in Procs, pc[p] \in Aiming, AfterDelete(p),
         field' \in {"one", "multiple"}, UNCHANGED faults
  PROVE  ProcTypes'
<1>1. mem[p] \in Memory /\ mem[p].scene \in Scenes
  BY DEF ProcTypes
<1>2. PICK l \in {"hit", "addConds", "idle"}, m \in {Blank, ForScene(mem[p].scene)} :
          /\ pc' = [pc EXCEPT ![p] = l] /\ mem' = [mem EXCEPT ![p] = m]
          /\ l = "addConds" => m = ForScene(mem[p].scene)
  BY DEF AfterDelete, Ends, GoTo
<1>5. l \in Pcs /\ m \in Memory /\ (l \in Aiming => m.scene \in Scenes)
  BY <1>1, <1>2, BlankType DEF Pcs, Aiming
<1> QED
  BY <1>2, <1>5, Moves DEF ProcTypes

\* The steps of a deletion.
LEMMA DeleteTypes ==
  ASSUME Types, NEW p \in Procs, DeleteStep(p)
  PROVE  Types'
<1>1. DbTypes /\ RedisTypes /\ ProcTypes /\ mem[p] \in Memory
  BY DEF Types, ProcTypes
<1>2. pc[p] \in Aiming /\ mem[p].scene \in Scenes /\ faults' = faults
  <2>1. pc[p] \in Aiming /\ faults' = faults
    BY DEF DeleteStep, DeletesMultiple, DeletesByAction, ReadsGroup, ReadsList, SetsEmpty,
       DeletesKeys, Aiming
  <2> QED BY <1>1, <2>1 DEF ProcTypes
<1>3. DbTypes'
  BY <1>1, SameDb DEF DeleteStep, DeletesMultiple, DeletesByAction, ReadsGroup, ReadsList,
     SetsEmpty, DeletesKeys
<1>4. CASE DeletesMultiple(p)
  <2>1. ProcTypes'
    BY <1>1, <1>2, <1>4, MovesOn DEF DeletesMultiple, GoTo, Pcs
  <2> QED BY <1>1, <1>3, <1>4, <2>1, SameRedis DEF DeletesMultiple, Types
<1>5. CASE DeletesByAction(p)
  <2>1. CASE AfterDelete(p)
    <3>1. ProcTypes'
      BY <1>1, <1>2, <1>5, <2>1, AfterDeleteTypes DEF DeletesByAction
    <3> QED BY <1>1, <1>3, <1>5, <3>1, SameRedis DEF DeletesByAction, Types
  <2>2. CASE ~AfterDelete(p)
    <3> DEFINE r == {<<mem[p].scene, action[mem[p].scene][2]>>}
               m == [mem[p] EXCEPT !.rows = r]
    <3>1. /\ action[mem[p].scene] # Missing
          /\ pc' = [pc EXCEPT ![p] = "delGroup"] /\ mem' = [mem EXCEPT ![p] = m]
          /\ field' = "one"
      BY <1>5, <2>2 DEF DeletesByAction, GoTo
    <3>2. r \subseteq Groups
      BY <1>1, <1>2, <3>1 DEF RedisTypes, Groups
    <3> HIDE DEF r
    <3>3. m \in Memory /\ m.scene \in Scenes
      BY <1>1, <1>2, <3>2 DEF Memory
    <3> HIDE DEF m
    <3>4. ProcTypes'
      BY <1>1, <1>2, <3>1, <3>3, Moves DEF Pcs, ProcTypes
    <3> QED BY <1>1, <1>3, <1>5, <3>4, SameRedis DEF DeletesByAction, Types
  <2> QED BY <2>1, <2>2
<1>6. CASE ReadsGroup(p)
  <2> DEFINE r == IF Right THEN mem[p].rows ELSE {}
             m == [mem[p] EXCEPT !.rows = r]
  <2>1. PICK l \in {"delList", "del"} : pc' = [pc EXCEPT ![p] = l]
    BY <1>6 DEF ReadsGroup, GoTo
  <2>2. mem' = [mem EXCEPT ![p] = m] /\ UNCHANGED <<redisVars, field>>
    BY <1>6 DEF ReadsGroup
  <2>3. r \subseteq Groups
    BY <1>1 DEF Memory
  <2> HIDE DEF r
  <2>4. m \in Memory /\ m.scene \in Scenes
    BY <1>1, <1>2, <2>3 DEF Memory
  <2> HIDE DEF m
  <2>5. ProcTypes'
    BY <1>1, <1>2, <2>1, <2>2, <2>4, Moves DEF Pcs, ProcTypes
  <2> QED BY <1>1, <1>3, <2>2, <2>5, SameRedis DEF Types
<1>7. CASE ReadsList(p)
  <2>1. UNCHANGED <<redisVars, field>>
    BY <1>7 DEF ReadsList
  <2>2. ProcTypes'
    <3>1. CASE GoTo(p, "del") /\ UNCHANGED mem
      BY <1>1, <1>2, <2>1, <3>1, MovesOn DEF GoTo, Pcs, ProcTypes
    <3>2. CASE ~(GoTo(p, "del") /\ UNCHANGED mem)
      <4>1. PICK rest \in Without(mem[p].scene) :
                /\ GoTo(p, IF rest = {} THEN "delEmpty" ELSE "del")
                /\ mem' = [mem EXCEPT ![p].aimed = (rest # {})]
        BY <1>7, <3>2, Zenon DEF ReadsList
      <4> DEFINE left == rest # {}
                 m == [mem[p] EXCEPT !.aimed = left]
      <4>2. left \in BOOLEAN /\ mem' = [mem EXCEPT ![p].aimed = left]
        BY <4>1, Zenon
      <4>3. PICK l \in {"delEmpty", "del"} : pc' = [pc EXCEPT ![p] = l]
        BY <4>1, Zenon DEF GoTo
      <4> HIDE DEF left
      <4>4. mem' = [mem EXCEPT ![p] = m]
        BY <4>2
      <4>5. m \in Memory /\ m.scene \in Scenes
        BY <1>1, <1>2, <4>2 DEF Memory
      <4> HIDE DEF m
      <4> QED BY <1>1, <1>2, <2>1, <4>3, <4>4, <4>5, Moves DEF Pcs, ProcTypes
    <3> QED BY <3>1, <3>2
  <2> QED BY <1>1, <1>3, <2>1, <2>2, SameRedis DEF Types
<1>8. CASE SetsEmpty(p)
  <2>1. ProcTypes'
    BY <1>1, <1>2, <1>8, MovesOn DEF SetsEmpty, GoTo, Pcs, ProcTypes
  <2>2. RedisTypes'
    BY <1>1, <1>8 DEF SetsEmpty, RedisTypes
  <2> QED BY <1>3, <2>1, <2>2 DEF Types
<1>9. CASE DeletesKeys(p)
  <2>1. ProcTypes'
    BY <1>1, <1>2, <1>9, AfterDeleteTypes DEF DeletesKeys, ProcTypes
  <2>2. RedisTypes'
    BY <1>1, <1>9 DEF DeletesKeys, RedisTypes
  <2> QED BY <1>3, <2>1, <2>2 DEF Types
<1> QED
  BY <1>4, <1>5, <1>6, <1>7, <1>8, <1>9 DEF DeleteStep

\* The version of the actions that a goroutine has read.
LEMMA ActionsOfType ==
  ASSUME ProcTypes, NEW p \in Procs, NEW s \in Scenes
  PROVE  ActionsOf(p, s) \in Versions
<1>1. mem[p].acts \subseteq Groups
  BY DEF ProcTypes, Memory
<1>2. s \in ScenesOf(mem[p].acts) => \E x \in mem[p].acts : x[1] = s
  BY DEF ScenesOf
<1>3. \A x \in mem[p].acts : x[2] \in Versions
  BY <1>1 DEF Groups
<1> QED
  BY <1>2, <1>3 DEF ActionsOf, Versions

LEMMA SetsTypes ==
  ASSUME RedisTypes, ProcTypes, NEW p \in Procs, NEW x \in Groups, UNCHANGED list,
         \/ SetsGroup(x) /\ UNCHANGED action
         \/ SetsAction(p, x) /\ UNCHANGED group
  PROVE  RedisTypes'
<1>1. x[1] \in Scenes /\ x[2] \in Versions
  BY DEF Groups
<1>2. ActionsOf(p, x[1]) \in Versions
  BY <1>1, ActionsOfType
<1> QED
  BY <1>1, <1>2 DEF RedisTypes, SetsGroup, SetsAction

LEMMA ListedType == ASSUME RedisTypes PROVE Listed \subseteq Groups
  BY DEF RedisTypes, Listed

\* Group 0 of a scene is a group too.
LEMMA WithoutGroup ==
  ASSUME NEW x \in Groups
  PROVE  <<x[1], 0>> \in Groups
  BY DEF Groups, Versions

\* After a pass comes the other one, or nothing.
LEMMA PassTypes ==
  ASSUME ProcTypes, NEW w \in Procs, PassEnds(w), UNCHANGED faults
  PROVE  ProcTypes'
<1>1. mem[w] \in Memory
  BY DEF ProcTypes
<1>2. CASE mem[w].readd
  <2>1. [mem[w] EXCEPT !.readd = FALSE] \in Memory
    BY <1>1 DEF Memory
  <2>2. /\ pc' = [pc EXCEPT ![w] = "addPass"] /\ field' = "one"
        /\ mem' = [mem EXCEPT ![w] = [mem[w] EXCEPT !.readd = FALSE]]
    BY <1>2 DEF PassEnds, GoTo, ProcTypes
  <2> QED BY <2>1, <2>2, Moves DEF Pcs, Aiming, ProcTypes
<1>3. CASE ~mem[w].readd
  BY <1>3, BlankType, Moves DEF PassEnds, Ends, GoTo, Pcs, Aiming, ProcTypes
<1> QED
  BY <1>2, <1>3

\* The steps of an addition.
LEMMA AddTypes ==
  ASSUME Types, NEW w \in Workers, AddStep(w)
  PROVE  Types'
<1> DEFINE o == mem[w]
<1>1. /\ DbTypes /\ RedisTypes /\ ProcTypes /\ w \in Procs
      /\ o \in Memory /\ o.rows \subseteq Groups /\ o.todo \subseteq Groups
  BY DEF Types, ProcTypes, Procs, Memory
<1>2. DbTypes'
  BY <1>1, SameDb DEF AddStep, ReadsConditions, ReadsActions, StartsPass, AddsGroup, AddsAction,
     AddReadsList, AddsToList
<1>3. faults' = faults
  BY DEF AddStep, ReadsConditions, ReadsActions, StartsPass, AddsGroup, AddsAction,
     AddReadsList, AddsToList
<1>4. ASSUME NEW l \in Pcs, NEW m \in Memory,
             pc' = [pc EXCEPT ![w] = l], mem' = [mem EXCEPT ![w] = m],
             l \in Aiming => m.scene \in Scenes, field' \in {"one", "multiple"}
      PROVE  ProcTypes'
  BY <1>1, <1>3, <1>4, Moves DEF ProcTypes
<1>5. CASE ReadsConditions(w)
  <2> DEFINE r == {x \in ConditionRows : x[1] = o.scene}
             m == [o EXCEPT !.rows = r]
  <2>1. /\ pc[w] = "addConds" /\ pc' = [pc EXCEPT ![w] = "addActs"]
        /\ mem' = [mem EXCEPT ![w] = m] /\ UNCHANGED <<redisVars, field>>
    BY <1>5 DEF ReadsConditions, GoTo
  <2>2. r \subseteq Groups
    BY <1>1, RowsType
  <2> HIDE DEF r
  <2>3. o.scene \in Scenes
    BY <1>1, <2>1 DEF ProcTypes, Aiming
  <2>4. m \in Memory /\ m.scene \in Scenes
    BY <1>1, <2>2, <2>3 DEF Memory
  <2> HIDE DEF m
  <2>5. ProcTypes'
    BY <1>1, <1>4, <2>1, <2>4 DEF Pcs, ProcTypes
  <2> QED BY <1>1, <1>2, <2>1, <2>5, SameRedis DEF Types
<1>6. CASE ReadsActions(w)
  <2> DEFINE a == ActionRows({o.scene})
             m == [o EXCEPT !.acts = a, !.readd = TRUE]
  <2>1. /\ pc[w] = "addActs" /\ pc' = [pc EXCEPT ![w] = "addPass"]
        /\ mem' = [mem EXCEPT ![w] = m] /\ UNCHANGED redisVars /\ field' = "multiple"
    BY <1>1, <1>6 DEF ReadsActions, GoTo, ProcTypes
  <2>2. o.scene \in Scenes
    BY <1>1, <2>1 DEF ProcTypes, Aiming
  <2>3. a \subseteq Groups
    BY <1>1, <2>2, RowsType
  <2> HIDE DEF a
  <2>4. m \in Memory
    BY <1>1, <2>3 DEF Memory
  <2> HIDE DEF m
  <2>5. ProcTypes'
    BY <1>4, <2>1, <2>4 DEF Pcs, Aiming
  <2> QED BY <1>1, <1>2, <2>1, <2>5, SameRedis DEF Types
<1>7. CASE StartsPass(w)
  <2>1. UNCHANGED redisVars
    BY <1>7 DEF StartsPass
  <2>2. CASE PassEnds(w)
    BY <1>1, <1>2, <1>3, <2>1, <2>2, PassTypes, SameRedis DEF Types
  <2>3. CASE ~PassEnds(w)
    <3>1. /\ pc' = [pc EXCEPT ![w] = "addGroup"] /\ UNCHANGED field
          /\ mem' = [mem EXCEPT ![w] = [o EXCEPT !.todo = o.rows]]
      BY <1>1, <1>7, <2>3 DEF StartsPass, GoTo, ProcTypes
    <3>2. [o EXCEPT !.todo = o.rows] \in Memory
      BY <1>1 DEF Memory
    <3>3. ProcTypes'
      BY <1>1, <1>4, <3>1, <3>2 DEF Pcs, Aiming, ProcTypes
    <3> QED BY <1>1, <1>2, <2>1, <3>3, SameRedis DEF Types
  <2> QED BY <2>2, <2>3
<1>8. CASE AddsGroup(w)
  <2>1. PICK x \in o.todo :
            \/ SetsGroup(x) /\ UNCHANGED mem
            \/ mem' = [mem EXCEPT ![w].todo = {<<x[1], 0>>}] /\ UNCHANGED group
    BY <1>8 DEF AddsGroup
  <2>2. /\ pc' = [pc EXCEPT ![w] = "addAction"] /\ UNCHANGED <<list, action, field>>
    BY <1>8 DEF AddsGroup, GoTo
  <2>3. CASE SetsGroup(x) /\ UNCHANGED mem
    <3>1. ProcTypes'
      BY <1>1, <1>3, <2>2, <2>3, MovesOn DEF Pcs, Aiming, ProcTypes
    <3>2. RedisTypes'
      BY <1>1, <2>2, <2>3, SetsTypes
    <3> QED BY <1>2, <3>1, <3>2 DEF Types
  <2>4. CASE mem' = [mem EXCEPT ![w].todo = {<<x[1], 0>>}] /\ UNCHANGED group
    <3> DEFINE t == {<<x[1], 0>>}
               m == [o EXCEPT !.todo = t]
    <3>1. t \subseteq Groups
      BY <1>1, <2>1, WithoutGroup
    <3>2. mem' = [mem EXCEPT ![w] = m]
      BY <1>1, <2>4 DEF ProcTypes
    <3> HIDE DEF t
    <3>3. m \in Memory
      BY <1>1, <3>1 DEF Memory
    <3> HIDE DEF m
    <3>4. ProcTypes'
      BY <1>1, <1>4, <2>2, <3>2, <3>3 DEF Pcs, Aiming, ProcTypes
    <3>5. RedisTypes'
      BY <1>1, <2>2, <2>4, SameRedis DEF redisVars
    <3> QED BY <1>2, <3>4, <3>5 DEF Types
  <2> QED BY <2>1, <2>3, <2>4
<1>9. CASE AddsAction(w)
  <2>1. PICK x \in o.todo : SetsAction(w, x)
    BY <1>9 DEF AddsAction
  <2>2. pc' = [pc EXCEPT ![w] = "addGet"] /\ UNCHANGED <<list, group, field, mem>>
    BY <1>9 DEF AddsAction, GoTo
  <2>3. ProcTypes'
    BY <1>1, <1>3, <2>2, MovesOn DEF Pcs, Aiming, ProcTypes
  <2>4. RedisTypes'
    BY <1>1, <2>1, <2>2, SetsTypes
  <2> QED BY <1>2, <2>3, <2>4 DEF Types
<1>10. CASE AddReadsList(w)
  <2> DEFINE c == IF Right THEN Listed ELSE {}
             right == Right
             m == [o EXCEPT !.copy = c, !.aimed = right]
  <2>1. /\ pc' = [pc EXCEPT ![w] = "addSet"]
        /\ mem' = [mem EXCEPT ![w].copy = c, ![w].aimed = right]
        /\ UNCHANGED <<redisVars, field>>
    BY <1>10, Zenon DEF AddReadsList, GoTo
  <2>2. c \subseteq Groups
    BY <1>1, ListedType
  <2>3. right \in BOOLEAN
    BY Zenon DEF Right
  <2> HIDE DEF c, right
  <2>4. mem' = [mem EXCEPT ![w] = m]
    BY <1>1, <2>1 DEF ProcTypes
  <2>5. m \in Memory
    BY <1>1, <2>2, <2>3 DEF Memory
  <2> HIDE DEF m
  <2>6. ProcTypes'
    BY <1>1, <1>4, <2>1, <2>4, <2>5 DEF Pcs, Aiming, ProcTypes
  <2> QED BY <1>1, <1>2, <2>1, <2>6, SameRedis DEF Types
<1>11. CASE AddsToList(w)
  <2>1. ProcTypes'
    BY <1>1, <1>3, <1>11, PassTypes DEF AddsToList
  <2>2. o.copy \subseteq Groups
    BY <1>1 DEF Memory
  <2>3. RedisTypes'
    BY <1>1, <1>11, <2>2 DEF AddsToList, RedisTypes
  <2> QED BY <1>2, <2>1, <2>3 DEF Types
<1> QED
  BY <1>5, <1>6, <1>7, <1>8, <1>9, <1>10, <1>11 DEF AddStep

\* The steps of a report.
LEMMA ReportTypes ==
  ASSUME Types, ReportStep
  PROVE  Types'
<1> DEFINE r == Report
           o == mem[r]
<1>1. /\ DbTypes /\ RedisTypes /\ ProcTypes
      /\ r \in Procs /\ o \in Memory /\ o.rows \subseteq Groups /\ o.todo \subseteq Groups
  BY DEF Types, ProcTypes, Procs, Memory
<1>2. UNCHANGED dbVars /\ faults' = faults
  BY DEF ReportStep, Execute, LooksUp, FillReadsRows, SetsNoTask, FillReadsConditions,
     FillReadsActions, FillSetsGroup, FillHasGroups, FillSetsAction, FillSetsList,
     FindsClosed, ReportEnds
<1>3. field' \in {"one", "multiple"}
  BY <1>1 DEF ReportStep, Execute, LooksUp, FillReadsRows, SetsNoTask, FillReadsConditions,
     FillReadsActions, FillSetsGroup, FillHasGroups, FillSetsAction, FillSetsList,
     FindsClosed, ReportEnds, ProcTypes
<1>4. DbTypes'
  BY <1>1, <1>2, SameDb
<1>5. ASSUME NEW l \in Pcs, NEW m \in Memory,
             pc' = [pc EXCEPT ![r] = l], mem' = [mem EXCEPT ![r] = m],
             l \in Aiming => m.scene \in Scenes
      PROVE  ProcTypes'
  BY <1>1, <1>2, <1>3, <1>5, Moves DEF ProcTypes
<1>6. FillRows \subseteq Groups /\ \A S \in SUBSET Scenes : ActionRows(S) \subseteq Groups
  BY <1>1, RowsType DEF FillRows
<1>7. ASSUME NEW x \in SUBSET Groups
      PROVE  /\ [o EXCEPT !.rows = x] \in Memory
             /\ [o EXCEPT !.todo = x] \in Memory
  BY <1>1, <1>7 DEF Memory
<1>8. CASE Execute
  <2>1. ProcTypes'
    BY <1>1, <1>2, <1>3, <1>8, MovesOn DEF Execute, GoTo, Pcs, Aiming
  <2> QED BY <1>1, <1>4, <1>8, <2>1, SameRedis DEF Execute, Types
<1>9. CASE LooksUp
  <2> DEFINE l == CASE list = Missing -> AfterMiss [] list = NoTask -> "idle" [] OTHER -> "hit"
  <2>1. l \in {"rows", "idle", "hit"}
    BY DEF AfterMiss
  <2>2. pc' = [pc EXCEPT ![r] = l]
    BY <1>9 DEF LooksUp, GoTo
  <2> HIDE DEF l
  <2>3. l \in Pcs /\ l \notin Aiming
    BY <2>1 DEF Pcs, Aiming
  <2>4. ProcTypes'
    BY <1>1, <1>2, <1>3, <1>9, <2>2, <2>3, MovesOn DEF LooksUp
  <2> QED BY <1>1, <1>4, <1>9, <2>4, SameRedis DEF LooksUp, Types
<1>10. CASE FillReadsRows
  <2>1. PICK l \in {"noTask", "conds"} : pc' = [pc EXCEPT ![r] = l]
    BY <1>10 DEF FillReadsRows, GoTo
  <2>2. mem' = [mem EXCEPT ![r] = [o EXCEPT !.rows = FillRows]] /\ UNCHANGED redisVars
    BY <1>10 DEF FillReadsRows
  <2>3. ProcTypes'
    BY <1>5, <1>6, <1>7, <2>1, <2>2 DEF Pcs, Aiming
  <2> QED BY <1>1, <1>4, <2>2, <2>3, SameRedis DEF Types
<1>11. CASE SetsNoTask
  <2>1. ProcTypes'
    BY <1>5, <1>11, BlankType DEF SetsNoTask, Ends, GoTo, Pcs, Aiming
  <2>2. RedisTypes'
    BY <1>1, <1>11 DEF SetsNoTask, RedisTypes
  <2> QED BY <1>4, <2>1, <2>2 DEF Types
<1>12. CASE FillReadsConditions
  <2>1. /\ pc' = [pc EXCEPT ![r] = "acts"] /\ UNCHANGED redisVars
        /\ mem' = [mem EXCEPT ![r] = [o EXCEPT !.rows = o.rows \cap FillRows]]
    BY <1>1, <1>12 DEF FillReadsConditions, GoTo, ProcTypes
  <2>2. [o EXCEPT !.rows = o.rows \cap FillRows] \in Memory
    BY <1>1, <1>7
  <2>3. ProcTypes'
    BY <1>5, <2>1, <2>2 DEF Pcs, Aiming
  <2> QED BY <1>1, <1>4, <2>1, <2>3, SameRedis DEF Types
<1>13. CASE FillReadsActions
  <2> DEFINE a == ActionRows(ScenesOf(o.rows))
             m == [o EXCEPT !.acts = a, !.todo = o.rows]
  <2>1. pc' = [pc EXCEPT ![r] = "group"] /\ mem' = [mem EXCEPT ![r] = m] /\ UNCHANGED redisVars
    BY <1>1, <1>13 DEF FillReadsActions, GoTo, ProcTypes
  <2>2. ScenesOf(o.rows) \subseteq Scenes
    BY <1>1 DEF ScenesOf, Groups
  <2>3. a \subseteq Groups
    BY <1>6, <2>2
  <2> HIDE DEF a
  <2>4. m \in Memory
    BY <1>1, <2>3 DEF Memory
  <2> HIDE DEF m
  <2>5. ProcTypes'
    BY <1>5, <2>1, <2>4 DEF Pcs, Aiming
  <2> QED BY <1>1, <1>4, <2>1, <2>5, SameRedis DEF Types
<1>14. CASE FillSetsGroup \/ FillSetsAction
  <2>1. PICK x \in o.todo : /\ \/ SetsGroup(x) /\ UNCHANGED action
                               \/ SetsAction(r, x) /\ UNCHANGED group
                            /\ mem' = [mem EXCEPT ![r].todo = @ \ {x}]
    BY <1>14 DEF FillSetsGroup, FillSetsAction
  <2>2. UNCHANGED <<list, pc, field>> /\ pc[r] \in {"group", "action"}
    BY <1>14 DEF FillSetsGroup, FillSetsAction
  <2>3. mem' = [mem EXCEPT ![r] = [o EXCEPT !.todo = o.todo \ {x}]]
    BY <1>1, <2>1 DEF ProcTypes
  <2>4. [o EXCEPT !.todo = o.todo \ {x}] \in Memory
    BY <1>1, <1>7
  <2>5. pc' = [pc EXCEPT ![r] = pc[r]]
    BY <1>1, <2>2 DEF ProcTypes
  <2>6. ProcTypes'
    BY <1>5, <2>2, <2>3, <2>4, <2>5 DEF Pcs, Aiming
  <2>7. RedisTypes'
    BY <1>1, <2>1, <2>2, SetsTypes
  <2> QED BY <1>4, <2>6, <2>7 DEF Types
<1>15. Complete \subseteq Groups
  BY <1>1 DEF Complete
<1>16. CASE FillHasGroups
  <2>1. /\ pc' = [pc EXCEPT ![r] = "action"] /\ UNCHANGED redisVars
        /\ mem' = [mem EXCEPT ![r] = [o EXCEPT !.todo = Complete]]
    BY <1>16 DEF FillHasGroups, GoTo
  <2>2. ProcTypes'
    BY <1>5, <1>7, <1>15, <2>1 DEF Pcs, Aiming
  <2> QED BY <1>1, <1>4, <2>1, <2>2, SameRedis DEF Types
<1>17. CASE FillSetsList
  <2>1. ProcTypes'
    BY <1>5, <1>17, BlankType DEF FillSetsList, GoTo, Pcs, Aiming
  <2>2. RedisTypes'
    BY <1>1, <1>15, <1>17 DEF FillSetsList, RedisTypes
  <2> QED BY <1>4, <2>1, <2>2 DEF Types
<1>18. CASE FindsClosed
  <2>1. PICK s \in Offered : mem' = [mem EXCEPT ![r].scene = s]
    BY <1>18 DEF FindsClosed
  <2>2. s \in Scenes
    BY <1>1, <2>1, ListedType DEF Offered, ScenesOf, Groups
  <2>3. [o EXCEPT !.scene = s] \in Memory /\ [o EXCEPT !.scene = s].scene = s
    BY <1>1, <2>2 DEF Memory
  <2>4. /\ pc' = [pc EXCEPT ![r] = "delMultiple"] /\ UNCHANGED redisVars
        /\ mem' = [mem EXCEPT ![r] = [o EXCEPT !.scene = s]]
    BY <1>18, <2>1 DEF FindsClosed, GoTo
  <2>5. ProcTypes'
    BY <1>5, <2>2, <2>3, <2>4 DEF Pcs
  <2> QED BY <1>1, <1>4, <2>4, <2>5, SameRedis DEF Types
<1>19. CASE ReportEnds
  <2>1. ProcTypes'
    BY <1>5, <1>19, BlankType DEF ReportEnds, Ends, GoTo, Pcs, Aiming
  <2> QED BY <1>1, <1>4, <1>19, <2>1, SameRedis DEF ReportEnds, Types
<1> QED
  BY <1>8, <1>9, <1>10, <1>11, <1>12, <1>13, <1>14, <1>16, <1>17, <1>18, <1>19 DEF ReportStep

\* Expiry removes keys, a fault or a restart ends goroutines.
LEMMA WorldTypes ==
  ASSUME Types,
         \/ ListExpires \/ (\E x \in group : GroupExpires(x))
         \/ (\E s \in Scenes : ActionExpires(s))
         \/ (\E p \in Procs : Fails(p)) \/ Restart \/ UNCHANGED vars
  PROVE  Types'
<1>1. DbTypes /\ RedisTypes /\ ProcTypes
  BY DEF Types
<1>2. DbTypes'
  BY <1>1, SameDb DEF ListExpires, GroupExpires, ActionExpires, Fails, Restart, vars
<1>3. CASE \/ ListExpires \/ (\E x \in group : GroupExpires(x))
           \/ (\E s \in Scenes : ActionExpires(s))
  <2>1. RedisTypes'
    BY <1>1, <1>3 DEF ListExpires, GroupExpires, ActionExpires, RedisTypes
  <2>2. UNCHANGED <<field, pc, mem>> /\ faults' \in Nat
    BY <1>1, <1>3 DEF ListExpires, GroupExpires, ActionExpires, Expires, ProcTypes
  <2> QED BY <1>1, <1>2, <2>1, <2>2 DEF Types, ProcTypes
<1>4. ASSUME NEW p \in Procs, Fails(p) PROVE Types'
  <2>1. faults' \in Nat /\ UNCHANGED <<redisVars, field>>
    BY <1>1, <1>4 DEF Fails, ProcTypes
  <2>2. ProcTypes'
    BY <1>1, <1>4, <2>1, BlankType, Moves DEF Fails, Ends, GoTo, Pcs, Aiming, ProcTypes
  <2> QED BY <1>1, <1>2, <2>1, <2>2, SameRedis DEF Types
<1>5. CASE Restart
  <2>1. ProcTypes'
    BY <1>1, <1>5, BlankType DEF Restart, ProcTypes, Pcs, Aiming
  <2> QED BY <1>1, <1>2, <1>5, <2>1, SameRedis DEF Restart, Types
<1>6. CASE UNCHANGED vars
  <2>1. UNCHANGED <<field, pc, mem, faults>>
    BY <1>6 DEF vars
  <2>2. ProcTypes'
    BY <1>1, <2>1 DEF ProcTypes
  <2> QED BY <1>1, <1>2, <1>6, <2>2, SameRedis DEF vars, Types
<1> QED
  BY <1>3, <1>4, <1>5, <1>6

LEMMA StepTypes == Types /\ [Next]_vars => Types'
  BY SaveTypes, RemovalTypes, DeleteTypes, AddTypes, ReportTypes, WorldTypes DEF Next

\* Every variable keeps its type: whatever races, the list holds groups of the
\* device's scenes, and no goroutine works on a scene that it was not given.
THEOREM TypeInvariant == Spec => []TypeOK
  BY InitTypes, StepTypes, TypesImply, PTL DEF Spec
=============================================================================
