------------------------- MODULE BattleEngineProofs -------------------------
(***************************************************************************)
(* What TLAPS proves of BattleEngine, for every map, every list of hazards *)
(* and every rule set that satisfies its assumptions.                      *)
(*                                                                         *)
(* The invariants of BattleEngine hold between two calls.  Inside a tick   *)
(* the clock has already advanced and the result is not yet settled, so    *)
(* the steps of a tick preserve Sound instead: the world is consistent and *)
(* the match is finished exactly when it is won.  Each operator of the     *)
(* tick has a lemma "...Sound"; AdvanceTickConsistent composes them.       *)
(*                                                                         *)
(* The action properties compare the two ends of a tick, and are proved    *)
(* the same way: Story says what is true, after any part of the tick, of   *)
(* the world it began with, the events it has reported and the commands it *)
(* has run.  Each operator of the tick carries the story on, and at the    *)
(* end of the tick it gives each property.                                 *)
(***************************************************************************)
EXTENDS BattleEngine, Runs, TLAPS

ObjectiveRecord ==
  [state : ObjectiveState, carrier : Player \cup {Nobody},
   place : Position, lock : Nat, respawn : Nat]

\* Every hazard makes the hero it hits drop the objective.
AllDrop == \A i \in 1 .. Len(Hazards) : Hazards[i].drops
\* Every hazard has a cooldown.
AllCool == \A i \in 1 .. Len(Hazards) : Hazards[i].cooldown > 0

Won(w) == \E p \in Player : w.score[p] >= ScoreLimit

\* The result while a tick is computed: the clock is not looked at yet.
MidTick(w) ==
  /\ w.finished <=> Won(w)
  /\ (w.objective.state = "Captured") <=> Won(w)
  /\ \A p \in Player : w.score[p] <= ScoreLimit
  /\ ~ \A p \in Player : w.score[p] >= ScoreLimit

Sound(w) ==
  /\ ObjectiveConsistent(w)
  /\ MidTick(w)
  /\ AllDrop => CarrierAlive(w)
  /\ AllCool => HazardConsistent(w)

SoundWorld == {w \in WorldRecord : Sound(w)}

\* Appending a report keeps the reports well formed.
LEMMA AppendEvent ==
  ASSUME NEW es \in Seq(EventRecord), NEW t \in EventType, NEW p \in Player \cup {Nobody}
  PROVE  Append(es, Event(t, p)) \in Seq(EventRecord)
BY DEF Event, EventRecord

\* There are two players, and Nobody is neither of them.
LEMMA PlayerTypes ==
  ASSUME NEW p \in Player
  PROVE  /\ p \in Player \cup {Nobody} /\ p # Nobody
         /\ Nobody \in Player \cup {Nobody}
         /\ Opponent(p) \in Player /\ Opponent(p) # p
         /\ \A q \in Player : q = p \/ q = Opponent(p)
BY PlayersAssumption DEF Player, Opponent

\* What PickUp changes, field by field.
LEMMA PickUpFields ==
  ASSUME NEW w \in WorldRecord, NEW p \in Player
  PROVE  LET v == PickUp(w, p)
         IN  /\ v \in WorldRecord
             /\ v.objective = [state |-> "Carried", carrier |-> p,
                               place |-> w.hero[p].place, lock |-> 0, respawn |-> 0]
             /\ v.hero = w.hero /\ v.score = w.score /\ v.hazard = w.hazard
             /\ v.finished = w.finished /\ v.tick = w.tick
             /\ v.events = Append(w.events, Event("ObjectivePickedUp", p))
<1>1. Append(w.events, Event("ObjectivePickedUp", p)) \in Seq(EventRecord)
  BY AppendEvent, PlayerTypes DEF WorldRecord, EventType
<1>2. w.hero[p].place \in Position
  BY DEF WorldRecord, HeroRecord
<1> QED
  BY <1>1, <1>2 DEF PickUp, WorldRecord, ObjectiveState

\* A live hero's pickup keeps the world sound (pickUp).
LEMMA PickUpSound ==
  ASSUME NEW w \in SoundWorld, NEW p \in Player, Alive(w, p), CanPickup(w, p)
  PROVE  PickUp(w, p) \in SoundWorld /\ Carries(PickUp(w, p), p)
<1> DEFINE v == PickUp(w, p)
<1>1. /\ v \in WorldRecord
      /\ v.objective = [state |-> "Carried", carrier |-> p,
                        place |-> w.hero[p].place, lock |-> 0, respawn |-> 0]
      /\ v.hero = w.hero /\ v.score = w.score /\ v.hazard = w.hazard
      /\ v.finished = w.finished /\ v.tick = w.tick
  BY PickUpFields DEF SoundWorld
<1> HIDE DEF v
<1>2. Sound(w)
  BY DEF SoundWorld
<1>3. ObjectiveConsistent(v)
  BY <1>1, PlayerTypes DEF ObjectiveConsistent, Carries
<1>4. MidTick(v)
  BY <1>1, <1>2 DEF Sound, MidTick, Won, CanPickup
<1>5. AllDrop => CarrierAlive(v)
  BY <1>1 DEF CarrierAlive, Carries, Alive
<1>6. AllCool => HazardConsistent(v)
  BY <1>1, <1>2 DEF Sound, HazardConsistent
<1> QED
  BY <1>1, <1>3, <1>4, <1>5, <1>6 DEF SoundWorld, Sound, Carries, v

\* What counting a capture changes, field by field.
LEMMA ScoredFields ==
  ASSUME NEW w \in WorldRecord, NEW p \in Player
  PROVE  LET v == Scored(w, p)
         IN  /\ v \in WorldRecord
             /\ v.score = [w.score EXCEPT ![p] = w.score[p] + 1]
             /\ v.hero = w.hero /\ v.objective = w.objective /\ v.hazard = w.hazard
             /\ v.finished = w.finished /\ v.tick = w.tick
             /\ v.events = Append(w.events, Event("ObjectiveCaptured", p))
<1> DEFINE sc == [w.score EXCEPT ![p] = w.score[p] + 1]
           es == Append(w.events, Event("ObjectiveCaptured", p))
<1>1. es \in Seq(EventRecord)
  BY AppendEvent, PlayerTypes DEF WorldRecord, EventType
<1>2. w.score \in [Player -> Nat]
  BY DEF WorldRecord
<1>3. sc \in [Player -> Nat]
  BY <1>2
<1>4. Scored(w, p) = [w EXCEPT !.score = sc, !.events = es]
  BY DEF Scored
<1> HIDE DEF sc, es
<1>5. LET v == [w EXCEPT !.score = sc, !.events = es]
      IN  /\ v \in WorldRecord /\ v.score = sc /\ v.events = es
          /\ v.hero = w.hero /\ v.objective = w.objective /\ v.hazard = w.hazard
          /\ v.finished = w.finished /\ v.tick = w.tick
  BY <1>1, <1>3 DEF WorldRecord
<1> QED
  BY <1>4, <1>5 DEF sc, es

\* Where a capture leaves the objective is well typed.
LEMMA LeftAtType ==
  ASSUME NEW w \in WorldRecord, NEW p \in Player, NEW s \in ObjectiveState, NEW n \in Nat
  PROVE  LeftAt(w, p, s, n) \in ObjectiveRecord
BY DEF LeftAt, ObjectiveRecord, WorldRecord, HeroRecord

\* What Capture changes, field by field.
LEMMA CaptureFields ==
  ASSUME NEW w \in WorldRecord, NEW p \in Player
  PROVE  LET v == Capture(w, p)
             points == w.score[p] + 1
         IN  /\ v \in WorldRecord
             /\ v.score = [w.score EXCEPT ![p] = points]
             /\ v.hero = w.hero /\ v.hazard = w.hazard /\ v.tick = w.tick
             /\ points >= ScoreLimit =>
                  v.finished = TRUE /\ v.objective = LeftAt(w, p, "Captured", 0)
             /\ points < ScoreLimit =>
                  /\ v.finished = w.finished
                  /\ v.objective = IF RespawnDelay = 0 THEN LeftAt(w, p, "AtSpawn", 0)
                                   ELSE LeftAt(w, p, "Respawning", RespawnDelay)
             /\ LET told == Append(w.events, Event("ObjectiveCaptured", p))
                IN  v.events = IF points >= ScoreLimit
                               THEN Append(told, Event("MatchFinished", p))
                               ELSE IF RespawnDelay = 0
                               THEN Append(told, Event("ObjectiveRespawned", Nobody))
                               ELSE told
<1> DEFINE s == Scored(w, p)
           won == Append(s.events, Event("MatchFinished", p))
           back == Append(s.events, Event("ObjectiveRespawned", Nobody))
<1>1. /\ s \in WorldRecord
      /\ s.score = [w.score EXCEPT ![p] = w.score[p] + 1]
      /\ s.hero = w.hero /\ s.hazard = w.hazard
      /\ s.finished = w.finished /\ s.tick = w.tick
      /\ s.events = Append(w.events, Event("ObjectiveCaptured", p))
  BY ScoredFields
<1>2. s.score[p] = w.score[p] + 1 /\ s.score[p] \in Nat
  BY <1>1 DEF WorldRecord
<1>3. won \in Seq(EventRecord) /\ back \in Seq(EventRecord)
  BY <1>1, AppendEvent, PlayerTypes DEF WorldRecord, EventType
<1>4. /\ LeftAt(w, p, "Captured", 0) \in ObjectiveRecord
      /\ LeftAt(w, p, "AtSpawn", 0) \in ObjectiveRecord
      /\ LeftAt(w, p, "Respawning", RespawnDelay) \in ObjectiveRecord
  BY LeftAtType, RulesAssumption DEF ObjectiveState
<1>5. Capture(w, p) =
        IF s.score[p] >= ScoreLimit
        THEN [s EXCEPT !.objective = LeftAt(w, p, "Captured", 0), !.finished = TRUE,
                       !.events = won]
        ELSE IF RespawnDelay = 0
        THEN [s EXCEPT !.objective = LeftAt(w, p, "AtSpawn", 0), !.events = back]
        ELSE [s EXCEPT !.objective = LeftAt(w, p, "Respawning", RespawnDelay)]
  BY DEF Capture
<1>9. /\ won = Append(s.events, Event("MatchFinished", p))
      /\ back = Append(s.events, Event("ObjectiveRespawned", Nobody))
  OBVIOUS
<1> HIDE DEF s, won, back
<1> DEFINE v == Capture(w, p)
<1>6. CASE s.score[p] >= ScoreLimit
  <2>1. v = [s EXCEPT !.objective = LeftAt(w, p, "Captured", 0), !.finished = TRUE,
                      !.events = won]
    BY <1>5, <1>6
  <2> HIDE DEF v
  <2>2. /\ v \in WorldRecord
        /\ v.score = s.score /\ v.hero = s.hero /\ v.hazard = s.hazard /\ v.tick = s.tick
        /\ v.finished = TRUE /\ v.objective = LeftAt(w, p, "Captured", 0)
        /\ v.events = won
    BY <2>1, <1>1, <1>3, <1>4 DEF WorldRecord, ObjectiveRecord
  <2> QED
    BY <2>2, <1>1, <1>2, <1>6, <1>9, RulesAssumption DEF v
<1>7. CASE ~(s.score[p] >= ScoreLimit) /\ RespawnDelay = 0
  <2>1. v = [s EXCEPT !.objective = LeftAt(w, p, "AtSpawn", 0), !.events = back]
    BY <1>5, <1>7
  <2> HIDE DEF v
  <2>2. /\ v \in WorldRecord
        /\ v.score = s.score /\ v.hero = s.hero /\ v.hazard = s.hazard /\ v.tick = s.tick
        /\ v.finished = s.finished /\ v.objective = LeftAt(w, p, "AtSpawn", 0)
        /\ v.events = back
    BY <2>1, <1>1, <1>3, <1>4 DEF WorldRecord, ObjectiveRecord
  <2> QED
    BY <2>2, <1>1, <1>2, <1>7, <1>9, RulesAssumption DEF v
<1>8. CASE ~(s.score[p] >= ScoreLimit) /\ RespawnDelay # 0
  <2>1. v = [s EXCEPT !.objective = LeftAt(w, p, "Respawning", RespawnDelay)]
    BY <1>5, <1>8
  <2> HIDE DEF v
  <2>2. /\ v \in WorldRecord
        /\ v.score = s.score /\ v.hero = s.hero /\ v.hazard = s.hazard /\ v.tick = s.tick
        /\ v.finished = s.finished /\ v.objective = LeftAt(w, p, "Respawning", RespawnDelay)
        /\ v.events = s.events
    BY <2>1, <1>1, <1>4 DEF WorldRecord, ObjectiveRecord
  <2> QED
    BY <2>2, <1>1, <1>2, <1>8, <1>9, RulesAssumption DEF v
<1> QED
  BY <1>6, <1>7, <1>8

\* A carrier's capture keeps the world sound: the score passes the limit only
\* when the match ends with it (captureObjective).
LEMMA CaptureSound ==
  ASSUME NEW w \in SoundWorld, NEW p \in Player, Carries(w, p)
  PROVE  Capture(w, p) \in SoundWorld
<1> DEFINE v == Capture(w, p)
           points == w.score[p] + 1
<1>1. w \in WorldRecord /\ Sound(w)
  BY DEF SoundWorld
<1>2. /\ v \in WorldRecord
      /\ v.score = [w.score EXCEPT ![p] = points]
      /\ v.hero = w.hero /\ v.hazard = w.hazard /\ v.tick = w.tick
      /\ points >= ScoreLimit =>
           v.finished = TRUE /\ v.objective = LeftAt(w, p, "Captured", 0)
      /\ points < ScoreLimit =>
           /\ v.finished = w.finished
           /\ v.objective = IF RespawnDelay = 0 THEN LeftAt(w, p, "AtSpawn", 0)
                            ELSE LeftAt(w, p, "Respawning", RespawnDelay)
  BY <1>1, CaptureFields
<1>3. w.score \in [Player -> Nat] /\ points \in Nat /\ ScoreLimit \in Nat
  BY <1>1, RulesAssumption DEF WorldRecord
<1>4. v.score[p] = points /\ \A q \in Player : q # p => v.score[q] = w.score[q]
  BY <1>2, <1>3
<1>5. w.objective.lock = 0
  BY <1>1, RulesAssumption DEF Sound, ObjectiveConsistent, Carries, WorldRecord
<1>6. /\ ~Won(w) /\ ~w.finished
      /\ \A q \in Player : w.score[q] < ScoreLimit
  BY <1>1, <1>3 DEF Sound, MidTick, Carries, Won
<1> HIDE DEF v, points
<1>7. /\ v.objective.carrier = Nobody /\ v.objective.lock = 0
      /\ v.objective.state # "Carried"
      /\ (v.objective.state = "Respawning") <=> (v.objective.respawn > 0)
      /\ v.objective.state = "AtSpawn" => RespawnDelay = 0
      /\ (v.objective.state = "Captured") <=> (points >= ScoreLimit)
      /\ v.finished <=> (points >= ScoreLimit)
  BY <1>2, <1>3, <1>5, <1>6, RulesAssumption DEF LeftAt
<1>8. ObjectiveConsistent(v)
  BY <1>7, PlayersAssumption, RulesAssumption DEF ObjectiveConsistent, Carries
<1>9. MidTick(v)
  <2>1. Won(v) <=> points >= ScoreLimit
    BY <1>3, <1>4, <1>6 DEF Won
  <2>2. \A q \in Player : v.score[q] <= ScoreLimit
    BY <1>3, <1>4, <1>6 DEF points
  <2>3. ~ \A q \in Player : v.score[q] >= ScoreLimit
    BY <1>3, <1>4, <1>6, PlayerTypes
  <2> QED
    BY <1>7, <2>1, <2>2, <2>3 DEF MidTick
<1>10. AllDrop => CarrierAlive(v)
  BY <1>7 DEF CarrierAlive, Carries
<1>11. AllCool => HazardConsistent(v)
  BY <1>1, <1>2 DEF Sound, HazardConsistent
<1> QED
  BY <1>2, <1>8, <1>9, <1>10, <1>11 DEF SoundWorld, Sound, v

\* Picking up by contact keeps the world sound (updateObjectiveContact).
LEMMA UpdateContactSound ==
  ASSUME NEW w \in SoundWorld
  PROVE  UpdateContact(w) \in SoundWorld
<1> DEFINE able == {p \in Player : Alive(w, p) /\ CanPickup(w, p)}
           p == IF Blue \in able THEN Blue ELSE Red
<1>1. CASE able = {}
  BY <1>1 DEF UpdateContact
<1>2. CASE able # {}
  <2>1. p \in Player /\ Alive(w, p) /\ CanPickup(w, p)
    BY <1>2 DEF Player
  <2>2. UpdateContact(w) = IF InOwnBase(w, p) THEN Capture(PickUp(w, p), p) ELSE PickUp(w, p)
    BY <1>2 DEF UpdateContact
  <2> HIDE DEF p
  <2>3. PickUp(w, p) \in SoundWorld /\ Carries(PickUp(w, p), p)
    BY <2>1, PickUpSound
  <2>4. Capture(PickUp(w, p), p) \in SoundWorld
    BY <2>1, <2>3, CaptureSound
  <2> QED
    BY <2>2, <2>3, <2>4
<1> QED
  BY <1>1, <1>2

(***************************************************************************)
(* Changing one hero.                                                      *)
(***************************************************************************)
\* What replacing one hero changes, field by field.
LEMMA HeroUpdate ==
  ASSUME NEW w \in WorldRecord, NEW p \in Player, NEW h \in HeroRecord
  PROVE  LET v == [w EXCEPT !.hero[p] = h]
         IN  /\ v \in WorldRecord
             /\ v.hero = [w.hero EXCEPT ![p] = h]
             /\ v.objective = w.objective /\ v.score = w.score /\ v.hazard = w.hazard
             /\ v.finished = w.finished /\ v.tick = w.tick /\ v.events = w.events
<1> DEFINE hs == [w.hero EXCEPT ![p] = h]
<1>1. w.hero \in [Player -> HeroRecord]
  BY DEF WorldRecord
<1>2. hs \in [Player -> HeroRecord]
  BY <1>1
<1>3. [w EXCEPT !.hero[p] = h] = [w EXCEPT !.hero = hs]
  OBVIOUS
<1> HIDE DEF hs
<1>4. LET v == [w EXCEPT !.hero = hs]
      IN  /\ v \in WorldRecord /\ v.hero = hs
          /\ v.objective = w.objective /\ v.score = w.score /\ v.hazard = w.hazard
          /\ v.finished = w.finished /\ v.tick = w.tick /\ v.events = w.events
  BY <1>2 DEF WorldRecord
<1> QED
  BY <1>3, <1>4 DEF hs

\* A hero that stays where it is and alive may change in any other way.
LEMMA HeroUpdateSound ==
  ASSUME NEW w \in SoundWorld, NEW p \in Player, NEW h \in HeroRecord,
         h.place = w.hero[p].place, h.hp = w.hero[p].hp
  PROVE  [w EXCEPT !.hero[p] = h] \in SoundWorld
<1> DEFINE v == [w EXCEPT !.hero[p] = h]
<1>1. w \in WorldRecord /\ Sound(w)
  BY DEF SoundWorld
<1>2. /\ v \in WorldRecord
      /\ v.hero = [w.hero EXCEPT ![p] = h]
      /\ v.objective = w.objective /\ v.score = w.score /\ v.hazard = w.hazard
      /\ v.finished = w.finished
  BY <1>1, HeroUpdate
<1>3. \A q \in Player : v.hero[q].place = w.hero[q].place /\ v.hero[q].hp = w.hero[q].hp
  BY <1>1, <1>2 DEF WorldRecord
<1> HIDE DEF v
<1>4. ObjectiveConsistent(v)
  BY <1>1, <1>2, <1>3 DEF Sound, ObjectiveConsistent, Carries
<1>5. MidTick(v)
  BY <1>1, <1>2 DEF Sound, MidTick, Won
<1>6. AllDrop => CarrierAlive(v)
  BY <1>1, <1>2, <1>3 DEF Sound, CarrierAlive, Carries, Alive
<1>7. AllCool => HazardConsistent(v)
  BY <1>1, <1>2 DEF Sound, HazardConsistent
<1> QED
  BY <1>2, <1>4, <1>5, <1>6, <1>7 DEF SoundWorld, Sound, v

(***************************************************************************)
(* Damage.                                                                 *)
(***************************************************************************)
\* What DropFromSystem changes, field by field.
LEMMA DropFields ==
  ASSUME NEW w \in WorldRecord, NEW p \in Player
  PROVE  LET v == DropFromSystem(w, p)
         IN  /\ v \in WorldRecord
             /\ v.objective = DroppedAt(w, p)
             /\ v.hero = w.hero /\ v.score = w.score /\ v.hazard = w.hazard
             /\ v.finished = w.finished /\ v.tick = w.tick
             /\ v.events = Append(w.events, Event("ObjectiveDropped", p))
<1>1. Append(w.events, Event("ObjectiveDropped", p)) \in Seq(EventRecord)
  BY AppendEvent, PlayerTypes DEF WorldRecord, EventType
<1>2. DroppedAt(w, p) \in ObjectiveRecord
  BY RulesAssumption DEF DroppedAt, ObjectiveRecord, WorldRecord, HeroRecord, ObjectiveState
<1> QED
  BY <1>1, <1>2 DEF DropFromSystem, WorldRecord, ObjectiveRecord

\* What replacing the reports changes, field by field.
LEMMA EventUpdate ==
  ASSUME NEW w \in WorldRecord, NEW es \in Seq(EventRecord)
  PROVE  LET v == [w EXCEPT !.events = es]
         IN  /\ v \in WorldRecord /\ v.events = es
             /\ v.objective = w.objective /\ v.hero = w.hero /\ v.score = w.score
             /\ v.hazard = w.hazard /\ v.finished = w.finished /\ v.tick = w.tick
BY DEF WorldRecord

\* Two worlds that differ in their reports only are equally sound.
LEMMA EventUpdateSound ==
  ASSUME NEW w \in SoundWorld, NEW es \in Seq(EventRecord)
  PROVE  [w EXCEPT !.events = es] \in SoundWorld
<1> DEFINE v == [w EXCEPT !.events = es]
<1>1. w \in WorldRecord /\ Sound(w)
  BY DEF SoundWorld
<1>2. /\ v \in WorldRecord
      /\ v.objective = w.objective /\ v.hero = w.hero /\ v.score = w.score
      /\ v.hazard = w.hazard /\ v.finished = w.finished
  BY <1>1, EventUpdate
<1> HIDE DEF v
<1>3. Sound(v)
  BY <1>1, <1>2 DEF Sound, ObjectiveConsistent, MidTick, Won, CarrierAlive, HazardConsistent,
                    Carries, Alive
<1> QED
  BY <1>2, <1>3 DEF SoundWorld, v

\* What damage to a live hero changes, field by field.
LEMMA ApplyDamageFields ==
  ASSUME NEW w \in WorldRecord, NEW p \in Player, NEW damage \in Nat, NEW drops \in BOOLEAN,
         Alive(w, p)
  PROVE  LET v == ApplyDamage(w, p, damage, drops)
         IN  /\ v \in WorldRecord
             /\ \A q \in Player : v.hero[q].place = w.hero[q].place
             /\ \A q \in Player : q # p => v.hero[q] = w.hero[q]
             /\ v.hero[p].attackCd = w.hero[p].attackCd
             /\ v.objective = IF drops /\ Carries(w, p) THEN DroppedAt(w, p) ELSE w.objective
             /\ v.score = w.score /\ v.hazard = w.hazard
             /\ v.finished = w.finished /\ v.tick = w.tick
             /\ LET told == IF drops /\ Carries(w, p)
                            THEN Append(w.events, Event("ObjectiveDropped", p)) ELSE w.events
                IN  v.events = IF Alive(v, p) THEN told
                               ELSE Append(told, Event("PlayerDefeated", p))
<1> DEFINE told == IF drops /\ Carries(w, p)
                   THEN Append(w.events, Event("ObjectiveDropped", p)) ELSE w.events
           hp == IF w.hero[p].hp > damage THEN w.hero[p].hp - damage ELSE 0
           h1 == [w.hero[p] EXCEPT !.hp = hp]
           hurt == [w EXCEPT !.hero[p].hp = IF @ > damage THEN @ - damage ELSE 0]
           dropped == IF drops /\ Carries(w, p) THEN DropFromSystem(hurt, p) ELSE hurt
           es == Append(dropped.events, Event("PlayerDefeated", p))
           h2 == [dropped.hero[p] EXCEPT !.heading = Still]
           fell == [dropped EXCEPT !.hero[p] = h2]
<1>1. w.hero[p] \in HeroRecord /\ w.hero \in [Player -> HeroRecord]
  BY DEF WorldRecord
<1>2. hp \in Nat
  BY <1>1 DEF HeroRecord
<1>3. h1 \in HeroRecord /\ h1.place = w.hero[p].place /\ h1.attackCd = w.hero[p].attackCd
  BY <1>1, <1>2 DEF HeroRecord
<1>4. hurt = [w EXCEPT !.hero[p] = h1]
  OBVIOUS
<1>5. ApplyDamage(w, p, damage, drops) =
        IF Alive(hurt, p) THEN dropped
        ELSE [dropped EXCEPT !.hero[p].heading = Still,
                             !.events = Append(@, Event("PlayerDefeated", p))]
  BY DEF ApplyDamage
<1> HIDE DEF h1, hurt
<1>6. /\ hurt \in WorldRecord
      /\ hurt.hero = [w.hero EXCEPT ![p] = h1]
      /\ hurt.objective = w.objective /\ hurt.score = w.score /\ hurt.hazard = w.hazard
      /\ hurt.finished = w.finished /\ hurt.tick = w.tick /\ hurt.events = w.events
  BY <1>3, <1>4, HeroUpdate
<1>7. DroppedAt(hurt, p) = DroppedAt(w, p)
  BY <1>1, <1>3, <1>6 DEF DroppedAt
<1>8. /\ dropped \in WorldRecord
      /\ dropped.hero = hurt.hero
      /\ dropped.objective = IF drops /\ Carries(w, p) THEN DroppedAt(w, p) ELSE w.objective
      /\ dropped.score = w.score /\ dropped.hazard = w.hazard
      /\ dropped.finished = w.finished /\ dropped.tick = w.tick
      /\ dropped.events = told
  <2> DEFINE v == DropFromSystem(hurt, p)
  <2>1. /\ v \in WorldRecord
        /\ v.objective = DroppedAt(hurt, p)
        /\ v.hero = hurt.hero /\ v.score = hurt.score /\ v.hazard = hurt.hazard
        /\ v.finished = hurt.finished /\ v.tick = hurt.tick
        /\ v.events = Append(hurt.events, Event("ObjectiveDropped", p))
    BY <1>6, DropFields
  <2> HIDE DEF v
  <2>2. CASE drops /\ Carries(w, p)
    <3>1. dropped = v
      BY <2>2 DEF v
    <3> QED
      BY <1>6, <1>7, <2>1, <2>2, <3>1
  <2>3. CASE ~(drops /\ Carries(w, p))
    <3>1. dropped = hurt
      BY <2>3
    <3> QED
      BY <1>6, <2>3, <3>1
  <2> QED
    BY <2>2, <2>3
<1> HIDE DEF dropped, told
<1>9. /\ dropped.hero[p] \in HeroRecord /\ dropped.hero[p].place = w.hero[p].place
      /\ dropped.hero[p].attackCd = w.hero[p].attackCd
      /\ dropped.hero[p].hp = hurt.hero[p].hp
      /\ \A q \in Player : q # p => dropped.hero[q] = w.hero[q]
  BY <1>1, <1>3, <1>6, <1>8
<1>10. /\ h2 \in HeroRecord /\ h2.place = w.hero[p].place
       /\ h2.attackCd = w.hero[p].attackCd /\ h2.hp = dropped.hero[p].hp
  BY <1>9, GeometryAssumption DEF HeroRecord
<1>11. es \in Seq(EventRecord)
  BY <1>8, AppendEvent, PlayerTypes DEF WorldRecord, EventType
<1>12. [dropped EXCEPT !.hero[p].heading = Still,
                       !.events = Append(@, Event("PlayerDefeated", p))]
         = [fell EXCEPT !.events = es]
  BY DEF fell, h2, es
<1> HIDE DEF h2
<1>13. /\ fell \in WorldRecord
       /\ fell.hero = [dropped.hero EXCEPT ![p] = h2]
       /\ fell.objective = dropped.objective /\ fell.score = w.score /\ fell.hazard = w.hazard
       /\ fell.finished = w.finished /\ fell.tick = w.tick
  BY <1>8, <1>10, HeroUpdate
<1> DEFINE v == [fell EXCEPT !.events = es]
<1> HIDE DEF fell, es
<1>14. /\ v \in WorldRecord
       /\ v.hero = fell.hero /\ v.objective = fell.objective
       /\ v.score = w.score /\ v.hazard = w.hazard
       /\ v.finished = w.finished /\ v.tick = w.tick /\ v.events = es
  BY <1>11, <1>13, EventUpdate
<1> HIDE DEF v
<1>15. /\ \A q \in Player : v.hero[q].place = w.hero[q].place
       /\ \A q \in Player : q # p => v.hero[q] = w.hero[q]
       /\ v.hero[p].attackCd = w.hero[p].attackCd /\ v.hero[p].hp = hurt.hero[p].hp
  BY <1>1, <1>6, <1>8, <1>9, <1>10, <1>13, <1>14
<1>16. CASE Alive(hurt, p)
  <2>1. Alive(dropped, p)
    BY <1>8, <1>16 DEF Alive
  <2> QED
    BY <1>5, <1>8, <1>9, <1>16, <2>1 DEF told
<1>17. CASE ~Alive(hurt, p)
  <2>1. ApplyDamage(w, p, damage, drops) = v
    BY <1>5, <1>12, <1>17 DEF v
  <2>2. ~Alive(v, p)
    BY <1>15, <1>17 DEF Alive
  <2>3. v.events = Append(told, Event("PlayerDefeated", p))
    BY <1>8, <1>14 DEF es
  <2> QED
    BY <2>1, <2>2, <2>3, <1>8, <1>13, <1>14, <1>15 DEF told
<1> QED
  BY <1>16, <1>17

\* Damage keeps the world sound; the carrier stays alive only when damage drops
\* the objective (applyDamage).
LEMMA ApplyDamageSound ==
  ASSUME NEW w \in SoundWorld, NEW p \in Player, NEW damage \in Nat, NEW drops \in BOOLEAN,
         AllDrop => drops
  PROVE  ApplyDamage(w, p, damage, drops) \in SoundWorld
<1> DEFINE v == ApplyDamage(w, p, damage, drops)
<1>1. w \in WorldRecord /\ Sound(w)
  BY DEF SoundWorld
<1>2. CASE ~Alive(w, p)
  BY <1>2 DEF ApplyDamage
<1>3. CASE Alive(w, p)
  <2>1. /\ v \in WorldRecord
        /\ \A q \in Player : v.hero[q].place = w.hero[q].place
        /\ \A q \in Player : q # p => v.hero[q] = w.hero[q]
        /\ v.objective = IF drops /\ Carries(w, p) THEN DroppedAt(w, p) ELSE w.objective
        /\ v.score = w.score /\ v.hazard = w.hazard
        /\ v.finished = w.finished /\ v.tick = w.tick
    BY <1>1, <1>3, ApplyDamageFields
  <2> HIDE DEF v
  <2>2. drops /\ Carries(w, p) => ~Carries(v, p) /\ ~Won(w)
    BY <1>1, <2>1 DEF DroppedAt, Carries, Sound, MidTick
  <2>3. ObjectiveConsistent(v)
    <3>1. CASE drops /\ Carries(w, p)
      BY <2>1, <3>1, PlayersAssumption DEF DroppedAt, ObjectiveConsistent, Carries
    <3>2. CASE ~(drops /\ Carries(w, p))
      BY <1>1, <2>1, <3>2 DEF Sound, ObjectiveConsistent, Carries
    <3> QED
      BY <3>1, <3>2
  <2>4. MidTick(v)
    <3>1. Won(v) <=> Won(w)
      BY <2>1 DEF Won
    <3>2. (v.objective.state = "Captured") <=> Won(w)
      BY <1>1, <2>1, <2>2 DEF Sound, MidTick, DroppedAt
    <3> QED
      BY <1>1, <2>1, <3>1, <3>2 DEF Sound, MidTick
  <2>5. AllDrop => CarrierAlive(v)
    <3>1. CASE drops /\ Carries(w, p)
      BY <2>1, <3>1 DEF DroppedAt, CarrierAlive, Carries
    <3>2. CASE ~(drops /\ Carries(w, p))
      BY <1>1, <2>1, <3>2 DEF Sound, CarrierAlive, Carries, Alive
    <3> QED
      BY <3>1, <3>2
  <2>6. AllCool => HazardConsistent(v)
    BY <1>1, <2>1 DEF Sound, HazardConsistent
  <2> QED
    BY <2>1, <2>3, <2>4, <2>5, <2>6 DEF SoundWorld, Sound, v
<1> QED
  BY <1>2, <1>3

\* An attack keeps the world sound (performAttack).
LEMMA PerformAttackSound ==
  ASSUME NEW w \in SoundWorld, NEW p \in Player, NEW d \in Direction
  PROVE  PerformAttack(w, p, d) \in SoundWorld
<1> DEFINE h == [w.hero[p] EXCEPT !.attackCd = AttackCooldown]
           aimed == [w EXCEPT !.hero[p].attackCd = AttackCooldown]
           target == Opponent(p)
           es == Append(aimed.events, Event("AttackHit", target))
           hit == [aimed EXCEPT !.events = es]
<1>1. w \in WorldRecord /\ w.hero[p] \in HeroRecord
  BY DEF SoundWorld, WorldRecord
<1>2. h \in HeroRecord /\ h.place = w.hero[p].place /\ h.hp = w.hero[p].hp
  BY <1>1, RulesAssumption DEF HeroRecord
<1>3. aimed = [w EXCEPT !.hero[p] = h]
  OBVIOUS
<1>4. \/ PerformAttack(w, p, d) = aimed
      \/ PerformAttack(w, p, d) = ApplyDamage(hit, target, AttackDamage, TRUE)
  BY DEF PerformAttack
<1> HIDE DEF h, aimed
<1>5. aimed \in SoundWorld
  BY <1>2, <1>3, HeroUpdateSound
<1>6. es \in Seq(EventRecord)
  BY <1>5, AppendEvent, PlayerTypes DEF SoundWorld, WorldRecord, EventType
<1> HIDE DEF es
<1>7. hit \in SoundWorld
  BY <1>5, <1>6, EventUpdateSound
<1> HIDE DEF hit
<1>8. ApplyDamage(hit, target, AttackDamage, TRUE) \in SoundWorld
  BY <1>7, ApplyDamageSound, PlayerTypes, RulesAssumption
<1> QED
  BY <1>4, <1>5, <1>8

(***************************************************************************)
(* Movement.                                                               *)
(***************************************************************************)
\* What moving a hero changes, field by field.
LEMMA RelocateFields ==
  ASSUME NEW w \in WorldRecord, NEW p \in Player, NEW to \in Position
  PROVE  LET v == Relocate(w, p, to)
         IN  /\ v \in WorldRecord
             /\ v.hero = [w.hero EXCEPT ![p] = [w.hero[p] EXCEPT !.place = to]]
             /\ v.objective = [w.objective EXCEPT !.place = IF Carries(w, p) THEN to ELSE @]
             /\ v.score = w.score /\ v.hazard = w.hazard
             /\ v.finished = w.finished /\ v.tick = w.tick /\ v.events = w.events
<1> DEFINE h == [w.hero[p] EXCEPT !.place = to]
           o == [w.objective EXCEPT !.place = IF Carries(w, p) THEN to ELSE @]
           moved == [w EXCEPT !.hero[p] = h]
<1>1. w.hero[p] \in HeroRecord /\ w.objective \in ObjectiveRecord
  BY DEF WorldRecord, ObjectiveRecord
<1>2. h \in HeroRecord
  BY <1>1 DEF HeroRecord
<1>3. o \in ObjectiveRecord
  BY <1>1 DEF ObjectiveRecord
<1>4. Relocate(w, p, to) = [moved EXCEPT !.objective = o]
  BY DEF Relocate
<1> HIDE DEF h, o
<1>5. /\ moved \in WorldRecord
      /\ moved.hero = [w.hero EXCEPT ![p] = h]
      /\ moved.score = w.score /\ moved.hazard = w.hazard
      /\ moved.finished = w.finished /\ moved.tick = w.tick /\ moved.events = w.events
  BY <1>2, HeroUpdate
<1> HIDE DEF moved
<1>6. LET v == [moved EXCEPT !.objective = o]
      IN  /\ v \in WorldRecord /\ v.objective = o
          /\ v.hero = moved.hero /\ v.score = moved.score /\ v.hazard = moved.hazard
          /\ v.finished = moved.finished /\ v.tick = moved.tick /\ v.events = moved.events
  BY <1>3, <1>5 DEF WorldRecord, ObjectiveRecord
<1> QED
  BY <1>4, <1>5, <1>6 DEF h, o

\* Moving a hero keeps the world sound: a carried objective comes along.
LEMMA RelocateSound ==
  ASSUME NEW w \in SoundWorld, NEW p \in Player, NEW to \in Position
  PROVE  LET v == Relocate(w, p, to)
         IN  /\ v \in SoundWorld
             /\ Carries(v, p) <=> Carries(w, p)
<1> DEFINE v == Relocate(w, p, to)
<1>1. w \in WorldRecord /\ Sound(w)
  BY DEF SoundWorld
<1>2. /\ v \in WorldRecord
      /\ v.hero = [w.hero EXCEPT ![p] = [w.hero[p] EXCEPT !.place = to]]
      /\ v.objective = [w.objective EXCEPT !.place = IF Carries(w, p) THEN to ELSE @]
      /\ v.score = w.score /\ v.hazard = w.hazard
      /\ v.finished = w.finished /\ v.tick = w.tick
  BY <1>1, RelocateFields
<1> HIDE DEF v
<1>3. /\ \A q \in Player : v.hero[q].hp = w.hero[q].hp
      /\ \A q \in Player : v.hero[q].place = IF q = p THEN to ELSE w.hero[q].place
  <2> DEFINE h == [w.hero[p] EXCEPT !.place = to]
  <2>1. w.hero \in [Player -> HeroRecord] /\ w.hero[p] \in HeroRecord
    BY <1>1 DEF WorldRecord
  <2>2. h.place = to /\ h.hp = w.hero[p].hp
    BY <2>1 DEF HeroRecord
  <2>3. v.hero = [w.hero EXCEPT ![p] = h]
    BY <1>2
  <2> HIDE DEF h
  <2> QED
    BY <2>1, <2>2, <2>3
<1>4. /\ v.objective.state = w.objective.state /\ v.objective.carrier = w.objective.carrier
      /\ v.objective.lock = w.objective.lock /\ v.objective.respawn = w.objective.respawn
      /\ v.objective.place = IF Carries(w, p) THEN to ELSE w.objective.place
  BY <1>1, <1>2 DEF WorldRecord
<1>5. ObjectiveConsistent(v)
  BY <1>1, <1>3, <1>4 DEF Sound, ObjectiveConsistent, Carries
<1>6. MidTick(v)
  BY <1>1, <1>2, <1>4 DEF Sound, MidTick, Won
<1>7. AllDrop => CarrierAlive(v)
  BY <1>1, <1>3, <1>4 DEF Sound, CarrierAlive, Carries, Alive
<1>8. AllCool => HazardConsistent(v)
  BY <1>1, <1>2 DEF Sound, HazardConsistent
<1> QED
  BY <1>2, <1>3, <1>4, <1>5, <1>6, <1>7, <1>8 DEF SoundWorld, Sound, Carries, v

\* A dash keeps the world sound (performDash).
LEMMA PerformDashSound ==
  ASSUME NEW w \in SoundWorld, NEW p \in Player, NEW d \in Direction
  PROVE  PerformDash(w, p, d) \in SoundWorld
<1> DEFINE h == [w.hero[p] EXCEPT !.dashCd = DashCooldown]
           spent == [w EXCEPT !.hero[p].dashCd = DashCooldown]
           to == DashTarget[d][w.hero[p].place]
<1>1. w \in WorldRecord /\ w.hero[p] \in HeroRecord
  BY DEF SoundWorld, WorldRecord
<1>2. h \in HeroRecord /\ h.place = w.hero[p].place /\ h.hp = w.hero[p].hp
  BY <1>1, RulesAssumption DEF HeroRecord
<1>3. spent = [w EXCEPT !.hero[p] = h]
  OBVIOUS
<1>4. to \in Position
  BY <1>1, GeometryAssumption DEF HeroRecord
<1>5. PerformDash(w, p, d) = Relocate(spent, p, to)
  BY DEF PerformDash
<1> HIDE DEF h, spent, to
<1>6. spent \in SoundWorld
  BY <1>2, <1>3, HeroUpdateSound
<1> QED
  BY <1>4, <1>5, <1>6, RelocateSound

\* A hero's movement in a tick, with the capture it may end in, keeps the world
\* sound (the movement loop of tick).
LEMMA MoveHeroSound ==
  ASSUME NEW w \in SoundWorld, NEW p \in Player
  PROVE  MoveHero(w, p) \in SoundWorld
<1> DEFINE to == MoveTarget[Carries(w, p)][w.hero[p].heading][w.hero[p].place]
           moved == Relocate(w, p, to)
<1>1. CASE w.hero[p].heading = Still \/ to = Blocked
  BY <1>1 DEF MoveHero
<1>2. CASE w.hero[p].heading # Still /\ to # Blocked
  <2>1. w.hero[p] \in HeroRecord
    BY DEF SoundWorld, WorldRecord
  <2>2. w.hero[p].heading \in Direction /\ w.hero[p].place \in Position
    BY <2>1, <1>2 DEF HeroRecord
  <2>3. Carries(w, p) \in BOOLEAN
    BY DEF Carries
  <2>4. to \in Position
    BY <2>2, <2>3, <1>2, GeometryAssumption
  <2>5. MoveHero(w, p) \in {w, moved} \/ (Carries(w, p) /\ MoveHero(w, p) = Capture(moved, p))
    BY <1>2 DEF MoveHero
  <2> HIDE DEF to
  <2>6. moved \in SoundWorld /\ (Carries(w, p) => Carries(moved, p))
    BY <2>4, RelocateSound
  <2> HIDE DEF moved
  <2>7. Carries(w, p) => Capture(moved, p) \in SoundWorld
    BY <2>6, CaptureSound
  <2> QED
    BY <2>5, <2>6, <2>7
<1> QED
  BY <1>1, <1>2

(***************************************************************************)
(* Commands.                                                               *)
(***************************************************************************)
\* Whatever command is executed, the world stays sound (the command loop of tick).
LEMMA ExecuteCommandSound ==
  ASSUME NEW w \in SoundWorld, NEW c \in Command
  PROVE  ExecuteCommand(w, c) \in SoundWorld
<1> DEFINE p == c.player
<1>1. p \in Player
  BY DEF Command
<1>2. CASE ~Alive(w, p)
  BY <1>2 DEF ExecuteCommand
<1>3. CASE Alive(w, p) /\ c.type = "Move"
  <2> DEFINE h == [w.hero[p] EXCEPT !.heading = c.direction]
  <2>1. w.hero[p] \in HeroRecord
    BY <1>1 DEF SoundWorld, WorldRecord
  <2>2. c.direction \in Direction \cup {Still}
    BY DEF Command
  <2>3. h \in HeroRecord /\ h.place = w.hero[p].place /\ h.hp = w.hero[p].hp
    BY <2>1, <2>2 DEF HeroRecord
  <2>4. ExecuteCommand(w, c) = [w EXCEPT !.hero[p] = h]
    BY <1>3 DEF ExecuteCommand, Execute
  <2> HIDE DEF h, p
  <2> QED
    BY <1>1, <2>3, <2>4, HeroUpdateSound
<1>4. CASE Alive(w, p) /\ c.type = "Attack"
  <2>1. c.direction \in Direction
    BY <1>4 DEF Command
  <2>2. ExecuteCommand(w, c) = PerformAttack(w, p, c.direction)
    BY <1>4 DEF ExecuteCommand, Execute
  <2> QED
    BY <1>1, <2>1, <2>2, PerformAttackSound
<1>5. CASE Alive(w, p) /\ c.type = "Dash"
  <2>1. c.direction \in Direction
    BY <1>5 DEF Command
  <2>2. ExecuteCommand(w, c) = PerformDash(w, p, c.direction)
    BY <1>5 DEF ExecuteCommand, Execute
  <2> QED
    BY <1>1, <2>1, <2>2, PerformDashSound
<1>6. CASE Alive(w, p) /\ c.type = "Interact"
  <2>1. ExecuteCommand(w, c) = IF CanPickup(w, p) THEN PickUp(w, p) ELSE w
    BY <1>6 DEF ExecuteCommand, Execute
  <2> QED
    BY <1>1, <1>6, <2>1, PickUpSound
<1>7. c.type \in {"Move", "Attack", "Dash", "Interact"}
  BY DEF Command
<1> QED
  BY <1>2, <1>3, <1>4, <1>5, <1>6, <1>7

\* Executing a queue of commands of any length keeps the world sound.
LEMMA ExecuteCommandsSound ==
  ASSUME NEW w \in SoundWorld, NEW cmds \in Seq(Command)
  PROVE  ExecuteCommands(w, cmds) \in SoundWorld
<1> DEFINE N == Len(cmds)
           Step == [n \in 1 .. N |-> [u \in SoundWorld |-> ExecuteCommand(u, cmds[n])]]
           Body(g) == [n \in 0 .. N |-> IF n = 0 THEN w ELSE ExecuteCommand(g[n - 1], cmds[n])]
           after == CHOOSE g : g = Body(g)
<1>1. N \in Nat /\ \A n \in 1 .. N : cmds[n] \in Command
  OBVIOUS
<1>2. \A n \in 1 .. N : \A u \in SoundWorld : ExecuteCommand(u, cmds[n]) \in SoundWorld
  BY <1>1, ExecuteCommandSound
<1>3. ExecuteCommands(w, cmds) = after[N]
  BY DEF ExecuteCommands
<1> HIDE DEF N
<1>4. \A n \in 1 .. N : \A u \in SoundWorld : Step[n][u] = ExecuteCommand(u, cmds[n])
  OBVIOUS
<1>5. Step \in [1 .. N -> [SoundWorld -> SoundWorld]]
  BY <1>2
<1> HIDE DEF Step
<1>6. PICK g \in [0 .. N -> SoundWorld] : IsRun(N, w, Step, g)
  BY <1>1, <1>5, RunsExist
<1>7. g = Body(g)
  <2>1. ASSUME NEW n \in 0 .. N
        PROVE  g[n] = IF n = 0 THEN w ELSE ExecuteCommand(g[n - 1], cmds[n])
    <3>1. n # 0 => n \in 1 .. N /\ n - 1 \in 0 .. N
      BY <1>1
    <3> QED
      BY <1>4, <1>6, <3>1 DEF IsRun
  <2> QED
    BY <2>1
<1>8. after = Body(after)
  BY <1>7
<1> HIDE DEF after
<1>9. \A n \in 0 .. N : after[n] = IF n = 0 THEN w ELSE ExecuteCommand(after[n - 1], cmds[n])
  BY <1>8
<1>10. after[0] \in SoundWorld
  BY <1>1, <1>9
<1>11. ASSUME NEW n \in 1 .. N, after[n - 1] \in SoundWorld PROVE after[n] \in SoundWorld
  <2>1. after[n] = ExecuteCommand(after[n - 1], cmds[n])
    BY <1>1, <1>9
  <2> QED
    BY <1>2, <1>11, <2>1
<1> QED
  BY <1>1, <1>3, <1>10, <1>11, RunStays

(***************************************************************************)
(* Timers and hazards.                                                     *)
(***************************************************************************)
\* Counting down stays in the naturals.
LEMMA CountDownType ==
  ASSUME NEW n \in Nat
  PROVE  CountDown(n) \in Nat /\ (CountDown(n) > 0 => n > 0)
BY DEF CountDown

\* Cooldowns keep the world sound (updatePlayerCooldowns).
LEMMA UpdateCooldownsSound ==
  ASSUME NEW w \in SoundWorld
  PROVE  UpdateCooldowns(w) \in SoundWorld
<1> DEFINE Rest(h) == [h EXCEPT !.attackCd = CountDown(@), !.dashCd = CountDown(@)]
           hs == [p \in Player |-> Rest(w.hero[p])]
           v == [w EXCEPT !.hero = hs]
<1>1. w \in WorldRecord /\ Sound(w)
  BY DEF SoundWorld
<1>2. UpdateCooldowns(w) = v
  BY DEF UpdateCooldowns
<1>3. ASSUME NEW p \in Player
      PROVE  /\ Rest(w.hero[p]) \in HeroRecord
             /\ Rest(w.hero[p]).place = w.hero[p].place /\ Rest(w.hero[p]).hp = w.hero[p].hp
  <2>1. w.hero[p] \in HeroRecord
    BY <1>1 DEF WorldRecord
  <2>2. CountDown(w.hero[p].attackCd) \in Nat /\ CountDown(w.hero[p].dashCd) \in Nat
    BY <2>1, CountDownType DEF HeroRecord
  <2> QED
    BY <2>1, <2>2 DEF HeroRecord
<1> HIDE DEF Rest
<1>4. /\ hs \in [Player -> HeroRecord]
      /\ \A p \in Player : hs[p].place = w.hero[p].place /\ hs[p].hp = w.hero[p].hp
  BY <1>3
<1> HIDE DEF hs
<1>5. /\ v \in WorldRecord /\ v.hero = hs
      /\ v.objective = w.objective /\ v.score = w.score /\ v.hazard = w.hazard
      /\ v.finished = w.finished
  BY <1>1, <1>4 DEF WorldRecord
<1> HIDE DEF v
<1>6. ObjectiveConsistent(v)
  BY <1>1, <1>4, <1>5 DEF Sound, ObjectiveConsistent, Carries
<1>7. MidTick(v)
  BY <1>1, <1>5 DEF Sound, MidTick, Won
<1>8. AllDrop => CarrierAlive(v)
  BY <1>1, <1>4, <1>5 DEF Sound, CarrierAlive, Carries, Alive
<1>9. AllCool => HazardConsistent(v)
  BY <1>1, <1>5 DEF Sound, HazardConsistent
<1> QED
  BY <1>2, <1>5, <1>6, <1>7, <1>8, <1>9 DEF SoundWorld, Sound

\* What replacing the objective changes, field by field.
LEMMA ObjectiveUpdate ==
  ASSUME NEW w \in WorldRecord, NEW o \in ObjectiveRecord
  PROVE  LET v == [w EXCEPT !.objective = o]
         IN  /\ v \in WorldRecord /\ v.objective = o
             /\ v.hero = w.hero /\ v.score = w.score /\ v.hazard = w.hazard
             /\ v.finished = w.finished /\ v.tick = w.tick /\ v.events = w.events
BY DEF WorldRecord, ObjectiveRecord

\* The lock and the respawn timer keep the world sound (updateObjectiveTimers).
LEMMA UpdateTimersSound ==
  ASSUME NEW w \in SoundWorld
  PROVE  UpdateTimers(w) \in SoundWorld
<1> DEFINE lock == CountDown(w.objective.lock)
           respawn == w.objective.respawn - 1
           waiting == [w.objective EXCEPT !.lock = lock]
           sooner == [waiting EXCEPT !.respawn = respawn]
           back == [waiting EXCEPT !.state = "AtSpawn", !.respawn = 0,
                                   !.place = ObjectiveSpawn]
           es == Append(w.events, Event("ObjectiveRespawned", Nobody))
           v == UpdateTimers(w)
<1>1. w \in WorldRecord /\ Sound(w) /\ w.objective \in ObjectiveRecord
  BY DEF SoundWorld, WorldRecord, ObjectiveRecord
<1>2. lock \in Nat /\ (lock > 0 => w.objective.lock > 0)
  BY <1>1, CountDownType DEF ObjectiveRecord
<1>3. w.events \in Seq(EventRecord) /\ es \in Seq(EventRecord)
  BY <1>1, AppendEvent, PlayerTypes DEF WorldRecord, EventType
<1>4. v = IF w.objective.state # "Respawning" \/ w.objective.respawn = 0
          THEN [w EXCEPT !.objective = waiting]
          ELSE IF w.objective.respawn > 1 THEN [w EXCEPT !.objective = sooner]
          ELSE [w EXCEPT !.objective = back, !.events = es]
  BY <1>1 DEF UpdateTimers, ObjectiveRecord
<1> HIDE DEF lock, es, v
<1>5. /\ waiting \in ObjectiveRecord
      /\ waiting.state = w.objective.state /\ waiting.carrier = w.objective.carrier
      /\ waiting.place = w.objective.place
      /\ waiting.lock = lock /\ waiting.respawn = w.objective.respawn
  BY <1>1, <1>2 DEF ObjectiveRecord
<1> HIDE DEF waiting
<1>6. CASE w.objective.state # "Respawning" \/ w.objective.respawn = 0
  <2>1. /\ v \in WorldRecord /\ v.objective = waiting
        /\ v.hero = w.hero /\ v.score = w.score /\ v.hazard = w.hazard
        /\ v.finished = w.finished
    BY <1>1, <1>4, <1>5, <1>6, ObjectiveUpdate
  <2>2. ObjectiveConsistent(v)
    BY <1>1, <1>2, <1>5, <2>1 DEF Sound, ObjectiveConsistent, Carries
  <2>3. MidTick(v) /\ (AllDrop => CarrierAlive(v)) /\ (AllCool => HazardConsistent(v))
    BY <1>1, <1>5, <2>1
      DEF Sound, MidTick, Won, CarrierAlive, Carries, Alive, HazardConsistent
  <2> QED
    BY <2>1, <2>2, <2>3 DEF SoundWorld, Sound, v
<1>7. CASE w.objective.state = "Respawning" /\ w.objective.respawn > 1
  <2>1. respawn \in Nat /\ respawn > 0
    BY <1>1, <1>7 DEF ObjectiveRecord
  <2> HIDE DEF respawn
  <2>2. /\ sooner \in ObjectiveRecord
        /\ sooner.state = "Respawning" /\ sooner.carrier = w.objective.carrier
        /\ sooner.lock = lock /\ sooner.respawn = respawn
    BY <1>5, <1>7, <2>1 DEF ObjectiveRecord
  <2> HIDE DEF sooner
  <2>3. /\ v \in WorldRecord /\ v.objective = sooner
        /\ v.hero = w.hero /\ v.score = w.score /\ v.hazard = w.hazard
        /\ v.finished = w.finished
    BY <1>1, <1>4, <1>7, <2>2, ObjectiveUpdate
  <2>4. ObjectiveConsistent(v)
    BY <1>1, <1>2, <1>7, <2>1, <2>2, <2>3 DEF Sound, ObjectiveConsistent, Carries
  <2>5. MidTick(v) /\ (AllDrop => CarrierAlive(v)) /\ (AllCool => HazardConsistent(v))
    BY <1>1, <1>7, <2>2, <2>3
      DEF Sound, MidTick, Won, CarrierAlive, Carries, Alive, HazardConsistent
  <2> QED
    BY <2>3, <2>4, <2>5 DEF SoundWorld, Sound, v
<1>8. CASE w.objective.state = "Respawning" /\ w.objective.respawn = 1
  <2>1. v = [w EXCEPT !.objective = back, !.events = es]
    BY <1>4, <1>8
  <2>2. /\ back \in ObjectiveRecord
        /\ back.state = "AtSpawn" /\ back.carrier = w.objective.carrier
        /\ back.place = ObjectiveSpawn /\ back.lock = lock /\ back.respawn = 0
    BY <1>5, GeometryAssumption DEF ObjectiveRecord, ObjectiveState
  <2> HIDE DEF back
  <2>3. /\ v \in WorldRecord /\ v.objective = back
        /\ v.hero = w.hero /\ v.score = w.score /\ v.hazard = w.hazard
        /\ v.finished = w.finished
    BY <1>1, <1>3, <2>1, <2>2 DEF WorldRecord, ObjectiveRecord
  <2>4. ObjectiveConsistent(v)
    BY <1>1, <1>2, <1>8, <2>2, <2>3 DEF Sound, ObjectiveConsistent, Carries
  <2>5. MidTick(v) /\ (AllDrop => CarrierAlive(v)) /\ (AllCool => HazardConsistent(v))
    BY <1>1, <1>8, <2>2, <2>3
      DEF Sound, MidTick, Won, CarrierAlive, Carries, Alive, HazardConsistent
  <2> QED
    BY <2>3, <2>4, <2>5 DEF SoundWorld, Sound, v
<1>9. w.objective.respawn \in Nat
  BY <1>1 DEF ObjectiveRecord
<1> QED
  BY <1>6, <1>7, <1>8, <1>9

HazardRecord == [cooldown : Nat, triggered : BOOLEAN]

\* A hazard that is shown as spent exactly while it cools down stays so.
LEMMA HazardUpdateSound ==
  ASSUME NEW w \in SoundWorld, NEW i \in 1 .. Len(Hazards), NEW hz \in HazardRecord,
         AllCool => (hz.triggered <=> hz.cooldown > 0)
  PROVE  [w EXCEPT !.hazard[i] = hz] \in SoundWorld
<1> DEFINE hs == [w.hazard EXCEPT ![i] = hz]
           v == [w EXCEPT !.hazard[i] = hz]
<1>1. w \in WorldRecord /\ Sound(w)
  BY DEF SoundWorld
<1>2. w.hazard \in [1 .. Len(Hazards) -> HazardRecord]
  BY <1>1 DEF WorldRecord, HazardRecord
<1>3. hs \in [1 .. Len(Hazards) -> HazardRecord]
  BY <1>2
<1>4. \A j \in 1 .. Len(Hazards) : hs[j] = IF j = i THEN hz ELSE w.hazard[j]
  BY <1>2
<1>5. v = [w EXCEPT !.hazard = hs]
  OBVIOUS
<1> HIDE DEF hs, v
<1>6. /\ v \in WorldRecord /\ v.hazard = hs
      /\ v.objective = w.objective /\ v.score = w.score /\ v.hero = w.hero
      /\ v.finished = w.finished
  BY <1>1, <1>3, <1>5 DEF WorldRecord, HazardRecord
<1>7. AllCool => HazardConsistent(v)
  BY <1>1, <1>4, <1>6 DEF Sound, HazardConsistent
<1>8. ObjectiveConsistent(v) /\ MidTick(v) /\ (AllDrop => CarrierAlive(v))
  BY <1>1, <1>6 DEF Sound, ObjectiveConsistent, MidTick, Won, CarrierAlive, Carries, Alive
<1> QED
  BY <1>6, <1>7, <1>8 DEF SoundWorld, Sound, v

\* One hazard keeps the world sound (the loop body of updateHazards).
LEMMA UpdateHazardSound ==
  ASSUME NEW w \in SoundWorld, NEW i \in 1 .. Len(Hazards)
  PROVE  UpdateHazard(w, i) \in SoundWorld
<1> DEFINE hz == w.hazard[i]
           cfg == Hazards[i]
           near == {p \in Player : Alive(w, p) /\ w.hero[p].place \in cfg.reach[w.tick]}
           p == IF Blue \in near THEN Blue ELSE Red
           cooler == CoolHazard(hz)
           spent == [cooldown |-> cfg.cooldown, triggered |-> TRUE]
           es == Append(w.events, Event("HazardHit", p))
           told == [w EXCEPT !.events = es]
           hit == [told EXCEPT !.hazard[i] = spent]
<1>1. w \in WorldRecord /\ Sound(w)
  BY DEF SoundWorld
<1>2. hz \in HazardRecord /\ (AllCool => (hz.triggered <=> hz.cooldown > 0))
  BY <1>1 DEF WorldRecord, HazardRecord, Sound, HazardConsistent
<1>3. cfg \in HazardConfig /\ (AllCool => cfg.cooldown > 0) /\ (AllDrop => cfg.drops)
  BY RulesAssumption DEF AllCool, AllDrop
<1>4. p \in Player
  BY DEF Player
<1>5. CASE hz.cooldown > 0
  <2>1. UpdateHazard(w, i) = [w EXCEPT !.hazard[i] = cooler]
    BY <1>5 DEF UpdateHazard
  <2>2. cooler \in HazardRecord /\ (AllCool => (cooler.triggered <=> cooler.cooldown > 0))
    <3>1. cooler.cooldown \in Nat /\ (cooler.cooldown > 0 <=> hz.cooldown # 1)
      BY <1>2, <1>5 DEF HazardRecord, CoolHazard
    <3>2. cooler.triggered = (hz.triggered /\ hz.cooldown # 1)
      BY DEF CoolHazard
    <3>3. cooler \in HazardRecord
      BY <3>1 DEF HazardRecord, CoolHazard
    <3> HIDE DEF cooler
    <3> QED
      BY <1>2, <1>5, <3>1, <3>2, <3>3
  <2> HIDE DEF cooler
  <2> QED
    BY <2>1, <2>2, HazardUpdateSound
<1>6. CASE ~(hz.cooldown > 0) /\ near = {}
  BY <1>6 DEF UpdateHazard
<1>7. CASE ~(hz.cooldown > 0) /\ near # {}
  <2>1. UpdateHazard(w, i) =
          ApplyDamage([w EXCEPT !.hazard[i] = spent, !.events = es], p, cfg.damage, cfg.drops)
    BY <1>7 DEF UpdateHazard
  <2>2. [w EXCEPT !.hazard[i] = spent, !.events = es] = hit
    OBVIOUS
  <2>3. spent \in HazardRecord /\ (AllCool => (spent.triggered <=> spent.cooldown > 0))
    BY <1>3 DEF HazardConfig, HazardRecord
  <2>4. es \in Seq(EventRecord)
    BY <1>1, <1>4, AppendEvent DEF WorldRecord, EventType
  <2>5. cfg.damage \in Nat /\ cfg.drops \in BOOLEAN
    BY <1>3 DEF HazardConfig
  <2> HIDE DEF spent, es, p, cfg
  <2>6. told \in SoundWorld
    BY <2>4, EventUpdateSound
  <2> HIDE DEF told
  <2>7. hit \in SoundWorld
    BY <2>3, <2>6, HazardUpdateSound
  <2> HIDE DEF hit
  <2>8. ApplyDamage(hit, p, cfg.damage, cfg.drops) \in SoundWorld
    BY <1>3, <1>4, <2>5, <2>7, ApplyDamageSound
  <2> QED
    BY <2>1, <2>2, <2>8
<1> QED
  BY <1>5, <1>6, <1>7

\* Any number of hazards keep the world sound (updateHazards).
LEMMA UpdateHazardsSound ==
  ASSUME NEW w \in SoundWorld
  PROVE  UpdateHazards(w) \in SoundWorld
<1> DEFINE N == Len(Hazards)
           Step == [n \in 1 .. N |-> [u \in SoundWorld |-> UpdateHazard(u, n)]]
           Body(g) == [n \in 0 .. N |-> IF n = 0 THEN w ELSE UpdateHazard(g[n - 1], n)]
           after == CHOOSE g : g = Body(g)
<1>1. N \in Nat
  BY RulesAssumption
<1>2. \A n \in 1 .. N : \A u \in SoundWorld : UpdateHazard(u, n) \in SoundWorld
  BY UpdateHazardSound
<1>3. UpdateHazards(w) = after[N]
  BY DEF UpdateHazards
<1> HIDE DEF N
<1>4. \A n \in 1 .. N : \A u \in SoundWorld : Step[n][u] = UpdateHazard(u, n)
  OBVIOUS
<1>5. Step \in [1 .. N -> [SoundWorld -> SoundWorld]]
  BY <1>2
<1> HIDE DEF Step
<1>6. PICK g \in [0 .. N -> SoundWorld] : IsRun(N, w, Step, g)
  BY <1>1, <1>5, RunsExist
<1>7. g = Body(g)
  <2>1. ASSUME NEW n \in 0 .. N
        PROVE  g[n] = IF n = 0 THEN w ELSE UpdateHazard(g[n - 1], n)
    <3>1. n # 0 => n \in 1 .. N /\ n - 1 \in 0 .. N
      BY <1>1
    <3> QED
      BY <1>4, <1>6, <3>1 DEF IsRun
  <2> QED
    BY <2>1
<1>8. after = Body(after)
  BY <1>7
<1> HIDE DEF after
<1>9. \A n \in 0 .. N : after[n] = IF n = 0 THEN w ELSE UpdateHazard(after[n - 1], n)
  BY <1>8
<1>10. after[0] \in SoundWorld
  BY <1>1, <1>9
<1>11. ASSUME NEW n \in 1 .. N, after[n - 1] \in SoundWorld PROVE after[n] \in SoundWorld
  <2>1. after[n] = UpdateHazard(after[n - 1], n)
    BY <1>1, <1>9
  <2> QED
    BY <1>2, <1>11, <2>1
<1> QED
  BY <1>1, <1>3, <1>10, <1>11, RunStays

(***************************************************************************)
(* A tick.                                                                 *)
(***************************************************************************)
\* A whole tick of a sound world that has time left ends in a consistent one:
\* the match is finished exactly when it was won or its time is up.
LEMMA AdvanceTickConsistent ==
  ASSUME NEW w \in SoundWorld, w.tick < MaxTicks, NEW cmds \in Seq(Command)
  PROVE  LET v == AdvanceTick(w, cmds)
         IN  /\ v \in WorldRecord
             /\ ObjectiveConsistent(v) /\ ResultConsistent(v)
             /\ AllDrop => CarrierAlive(v)
             /\ AllCool => HazardConsistent(v)
<1> DEFINE begun == [w EXCEPT !.tick = @ + 1]
           u == UpdateHazards(UpdateContact(MoveHero(MoveHero(
                  ExecuteCommands(BeginTick(w), cmds), Blue), Red)))
           es == Append(u.events, Event("MatchFinished", Nobody))
           ended == [u EXCEPT !.finished = TRUE, !.events = es]
           v == AdvanceTick(w, cmds)
<1>1. begun \in SoundWorld
  <2>1. w \in WorldRecord /\ Sound(w)
    BY DEF SoundWorld
  <2>2. w.tick + 1 \in 0 .. MaxTicks
    BY <2>1, RulesAssumption DEF WorldRecord
  <2>3. /\ begun \in WorldRecord
        /\ begun.objective = w.objective /\ begun.hero = w.hero /\ begun.score = w.score
        /\ begun.hazard = w.hazard /\ begun.finished = w.finished
    BY <2>1, <2>2 DEF WorldRecord
  <2> HIDE DEF begun
  <2>4. Sound(begun)
    BY <2>1, <2>3 DEF Sound, ObjectiveConsistent, MidTick, Won, CarrierAlive, HazardConsistent,
                      Carries, Alive
  <2> QED
    BY <2>3, <2>4 DEF SoundWorld
<1>2. BeginTick(w) \in SoundWorld
  BY <1>1, UpdateCooldownsSound, UpdateTimersSound, UpdateContactSound DEF BeginTick
<1>3. u \in SoundWorld
  <2>1. ExecuteCommands(BeginTick(w), cmds) \in SoundWorld
    BY <1>2, ExecuteCommandsSound
  <2>2. MoveHero(ExecuteCommands(BeginTick(w), cmds), Blue) \in SoundWorld
    BY <2>1, MoveHeroSound DEF Player
  <2>3. MoveHero(MoveHero(ExecuteCommands(BeginTick(w), cmds), Blue), Red) \in SoundWorld
    BY <2>2, MoveHeroSound DEF Player
  <2> QED
    BY <2>3, UpdateContactSound, UpdateHazardsSound
<1>4. v = CheckClock(u)
  BY DEF AdvanceTick
<1>5. v = IF u.tick >= MaxTicks THEN ended ELSE u
  BY <1>4 DEF CheckClock
<1> HIDE DEF u, v
<1>6. u \in WorldRecord /\ Sound(u) /\ u.tick \in 0 .. MaxTicks
  BY <1>3 DEF SoundWorld, WorldRecord
<1>7. es \in Seq(EventRecord)
  BY <1>6, AppendEvent, PlayerTypes DEF WorldRecord, EventType
<1> HIDE DEF es
<1>8. /\ ended \in WorldRecord /\ ended.finished = TRUE
      /\ ended.objective = u.objective /\ ended.hero = u.hero /\ ended.score = u.score
      /\ ended.hazard = u.hazard /\ ended.tick = u.tick
  BY <1>6, <1>7 DEF WorldRecord
<1> HIDE DEF ended
<1>9. /\ v \in WorldRecord /\ (v.finished <=> u.tick >= MaxTicks \/ u.finished)
      /\ v.objective = u.objective /\ v.hero = u.hero /\ v.score = u.score
      /\ v.hazard = u.hazard /\ v.tick = u.tick
  BY <1>5, <1>6, <1>8 DEF WorldRecord
<1>10. ResultConsistent(v)
  BY <1>6, <1>9 DEF Sound, MidTick, Won, ResultConsistent
<1>11. ObjectiveConsistent(v)
  BY <1>6, <1>9 DEF Sound, ObjectiveConsistent, Carries
<1>12. AllDrop => CarrierAlive(v)
  BY <1>6, <1>9 DEF Sound, CarrierAlive, Carries, Alive
<1>13. AllCool => HazardConsistent(v)
  BY <1>6, <1>9 DEF Sound, HazardConsistent
<1> QED
  BY <1>9, <1>10, <1>11, <1>12, <1>13 DEF v

(***************************************************************************)
(* The inductive invariant: between two calls the match is consistent.     *)
(***************************************************************************)
IInv ==
  /\ TypeOK
  /\ ObjectiveIsConsistent
  /\ ResultIsConsistent
  /\ AllDrop => CarrierIsAlive
  /\ AllCool => HazardsAreConsistent

\* A new match is consistent.
LEMMA InitIInv == Init => IInv
<1> SUFFICES ASSUME Init PROVE IInv
  OBVIOUS
<1> DEFINE objective == [state |-> "AtSpawn", carrier |-> Nobody,
                         place |-> ObjectiveSpawn, lock |-> 0, respawn |-> 0]
           hero == [p \in Player |-> NewHero(p)]
           score == [p \in Player |-> 0]
           hazard == [i \in 1 .. Len(Hazards) |-> [cooldown |-> 0, triggered |-> FALSE]]
<1>1. world = [tick |-> 0, finished |-> FALSE, hero |-> hero, objective |-> objective,
               score |-> score, hazard |-> hazard, events |-> <<>>]
  BY DEF Init
<1>2. objective \in ObjectiveRecord
  BY GeometryAssumption DEF ObjectiveRecord, ObjectiveState
<1>3. hero \in [Player -> HeroRecord]
  BY GeometryAssumption, RulesAssumption DEF NewHero, HeroRecord
<1>4. score \in [Player -> Nat] /\ \A p \in Player : score[p] = 0
  OBVIOUS
<1>5. hazard \in [1 .. Len(Hazards) -> HazardRecord]
  BY DEF HazardRecord
<1>6. \A i \in 1 .. Len(Hazards) : hazard[i].triggered = FALSE /\ hazard[i].cooldown = 0
  OBVIOUS
<1>7. <<>> \in Seq(EventRecord) /\ <<>> \in Seq(Command)
  OBVIOUS
<1>8. 0 \in 0 .. MaxTicks /\ ~(0 >= MaxTicks) /\ ~(0 >= ScoreLimit) /\ 0 <= ScoreLimit
  BY RulesAssumption
<1>9. /\ objective.state = "AtSpawn" /\ objective.carrier = Nobody
      /\ objective.place = ObjectiveSpawn /\ objective.lock = 0 /\ objective.respawn = 0
  OBVIOUS
<1> HIDE DEF objective, hero, score, hazard
<1>10. TypeOK
  BY <1>1, <1>2, <1>3, <1>4, <1>5, <1>7, <1>8
    DEF TypeOK, WorldRecord, ObjectiveRecord, HazardRecord, Init
<1>11. ObjectiveIsConsistent
  BY <1>1, <1>9, PlayersAssumption DEF ObjectiveIsConsistent, ObjectiveConsistent, Carries
<1>12. ResultIsConsistent
  BY <1>1, <1>4, <1>8, <1>9 DEF ResultIsConsistent, ResultConsistent, Player
<1>13. CarrierIsAlive
  BY <1>1, <1>9 DEF CarrierIsAlive, CarrierAlive, Carries
<1>14. HazardsAreConsistent
  BY <1>1, <1>6 DEF HazardsAreConsistent, HazardConsistent
<1> QED
  BY <1>10, <1>11, <1>12, <1>13, <1>14 DEF IInv

\* A match that goes on satisfies what holds while a tick is computed.
LEMMA UnfinishedIsSound ==
  ASSUME IInv, ~world.finished, NEW es \in Seq(EventRecord)
  PROVE  [world EXCEPT !.events = es] \in SoundWorld /\ world.tick < MaxTicks
<1>1. world \in WorldRecord
  BY DEF IInv, TypeOK
<1>2. MidTick(world) /\ world.tick < MaxTicks
  BY <1>1, RulesAssumption DEF IInv, ResultIsConsistent, ResultConsistent, MidTick, Won, WorldRecord
<1>3. world \in SoundWorld
  BY <1>1, <1>2 DEF SoundWorld, Sound, IInv, ObjectiveIsConsistent, CarrierIsAlive,
                    HazardsAreConsistent
<1> QED
  BY <1>2, <1>3, EventUpdateSound

\* Every call preserves the invariant.
LEMMA NextIInv == IInv /\ [Next]_vars => IInv'
<1> SUFFICES ASSUME IInv, [Next]_vars PROVE IInv'
  OBVIOUS
<1> USE DEF ObjectiveIsConsistent, ResultIsConsistent, CarrierIsAlive, HazardsAreConsistent
<1>1. CASE UNCHANGED world /\ pending' \in Seq(Command) /\ systemEvents' \in Seq(EventRecord)
           /\ events' \in Seq(EventRecord)
  BY <1>1 DEF IInv, TypeOK
<1>2. ASSUME NEW c \in Command, Submit(c) PROVE IInv'
  <2>1. Append(pending, c) \in Seq(Command) /\ <<>> \in Seq(EventRecord)
    BY DEF IInv, TypeOK
  <2> QED
    BY <1>1, <1>2, <2>1 DEF Submit, IInv, TypeOK
<1>3. ASSUME NEW p \in Player, DropObjective(p) PROVE IInv'
  <2>1. /\ world \in WorldRecord /\ Carries(world, p) /\ ~world.finished
        /\ world' = [world EXCEPT !.objective = DroppedAt(world, p)]
        /\ systemEvents' = Append(systemEvents, Event("ObjectiveDropped", p))
        /\ events' = <<>> /\ pending' = pending
    BY <1>3 DEF DropObjective, IInv, TypeOK
  <2>2. DroppedAt(world, p) \in ObjectiveRecord
    BY <2>1, RulesAssumption
      DEF DroppedAt, ObjectiveRecord, WorldRecord, HeroRecord, ObjectiveState
  <2>3. /\ world' \in WorldRecord /\ world'.objective = DroppedAt(world, p)
        /\ world'.hero = world.hero /\ world'.score = world.score
        /\ world'.hazard = world.hazard /\ world'.finished = world.finished
        /\ world'.tick = world.tick
    BY <2>1, <2>2, ObjectiveUpdate
  <2>4. systemEvents' \in Seq(EventRecord) /\ <<>> \in Seq(EventRecord)
    BY <2>1, AppendEvent, PlayerTypes DEF IInv, TypeOK, EventType
  <2>5. TypeOK'
    BY <2>1, <2>3, <2>4 DEF TypeOK, IInv
  <2>6. ObjectiveConsistent(world')
    BY <2>3, PlayersAssumption DEF ObjectiveConsistent, Carries, DroppedAt
  <2>7. ResultConsistent(world')
    BY <2>1, <2>3 DEF IInv, ResultConsistent, Carries, DroppedAt
  <2>8. CarrierAlive(world') /\ (AllCool => HazardConsistent(world'))
    BY <2>3 DEF IInv, CarrierAlive, Carries, DroppedAt, HazardConsistent
  <2> QED
    BY <2>5, <2>6, <2>7, <2>8 DEF IInv, AllDrop, AllCool
<1>4. ASSUME Tick PROVE IInv'
  <2> DEFINE w == [world EXCEPT !.events = systemEvents]
             v == AdvanceTick(w, pending)
  <2>1. /\ ~world.finished /\ world' = [v EXCEPT !.events = <<>>] /\ events' = v.events
        /\ pending' = <<>> /\ systemEvents' = <<>>
    BY <1>4 DEF Tick
  <2>2. systemEvents \in Seq(EventRecord) /\ pending \in Seq(Command)
    BY DEF IInv, TypeOK
  <2>3. w \in SoundWorld /\ world.tick < MaxTicks
    BY <2>1, <2>2, UnfinishedIsSound
  <2>4. w.tick = world.tick
    BY DEF IInv, TypeOK, WorldRecord
  <2> HIDE DEF w
  <2>5. /\ v \in WorldRecord
        /\ ObjectiveConsistent(v) /\ ResultConsistent(v)
        /\ AllDrop => CarrierAlive(v)
        /\ AllCool => HazardConsistent(v)
    BY <2>2, <2>3, <2>4, AdvanceTickConsistent
  <2> HIDE DEF v
  <2>6. v.events \in Seq(EventRecord) /\ <<>> \in Seq(EventRecord) /\ <<>> \in Seq(Command)
    BY <2>5 DEF WorldRecord
  <2>7. /\ world' \in WorldRecord /\ world'.objective = v.objective
        /\ world'.hero = v.hero /\ world'.score = v.score /\ world'.hazard = v.hazard
        /\ world'.finished = v.finished /\ world'.tick = v.tick
    BY <2>1, <2>5, <2>6, EventUpdate
  <2>8. TypeOK'
    BY <2>1, <2>6, <2>7 DEF TypeOK
  <2>9. ObjectiveConsistent(world') /\ ResultConsistent(world')
    BY <2>5, <2>7 DEF ObjectiveConsistent, ResultConsistent, Carries
  <2>10. (AllDrop => CarrierAlive(world')) /\ (AllCool => HazardConsistent(world'))
    BY <2>5, <2>7 DEF CarrierAlive, HazardConsistent, Carries, Alive
  <2> QED
    BY <2>8, <2>9, <2>10 DEF IInv, AllDrop, AllCool
<1>5. ASSUME TickFinished PROVE IInv'
  BY <1>1, <1>5 DEF TickFinished, IInv, TypeOK
<1>6. ASSUME UNCHANGED vars PROVE IInv'
  BY <1>1, <1>6 DEF vars, IInv, TypeOK
<1> QED
  BY <1>2, <1>3, <1>4, <1>5, <1>6 DEF Next

\* The invariant holds in every reachable state of a match.
THEOREM InductiveInvariant == Spec => []IInv
<1>1. Init => IInv
  BY InitIInv
<1>2. IInv /\ [Next]_vars => IInv'
  BY NextIInv
<1> QED
  BY <1>1, <1>2, PTL DEF Spec

\* Every variable of the engine stays in its type, and the clock within MaxTicks.
THEOREM TypeCorrect == Spec => []TypeOK
<1>1. IInv => TypeOK
  BY DEF IInv
<1> QED
  BY <1>1, InductiveInvariant, PTL

\* The objective's state, carrier, position and timers always agree, for every
\* map, rule set and sequence of commands.
THEOREM ObjectiveAlwaysConsistent == Spec => []ObjectiveIsConsistent
<1>1. IInv => ObjectiveIsConsistent
  BY DEF IInv
<1> QED
  BY <1>1, InductiveInvariant, PTL

\* A match is over exactly when it is won or out of time, nobody scores past the
\* limit, and never do both players win.
THEOREM ResultAlwaysConsistent == Spec => []ResultIsConsistent
<1>1. IInv => ResultIsConsistent
  BY DEF IInv
<1> QED
  BY <1>1, InductiveInvariant, PTL

\* When every hazard drops the objective, it never stays with a defeated carrier.
\* Without that assumption it may: EngineDeadCarrier.cfg.
THEOREM CarrierAlwaysAlive == ASSUME AllDrop PROVE Spec => []CarrierIsAlive
<1>1. IInv => CarrierIsAlive
  BY DEF IInv
<1> QED
  BY <1>1, InductiveInvariant, PTL

\* When every hazard has a cooldown, one is shown as spent exactly while it cools
\* down.
THEOREM HazardsAlwaysConsistent == ASSUME AllCool PROVE Spec => []HazardsAreConsistent
<1>1. IInv => HazardsAreConsistent
  BY DEF IInv
<1> QED
  BY <1>1, InductiveInvariant, PTL
-----------------------------------------------------------------------------
(***************************************************************************)
(* What a tick reports and what it may do.  Has, Ends and the rest are     *)
(* about a list of events; each of them says how it grows with the list.   *)
(***************************************************************************)
Has(es, e) == \E i \in 1 .. Len(es) : es[i] = e
Once(es, e) == \A i, j \in 1 .. Len(es) : es[i] = e /\ es[j] = e => i = j
Ends(es) == \E i \in 1 .. Len(es) : es[i].type = "MatchFinished"
EndsOnce(es) ==
  \A i, j \in 1 .. Len(es) : es[i].type = "MatchFinished" /\ es[j].type = "MatchFinished" => i = j
NoActs(es, p) == \A i \in 1 .. Len(es) : es[i] \notin ActsOf(p)
LastActs(es, p) ==
  \A i \in 1 .. Len(es) :
    es[i] = Event("PlayerDefeated", p) => \A j \in i + 1 .. Len(es) : es[j] \notin ActsOf(p)

\* A list of events and one more.
LEMMA OneMoreEvent ==
  ASSUME NEW es \in Seq(EventRecord), NEW e \in EventRecord
  PROVE  LET new == Append(es, e)
         IN  /\ \A x : Has(new, x) <=> Has(es, x) \/ x = e
             /\ \A x : Once(new, x) <=> Once(es, x) /\ (Has(es, x) => x # e)
             /\ Ends(new) <=> Ends(es) \/ e.type = "MatchFinished"
             /\ EndsOnce(new) <=> EndsOnce(es) /\ (Ends(es) => e.type # "MatchFinished")
             /\ \A p : NoActs(new, p) <=> NoActs(es, p) /\ e \notin ActsOf(p)
             /\ \A p : LastActs(new, p)
                         <=> /\ LastActs(es, p)
                             /\ Has(es, Event("PlayerDefeated", p)) => e \notin ActsOf(p)
<1> DEFINE new == Append(es, e)
           N == Len(es)
<1>1. /\ N \in Nat /\ Len(new) = N + 1 /\ new[N + 1] = e
      /\ \A i \in 1 .. N : new[i] = es[i]
  BY AppendProperties
<1> HIDE DEF new
<1>2. /\ \A i \in 1 .. N + 1 : i \in 1 .. N \/ i = N + 1
      /\ 1 .. N \subseteq 1 .. N + 1 /\ N + 1 \in 1 .. N + 1 /\ N + 1 \notin 1 .. N
  BY <1>1
<1>3. ASSUME NEW x PROVE Has(new, x) <=> Has(es, x) \/ x = e
  BY <1>1, <1>2 DEF Has
<1>4. ASSUME NEW x PROVE Once(new, x) <=> Once(es, x) /\ (Has(es, x) => x # e)
  BY <1>1, <1>2 DEF Once, Has
<1>5. Ends(new) <=> Ends(es) \/ e.type = "MatchFinished"
  BY <1>1, <1>2 DEF Ends
<1>6. EndsOnce(new) <=> EndsOnce(es) /\ (Ends(es) => e.type # "MatchFinished")
  BY <1>1, <1>2 DEF EndsOnce, Ends
<1>7. ASSUME NEW p PROVE NoActs(new, p) <=> NoActs(es, p) /\ e \notin ActsOf(p)
  BY <1>1, <1>2 DEF NoActs
<1>8. ASSUME NEW p
      PROVE  LastActs(new, p)
               <=> LastActs(es, p) /\ (Has(es, Event("PlayerDefeated", p)) => e \notin ActsOf(p))
  <2> DEFINE fell == Event("PlayerDefeated", p)
             acts == ActsOf(p)
  <2>1. \A i \in 1 .. N : \A j \in i + 1 .. N + 1 : j \in i + 1 .. N \/ j = N + 1
    BY <1>1
  <2>2. \A i \in 1 .. N : i + 1 .. N \subseteq i + 1 .. N + 1 /\ N + 1 \in i + 1 .. N + 1
                          /\ i + 1 .. N \subseteq 1 .. N
    BY <1>1
  <2>3. (N + 1) + 1 .. N + 1 = {}
    BY <1>1
  <2> HIDE DEF fell, acts
  <2>4. LastActs(new, p)
          <=> \A i \in 1 .. N + 1 : new[i] = fell => \A j \in i + 1 .. N + 1 : new[j] \notin acts
    BY <1>1 DEF LastActs, fell, acts
  <2>5. LastActs(es, p)
          <=> \A i \in 1 .. N : es[i] = fell => \A j \in i + 1 .. N : es[j] \notin acts
    BY <1>1 DEF LastActs, fell, acts
  <2>6. ASSUME LastActs(new, p) PROVE LastActs(es, p) /\ (Has(es, fell) => e \notin acts)
    <3>1. ASSUME NEW i \in 1 .. N, es[i] = fell
          PROVE  (\A j \in i + 1 .. N : es[j] \notin acts) /\ e \notin acts
      <4>1. \A j \in i + 1 .. N + 1 : new[j] \notin acts
        BY <1>1, <1>2, <2>4, <2>6, <3>1
      <4> QED
        BY <1>1, <2>2, <4>1
    <3> QED
      BY <2>5, <3>1 DEF Has
  <2>7. ASSUME LastActs(es, p), Has(es, fell) => e \notin acts PROVE LastActs(new, p)
    <3>1. ASSUME NEW i \in 1 .. N + 1, new[i] = fell, NEW j \in i + 1 .. N + 1
          PROVE  new[j] \notin acts
      <4>1. CASE i = N + 1
        BY <2>3, <4>1
      <4>2. CASE i \in 1 .. N
        <5>1. es[i] = fell
          BY <1>1, <3>1, <4>2
        <5>2. CASE j = N + 1
          BY <1>1, <2>7, <4>2, <5>1, <5>2 DEF Has
        <5>3. CASE j \in i + 1 .. N
          BY <1>1, <2>2, <2>5, <2>7, <4>2, <5>1, <5>3
        <5> QED
          BY <2>1, <3>1, <4>2, <5>2, <5>3
      <4> QED
        BY <1>2, <3>1, <4>1, <4>2
    <3> QED
      BY <2>4, <3>1
  <2> QED
    BY <2>6, <2>7 DEF fell, acts
<1> QED
  BY <1>3, <1>4, <1>5, <1>6, <1>7, <1>8 DEF new

\* What a client may know of the objective.
Known == {"Ground", "Away", "Impossible"} \cup Player \cup {Nobody}

\* FollowAll runs through the events.
LEMMA FollowAllRuns ==
  ASSUME NEW h \in Known, NEW es \in Seq(EventRecord)
  PROVE  \E known : /\ FollowAll(h, es) = known[Len(es)] /\ known[0] = h
                    /\ \A n \in 1 .. Len(es) : known[n] = Follow(known[n - 1], es[n])
<1> DEFINE N == Len(es)
           Step == [n \in 1 .. N |-> [k \in Known |-> Follow(k, es[n])]]
           Body(g) == [n \in 0 .. N |-> IF n = 0 THEN h ELSE Follow(g[n - 1], es[n])]
           known == CHOOSE g : g = Body(g)
<1>1. N \in Nat /\ \A n \in 1 .. N : es[n] \in EventRecord
  OBVIOUS
<1>2. \A n \in 1 .. N : \A k \in Known : Follow(k, es[n]) \in Known
  <2> SUFFICES ASSUME NEW n \in 1 .. N, NEW k \in Known PROVE Follow(k, es[n]) \in Known
    OBVIOUS
  <2>1. es[n].player \in Player \cup {Nobody}
    BY <1>1 DEF EventRecord
  <2> QED
    BY <2>1 DEF Follow, Known
<1>3. FollowAll(h, es) = known[N]
  BY DEF FollowAll
<1> HIDE DEF N
<1>4. \A n \in 1 .. N : \A k \in Known : Step[n][k] = Follow(k, es[n])
  OBVIOUS
<1>5. Step \in [1 .. N -> [Known -> Known]]
  BY <1>2
<1> HIDE DEF Step
<1>6. PICK g \in [0 .. N -> Known] : IsRun(N, h, Step, g)
  BY <1>1, <1>5, RunsExist
<1>7. g = Body(g)
  <2>1. ASSUME NEW n \in 0 .. N
        PROVE  g[n] = IF n = 0 THEN h ELSE Follow(g[n - 1], es[n])
    <3>1. n # 0 => n \in 1 .. N /\ n - 1 \in 0 .. N
      BY <1>1
    <3> QED
      BY <1>4, <1>6, <3>1 DEF IsRun
  <2> QED
    BY <2>1
<1>8. known = Body(known)
  BY <1>7
<1> HIDE DEF known
<1>9. known[0] = h /\ \A n \in 1 .. N : known[n] = Follow(known[n - 1], es[n])
  BY <1>1, <1>8
<1> QED
  BY <1>3, <1>9 DEF N

\* No events tell nothing.
LEMMA FollowNothing ==
  ASSUME NEW h \in Known, NEW es \in Seq(EventRecord), Len(es) = 0
  PROVE  FollowAll(h, es) = h
<1>1. PICK known : /\ FollowAll(h, es) = known[Len(es)] /\ known[0] = h
                   /\ \A n \in 1 .. Len(es) : known[n] = Follow(known[n - 1], es[n])
  BY FollowAllRuns
<1> QED
  BY <1>1

\* Who follows one more event.
LEMMA FollowOneMore ==
  ASSUME NEW h \in Known, NEW es \in Seq(EventRecord), NEW e \in EventRecord
  PROVE  FollowAll(h, Append(es, e)) = Follow(FollowAll(h, es), e)
<1> DEFINE new == Append(es, e)
           N == Len(es)
<1>1. /\ N \in Nat /\ Len(new) = N + 1 /\ new[N + 1] = e /\ new \in Seq(EventRecord)
      /\ \A i \in 1 .. N : new[i] = es[i]
  BY AppendProperties
<1> HIDE DEF new
<1>2. PICK f : /\ FollowAll(h, es) = f[N] /\ f[0] = h
               /\ \A n \in 1 .. N : f[n] = Follow(f[n - 1], es[n])
  BY FollowAllRuns
<1>3. PICK g : /\ FollowAll(h, new) = g[Len(new)] /\ g[0] = h
               /\ \A n \in 1 .. Len(new) : g[n] = Follow(g[n - 1], new[n])
  BY <1>1, FollowAllRuns
<1> DEFINE S == {n \in Nat : n <= N => g[n] = f[n]}
<1>4. 0 \in S
  BY <1>2, <1>3
<1>5. ASSUME NEW n \in Nat, n \in S PROVE n + 1 \in S
  <2>1. SUFFICES ASSUME n + 1 <= N PROVE g[n + 1] = f[n + 1]
    OBVIOUS
  <2>2. n + 1 \in 1 .. N /\ n + 1 \in 1 .. Len(new) /\ (n + 1) - 1 = n /\ g[n] = f[n]
    BY <1>1, <1>5, <2>1
  <2> QED
    BY <1>1, <1>2, <1>3, <2>2
<1> HIDE DEF S
<1>6. N \in S
  BY <1>1, <1>4, <1>5, SetNatInduction
<1>7. g[N] = f[N]
  BY <1>1, <1>6 DEF S
<1>8. N + 1 \in 1 .. Len(new) /\ (N + 1) - 1 = N
  BY <1>1
<1>9. g[N + 1] = Follow(g[N], e)
  BY <1>1, <1>3, <1>8
<1> QED
  BY <1>1, <1>2, <1>3, <1>7, <1>9 DEF new

\* Acts(t, p, q): the event of type t about p is an act of q.
Acts(t, p, q) ==
  \/ t \in {"ObjectivePickedUp", "ObjectiveCaptured", "PlayerDefeated"} /\ p = q
  \/ t = "AttackHit" /\ p = Opponent(q)

\* Two events are equal when they say the same of the same player.
LEMMA EventFacts ==
  ASSUME NEW t, NEW p
  PROVE  /\ Event(t, p).type = t /\ Event(t, p).player = p
         /\ \A u, q : Event(u, q) = Event(t, p) <=> u = t /\ q = p
         /\ \A q : Event(t, p) \in ActsOf(q) <=> Acts(t, p, q)
<1>1. ASSUME NEW u, NEW q PROVE Event(u, q) = Event(t, p) <=> u = t /\ q = p
  BY DEF Event
<1>2. ASSUME NEW q PROVE Event(t, p) \in ActsOf(q) <=> Acts(t, p, q)
  BY <1>1 DEF ActsOf, Acts
<1> QED
  BY <1>1, <1>2 DEF Event

\* What one more event adds to what was reported.
LEMMA TellOne ==
  ASSUME NEW es \in Seq(EventRecord), NEW t \in EventType, NEW p \in Player \cup {Nobody}
  PROVE  LET new == Append(es, Event(t, p))
         IN  /\ new \in Seq(EventRecord)
             /\ \A u, q : Has(new, Event(u, q)) <=> Has(es, Event(u, q)) \/ (u = t /\ q = p)
             /\ \A u, q : Once(new, Event(u, q))
                            <=> Once(es, Event(u, q)) /\ (Has(es, Event(u, q)) => ~(u = t /\ q = p))
             /\ Ends(new) <=> Ends(es) \/ t = "MatchFinished"
             /\ EndsOnce(new) <=> EndsOnce(es) /\ (Ends(es) => t # "MatchFinished")
             /\ \A q : NoActs(new, q) <=> NoActs(es, q) /\ ~Acts(t, p, q)
             /\ \A q : LastActs(new, q)
                         <=> /\ LastActs(es, q)
                             /\ Has(es, Event("PlayerDefeated", q)) => ~Acts(t, p, q)
             /\ \A h \in Known : FollowAll(h, new) = Follow(FollowAll(h, es), Event(t, p))
<1> DEFINE e == Event(t, p)
           new == Append(es, e)
<1>1. e \in EventRecord /\ e.type = t
  BY EventFacts DEF Event, EventRecord
<1>2. /\ \A u, q : Event(u, q) = e <=> u = t /\ q = p
      /\ \A q : e \in ActsOf(q) <=> Acts(t, p, q)
  BY EventFacts
<1>3. \A h \in Known : FollowAll(h, new) = Follow(FollowAll(h, es), e)
  BY <1>1, FollowOneMore
<1>4. new \in Seq(EventRecord)
  BY <1>1
<1> HIDE DEF e
<1>5. /\ \A x : Has(new, x) <=> Has(es, x) \/ x = e
      /\ \A x : Once(new, x) <=> Once(es, x) /\ (Has(es, x) => x # e)
      /\ Ends(new) <=> Ends(es) \/ e.type = "MatchFinished"
      /\ EndsOnce(new) <=> EndsOnce(es) /\ (Ends(es) => e.type # "MatchFinished")
      /\ \A q : NoActs(new, q) <=> NoActs(es, q) /\ e \notin ActsOf(q)
      /\ \A q : LastActs(new, q)
                  <=> /\ LastActs(es, q)
                      /\ Has(es, Event("PlayerDefeated", q)) => e \notin ActsOf(q)
  BY <1>1, OneMoreEvent
<1> HIDE DEF new
<1>6. /\ \A u, q : Has(new, Event(u, q)) <=> Has(es, Event(u, q)) \/ (u = t /\ q = p)
      /\ \A u, q : Once(new, Event(u, q))
                     <=> Once(es, Event(u, q)) /\ (Has(es, Event(u, q)) => ~(u = t /\ q = p))
  BY <1>2, <1>5
<1>7. /\ \A q : NoActs(new, q) <=> NoActs(es, q) /\ ~Acts(t, p, q)
      /\ \A q : LastActs(new, q)
                  <=> /\ LastActs(es, q)
                      /\ Has(es, Event("PlayerDefeated", q)) => ~Acts(t, p, q)
  BY <1>2, <1>5
<1> QED
  BY <1>1, <1>3, <1>4, <1>5, <1>6, <1>7 DEF new, e

(***************************************************************************)
(* What is true while a tick is computed, of the world w it has reached:   *)
(* old is the world the tick began with, h what the client then knew, and  *)
(* done the players whose attack has run.                                  *)
(***************************************************************************)
Told(h, w) == FollowAll(h, w.events) = Holding(w)

Ended(w) == (w.finished <=> Ends(w.events)) /\ EndsOnce(w.events)

\* The score moved by one capture in the own base, after which the objective is
\* out of reach, or did not move.
ScoredBy(old, w, p) ==
  /\ w.score = [old.score EXCEPT ![p] = old.score[p] + 1]
  /\ \A q \in Player : Has(w.events, Event("ObjectiveCaptured", q)) <=> q = p
  /\ w.objective.place \in OwnBase[p]
  /\ w.objective.state \in {"Respawning", "Captured"}

ScoredNothing(old, w) ==
  /\ w.score = old.score
  /\ \A q \in Player : ~Has(w.events, Event("ObjectiveCaptured", q))

Counted(old, w) == ScoredNothing(old, w) \/ \E p \in Player : ScoredBy(old, w, p)

Rested(old, w) ==
  old.objective.lock > 1 =>
    w.objective = [old.objective EXCEPT !.lock = old.objective.lock - 1]

Final(old, w) ==
  \A p \in Player :
    /\ ~Alive(old, p) => /\ ~Alive(w, p) /\ w.hero[p].place = old.hero[p].place
                         /\ w.score[p] = old.score[p] /\ NoActs(w.events, p)
    /\ Has(w.events, Event("PlayerDefeated", p)) => ~Alive(w, p)
    /\ LastActs(w.events, p)

Attacked(done, w) ==
  \A p \in Player :
    /\ Once(w.events, Event("AttackHit", Opponent(p)))
    /\ Has(w.events, Event("AttackHit", Opponent(p))) =>
         p \in done /\ w.hero[p].attackCd = AttackCooldown

\* A captured objective waits before it is back: a delay is at least one tick.
ObjectiveWaits == RespawnDelay > 0

Story(h, old, done, w) ==
  /\ w.tick = old.tick + 1
  /\ Told(h, w) /\ Ended(w)
  /\ ObjectiveWaits => Counted(old, w)
  /\ Rested(old, w) /\ Final(old, w) /\ Attacked(done, w)

\* A step that reports nothing, and touches only cooldowns and headings.
LEMMA QuietStory ==
  ASSUME NEW h, NEW old, NEW done, NEW more, done \subseteq more,
         NEW w, NEW v, Story(h, old, done, w),
         v.events = w.events, v.objective = w.objective, v.score = w.score,
         v.finished = w.finished, v.tick = w.tick,
         \A p \in Player : /\ v.hero[p].hp = w.hero[p].hp /\ v.hero[p].place = w.hero[p].place
                           /\ v.hero[p].attackCd \in {w.hero[p].attackCd, AttackCooldown}
  PROVE  Story(h, old, more, v)
<1>1. Told(h, v) /\ Ended(v) /\ Rested(old, v) /\ (ObjectiveWaits => Counted(old, v))
  BY DEF Story, Told, Ended, Rested, Counted, ScoredBy, ScoredNothing, Holding
<1>2. Final(old, v)
  BY DEF Story, Final, Alive
<1>3. Attacked(more, v)
  BY DEF Story, Attacked
<1> QED
  BY <1>1, <1>2, <1>3 DEF Story

\* A step that reports a hit, and nothing else.
LEMMA HitStory ==
  ASSUME NEW h \in Known, NEW old, NEW done, NEW w \in WorldRecord, NEW v,
         NEW t \in {"AttackHit", "HazardHit"}, NEW q \in Player,
         Story(h, old, done, w),
         t = "AttackHit" =>
           /\ Alive(w, Opponent(q)) /\ Opponent(q) \in done
           /\ ~Has(w.events, Event("AttackHit", q))
           /\ w.hero[Opponent(q)].attackCd = AttackCooldown,
         v.events = Append(w.events, Event(t, q)), v.objective = w.objective,
         v.score = w.score, v.finished = w.finished, v.hero = w.hero, v.tick = w.tick
  PROVE  Story(h, old, done, v)
<1>1. w.events \in Seq(EventRecord) /\ t \in EventType /\ q \in Player \cup {Nobody}
  BY DEF WorldRecord, EventType
<1> DEFINE es == w.events
           new == v.events
<1>2. /\ \A u, p : Has(new, Event(u, p)) <=> Has(es, Event(u, p)) \/ (u = t /\ p = q)
      /\ \A u, p : Once(new, Event(u, p))
                     <=> Once(es, Event(u, p)) /\ (Has(es, Event(u, p)) => ~(u = t /\ p = q))
      /\ Ends(new) <=> Ends(es)
      /\ EndsOnce(new) <=> EndsOnce(es)
      /\ \A p : NoActs(new, p) <=> NoActs(es, p) /\ ~Acts(t, q, p)
      /\ \A p : LastActs(new, p)
                  <=> /\ LastActs(es, p)
                      /\ Has(es, Event("PlayerDefeated", p)) => ~Acts(t, q, p)
      /\ FollowAll(h, new) = Follow(FollowAll(h, es), Event(t, q))
  BY <1>1, TellOne
<1>3. FollowAll(h, new) = FollowAll(h, es)
  BY <1>2, EventFacts DEF Follow
<1>4. \A p \in Player : Acts(t, q, p) => t = "AttackHit" /\ p = Opponent(q)
  BY PlayerTypes DEF Acts
<1>5. \A p \in Player : Opponent(p) = q <=> p = Opponent(q)
  BY PlayersAssumption DEF Player, Opponent
<1>6. \A p : Has(new, Event("ObjectiveCaptured", p)) <=> Has(es, Event("ObjectiveCaptured", p))
  BY <1>2
<1>7. \A p : Has(new, Event("PlayerDefeated", p)) <=> Has(es, Event("PlayerDefeated", p))
  BY <1>2
<1> HIDE DEF es, new
<1>8. Told(h, v) /\ Ended(v) /\ Rested(old, v)
  BY <1>2, <1>3 DEF Story, Told, Ended, Rested, Holding, es, new
<1>9. ObjectiveWaits => Counted(old, v)
  BY <1>6 DEF Story, Counted, ScoredBy, ScoredNothing, es, new
<1>10. Final(old, v)
  BY <1>2, <1>4, <1>7 DEF Story, Final, Alive, es, new
<1>11. Attacked(done, v)
  BY <1>2, <1>5 DEF Story, Attacked, es, new
<1> QED
  BY <1>8, <1>9, <1>10, <1>11 DEF Story

\* A live hero takes the objective.
LEMMA PickUpStory ==
  ASSUME NEW h \in Known, NEW old \in WorldRecord, NEW done, NEW w \in SoundWorld, NEW p \in Player,
         Alive(w, p), CanPickup(w, p), Story(h, old, done, w)
  PROVE  Story(h, old, done, PickUp(w, p))
<1> DEFINE v == PickUp(w, p)
           es == w.events
           new == v.events
<1>1. w \in WorldRecord /\ Sound(w)
  BY DEF SoundWorld
<1>2. /\ v.objective = [state |-> "Carried", carrier |-> p,
                        place |-> w.hero[p].place, lock |-> 0, respawn |-> 0]
      /\ v.hero = w.hero /\ v.score = w.score /\ v.finished = w.finished /\ v.tick = w.tick
      /\ v.events = Append(w.events, Event("ObjectivePickedUp", p))
  BY <1>1, PickUpFields
<1>3. es \in Seq(EventRecord) /\ p \in Player \cup {Nobody}
  BY <1>1 DEF WorldRecord
<1> HIDE DEF v
<1>4. /\ \A u, q : u # "ObjectivePickedUp" => (Has(new, Event(u, q)) <=> Has(es, Event(u, q)))
      /\ \A u, q : u # "ObjectivePickedUp" => (Once(new, Event(u, q)) <=> Once(es, Event(u, q)))
      /\ Ends(new) <=> Ends(es)
      /\ EndsOnce(new) <=> EndsOnce(es)
      /\ \A q : NoActs(new, q) <=> NoActs(es, q) /\ ~Acts("ObjectivePickedUp", p, q)
      /\ \A q : LastActs(new, q)
                  <=> /\ LastActs(es, q)
                      /\ Has(es, Event("PlayerDefeated", q)) => ~Acts("ObjectivePickedUp", p, q)
      /\ FollowAll(h, new) = Follow(FollowAll(h, es), Event("ObjectivePickedUp", p))
  BY <1>2, <1>3, TellOne DEF EventType
<1>5. \A q : Acts("ObjectivePickedUp", p, q) => q = p
  BY DEF Acts
<1> HIDE DEF es, new
<1>6. FollowAll(h, es) = "Ground"
  BY DEF Story, Told, CanPickup, Holding, es
<1>7. FollowAll(h, new) = p
  BY <1>4, <1>6, EventFacts DEF Follow
<1>8. Told(h, v) /\ Ended(v)
  BY <1>2, <1>4, <1>7 DEF Story, Told, Ended, Holding, es, new
<1>9. Rested(old, v)
  <2>1. SUFFICES ASSUME old.objective.lock > 1 PROVE FALSE
    BY DEF Rested
  <2>2. w.objective = [old.objective EXCEPT !.lock = old.objective.lock - 1]
    BY <2>1 DEF Story, Rested
  <2>3. w.objective.lock = old.objective.lock - 1
    BY <2>2 DEF WorldRecord
  <2>4. old.objective.lock \in Nat
    BY DEF WorldRecord
  <2> QED
    BY <2>1, <2>3, <2>4 DEF CanPickup
<1>10. ObjectiveWaits => Counted(old, v)
  <2>1. w.objective.state \notin {"Respawning", "Captured"}
    BY DEF CanPickup
  <2>2. ObjectiveWaits => ScoredNothing(old, w)
    BY <2>1 DEF Story, Counted, ScoredBy
  <2> QED
    BY <1>2, <1>4, <2>2 DEF Counted, ScoredNothing, es, new
<1>11. Final(old, v)
  BY <1>2, <1>4, <1>5 DEF Story, Final, Alive, es, new
<1>12. Attacked(done, v)
  BY <1>2, <1>4 DEF Story, Attacked, es, new
<1> QED
  BY <1>2, <1>8, <1>9, <1>10, <1>11, <1>12 DEF Story, v

\* A live carrier captures in the own base.
LEMMA CaptureStory ==
  ASSUME NEW h \in Known, NEW old \in WorldRecord, NEW done, NEW w \in SoundWorld, NEW p \in Player,
         Alive(w, p), Carries(w, p), InOwnBase(w, p), Story(h, old, done, w)
  PROVE  Story(h, old, done, Capture(w, p))
<1> DEFINE v == Capture(w, p)
           points == w.score[p] + 1
           won == points >= ScoreLimit
           es == w.events
           told == Append(es, Event("ObjectiveCaptured", p))
           new == v.events
<1>1. w \in WorldRecord /\ Sound(w)
  BY DEF SoundWorld
<1>2. /\ v.hero = w.hero /\ v.tick = w.tick /\ v.score = [w.score EXCEPT ![p] = points]
      /\ won => v.finished = TRUE /\ v.objective = LeftAt(w, p, "Captured", 0)
      /\ ~won => /\ v.finished = w.finished
                 /\ v.objective = IF RespawnDelay = 0 THEN LeftAt(w, p, "AtSpawn", 0)
                                  ELSE LeftAt(w, p, "Respawning", RespawnDelay)
      /\ new = IF won THEN Append(told, Event("MatchFinished", p))
               ELSE IF RespawnDelay = 0 THEN Append(told, Event("ObjectiveRespawned", Nobody))
               ELSE told
  <2>1. w.score[p] \in Nat
    BY <1>1 DEF WorldRecord
  <2>2. points \in Nat /\ ScoreLimit \in Nat /\ (~won <=> points < ScoreLimit)
    BY <2>1, RulesAssumption
  <2> QED
    BY <1>1, <2>2, CaptureFields
<1>3. es \in Seq(EventRecord) /\ p \in Player \cup {Nobody} /\ w.score[p] \in Nat
  BY <1>1 DEF WorldRecord
<1> HIDE DEF v, es, points, won
<1>4. /\ told \in Seq(EventRecord)
      /\ \A u, q : Has(told, Event(u, q)) <=> Has(es, Event(u, q)) \/ (u = "ObjectiveCaptured" /\ q = p)
      /\ \A u, q : u # "ObjectiveCaptured" => (Once(told, Event(u, q)) <=> Once(es, Event(u, q)))
      /\ Ends(told) <=> Ends(es)
      /\ EndsOnce(told) <=> EndsOnce(es)
      /\ \A q : NoActs(told, q) <=> NoActs(es, q) /\ ~Acts("ObjectiveCaptured", p, q)
      /\ \A q : LastActs(told, q)
                  <=> /\ LastActs(es, q)
                      /\ Has(es, Event("PlayerDefeated", q)) => ~Acts("ObjectiveCaptured", p, q)
      /\ FollowAll(h, told) = Follow(FollowAll(h, es), Event("ObjectiveCaptured", p))
  BY <1>3, TellOne DEF EventType
<1> HIDE DEF told
<1>5. /\ FollowAll(h, es) = p
      /\ FollowAll(h, told) = "Away"
  <2>1. FollowAll(h, es) = p
    BY DEF Story, Told, Carries, Holding, es
  <2> QED
    BY <1>4, <2>1, EventFacts DEF Follow
<1>6. ~w.finished /\ ~Ends(es)
  <2>1. w.objective.state = "Carried"
    BY DEF Carries
  <2> QED
    BY <1>1, <2>1 DEF Sound, MidTick, Story, Ended, es
<1>7. ASSUME NEW t \in {"MatchFinished", "ObjectiveRespawned"}, NEW q \in Player \cup {Nobody},
             new = Append(told, Event(t, q))
      PROVE  /\ \A u, r : u # t => (Has(new, Event(u, r)) <=> Has(told, Event(u, r)))
             /\ \A u, r : u # t => (Once(new, Event(u, r)) <=> Once(told, Event(u, r)))
             /\ Ends(new) <=> Ends(told) \/ t = "MatchFinished"
             /\ EndsOnce(new) <=> EndsOnce(told) /\ (Ends(told) => t # "MatchFinished")
             /\ \A r : NoActs(new, r) <=> NoActs(told, r)
             /\ \A r : LastActs(new, r) <=> LastActs(told, r)
             /\ FollowAll(h, new) = IF t = "MatchFinished" THEN "Away" ELSE "Ground"
  <2>1. t \in EventType
    BY DEF EventType
  <2>2. \A r : ~Acts(t, q, r)
    BY DEF Acts
  <2>3. FollowAll(h, new) = Follow(FollowAll(h, told), Event(t, q))
    BY <1>4, <1>7, <2>1, TellOne
  <2>4. FollowAll(h, new) = IF t = "MatchFinished" THEN "Away" ELSE "Ground"
    BY <1>5, <2>3, EventFacts DEF Follow
  <2>5. /\ \A u, r : Has(new, Event(u, r)) <=> Has(told, Event(u, r)) \/ (u = t /\ r = q)
        /\ \A u, r : Once(new, Event(u, r))
                       <=> Once(told, Event(u, r)) /\ (Has(told, Event(u, r)) => ~(u = t /\ r = q))
        /\ Ends(new) <=> Ends(told) \/ t = "MatchFinished"
        /\ EndsOnce(new) <=> EndsOnce(told) /\ (Ends(told) => t # "MatchFinished")
        /\ \A r : NoActs(new, r) <=> NoActs(told, r) /\ ~Acts(t, q, r)
        /\ \A r : LastActs(new, r)
                    <=> /\ LastActs(told, r)
                        /\ Has(told, Event("PlayerDefeated", r)) => ~Acts(t, q, r)
    BY <1>4, <1>7, <2>1, TellOne
  <2> QED
    BY <2>2, <2>4, <2>5
<1> HIDE DEF new
<1>8. /\ \A u, q : u \notin {"MatchFinished", "ObjectiveRespawned"} =>
           /\ Has(new, Event(u, q)) <=> Has(told, Event(u, q))
           /\ Once(new, Event(u, q)) <=> Once(told, Event(u, q))
      /\ \A q : NoActs(new, q) <=> NoActs(told, q)
      /\ \A q : LastActs(new, q) <=> LastActs(told, q)
      /\ Ends(new) <=> won
      /\ EndsOnce(new)
      /\ FollowAll(h, new) = IF ~won /\ RespawnDelay = 0 THEN "Ground" ELSE "Away"
  <2>0. EndsOnce(told)
    BY <1>4 DEF Story, Ended, es
  <2>1. CASE won
    BY <1>2, <1>3, <1>4, <1>6, <1>7, <2>0, <2>1
  <2>2. CASE ~won /\ RespawnDelay = 0
    BY <1>2, <1>3, <1>4, <1>6, <1>7, <2>0, <2>2
  <2>3. CASE ~won /\ RespawnDelay # 0
    <3>1. new = told
      BY <1>2, <2>3
    <3> QED
      BY <1>4, <1>5, <1>6, <2>0, <2>3, <3>1
  <2> QED
    BY <2>1, <2>2, <2>3
<1>9. v.objective.state = IF won THEN "Captured"
                          ELSE IF RespawnDelay = 0 THEN "AtSpawn" ELSE "Respawning"
  BY <1>2 DEF LeftAt
<1>10. Told(h, v)
  BY <1>8, <1>9 DEF Told, Holding, new
<1>11. Ended(v)
  BY <1>2, <1>6, <1>8 DEF Ended, new
<1>12. Rested(old, v)
  <2>1. SUFFICES ASSUME old.objective.lock > 1 PROVE FALSE
    BY DEF Rested
  <2>2. w.objective = [old.objective EXCEPT !.lock = old.objective.lock - 1]
    BY <2>1 DEF Story, Rested
  <2>3. w.objective.lock = old.objective.lock - 1
    BY <2>2 DEF WorldRecord
  <2>4. old.objective.lock \in Nat
    BY DEF WorldRecord
  <2>5. w.objective.lock > 0
    BY <2>1, <2>3, <2>4
  <2> QED
    BY <1>1, <2>5 DEF Carries, Sound, ObjectiveConsistent
<1>13. ObjectiveWaits => Counted(old, v)
  <2>1. SUFFICES ASSUME ObjectiveWaits PROVE ScoredBy(old, v, p)
    BY DEF Counted
  <2>2. ScoredNothing(old, w)
    BY <2>1 DEF Story, Counted, ScoredBy, Carries
  <2>3. v.score = [old.score EXCEPT ![p] = old.score[p] + 1]
    BY <1>2, <2>2 DEF ScoredNothing, points
  <2>4. \A q \in Player : Has(new, Event("ObjectiveCaptured", q)) <=> q = p
    BY <1>4, <1>8, <2>2 DEF ScoredNothing, es
  <2>5. RespawnDelay # 0
    BY <2>1, RulesAssumption DEF ObjectiveWaits
  <2>6. v.objective.state \in {"Respawning", "Captured"}
    BY <1>9, <2>5
  <2>7. v.objective.place = w.hero[p].place
    BY <1>2, <2>5 DEF LeftAt
  <2> QED
    BY <2>3, <2>4, <2>6, <2>7 DEF ScoredBy, InOwnBase, new
<1>14. Final(old, v)
  <2>1. \A q \in Player : Acts("ObjectiveCaptured", p, q) => q = p
    BY DEF Acts
  <2>2. \A q \in Player : q # p => v.score[q] = w.score[q]
    BY <1>1, <1>2 DEF WorldRecord
  <2>3. \A q \in Player : Has(new, Event("PlayerDefeated", q)) <=> Has(es, Event("PlayerDefeated", q))
    BY <1>4, <1>8
  <2> QED
    BY <1>2, <1>4, <1>8, <2>1, <2>2, <2>3 DEF Story, Final, Alive, es, new
<1>15. Attacked(done, v)
  BY <1>2, <1>4, <1>8 DEF Story, Attacked, es, new
<1> QED
  BY <1>2, <1>10, <1>11, <1>12, <1>13, <1>14, <1>15 DEF Story, v

\* Damage to a live hero: it may drop what it carries, and be defeated.
LEMMA DamageStory ==
  ASSUME NEW h \in Known, NEW old \in WorldRecord, NEW done, NEW w \in SoundWorld, NEW p \in Player,
         NEW damage \in Nat, NEW drops \in BOOLEAN, Alive(w, p), Story(h, old, done, w)
  PROVE  Story(h, old, done, ApplyDamage(w, p, damage, drops))
<1> DEFINE v == ApplyDamage(w, p, damage, drops)
           lets == drops /\ Carries(w, p)
           es == w.events
           told == IF lets THEN Append(es, Event("ObjectiveDropped", p)) ELSE es
           new == v.events
<1>1. w \in WorldRecord /\ Sound(w)
  BY DEF SoundWorld
<1>2. /\ \A q \in Player : v.hero[q].place = w.hero[q].place
      /\ \A q \in Player : q # p => v.hero[q] = w.hero[q]
      /\ v.hero[p].attackCd = w.hero[p].attackCd
      /\ v.objective = IF lets THEN DroppedAt(w, p) ELSE w.objective
      /\ v.score = w.score /\ v.finished = w.finished /\ v.tick = w.tick
      /\ new = IF Alive(v, p) THEN told ELSE Append(told, Event("PlayerDefeated", p))
  BY <1>1, ApplyDamageFields
<1>3. es \in Seq(EventRecord) /\ p \in Player \cup {Nobody}
  BY <1>1 DEF WorldRecord
<1> HIDE DEF v, es, lets
<1>4. /\ told \in Seq(EventRecord)
      /\ \A u, q : u # "ObjectiveDropped" =>
           /\ Has(told, Event(u, q)) <=> Has(es, Event(u, q))
           /\ Once(told, Event(u, q)) <=> Once(es, Event(u, q))
      /\ Ends(told) <=> Ends(es)
      /\ EndsOnce(told) <=> EndsOnce(es)
      /\ \A q : NoActs(told, q) <=> NoActs(es, q)
      /\ \A q : LastActs(told, q) <=> LastActs(es, q)
      /\ FollowAll(h, told) = Holding(v)
  <2>0. FollowAll(h, es) = Holding(w)
    BY DEF Story, Told, es
  <2>1. CASE lets
    <3>1. \A q : ~Acts("ObjectiveDropped", p, q)
      BY DEF Acts
    <3>2. FollowAll(h, told) = Follow(FollowAll(h, es), Event("ObjectiveDropped", p))
      BY <1>3, <2>1, TellOne DEF EventType
    <3>3. FollowAll(h, es) = p
      BY <2>0, <2>1 DEF lets, Carries, Holding
    <3>4. FollowAll(h, told) = "Ground"
      BY <3>2, <3>3, EventFacts DEF Follow
    <3>5. Holding(v) = "Ground"
      BY <1>2, <2>1 DEF DroppedAt, Holding
    <3>6. /\ told \in Seq(EventRecord)
          /\ \A u, q : Has(told, Event(u, q)) <=> Has(es, Event(u, q)) \/ (u = "ObjectiveDropped" /\ q = p)
          /\ \A u, q : u # "ObjectiveDropped" => (Once(told, Event(u, q)) <=> Once(es, Event(u, q)))
          /\ Ends(told) <=> Ends(es)
          /\ EndsOnce(told) <=> EndsOnce(es)
          /\ \A q : NoActs(told, q) <=> NoActs(es, q) /\ ~Acts("ObjectiveDropped", p, q)
          /\ \A q : LastActs(told, q)
                      <=> /\ LastActs(es, q)
                          /\ Has(es, Event("PlayerDefeated", q)) => ~Acts("ObjectiveDropped", p, q)
      BY <1>3, <2>1, TellOne DEF EventType
    <3> HIDE DEF told
    <3> QED
      BY <3>1, <3>4, <3>5, <3>6
  <2>2. CASE ~lets
    BY <1>2, <1>3, <2>0, <2>2 DEF Holding
  <2> QED
    BY <2>1, <2>2
<1> HIDE DEF told
<1>5. /\ \A u, q : u \notin {"ObjectiveDropped", "PlayerDefeated"} =>
           /\ Has(new, Event(u, q)) <=> Has(es, Event(u, q))
           /\ Once(new, Event(u, q)) <=> Once(es, Event(u, q))
      /\ \A q : Has(new, Event("PlayerDefeated", q))
                  <=> Has(es, Event("PlayerDefeated", q)) \/ (q = p /\ ~Alive(v, p))
      /\ Ends(new) <=> Ends(es)
      /\ EndsOnce(new) <=> EndsOnce(es)
      /\ \A q : q # p => (NoActs(new, q) <=> NoActs(es, q))
      /\ \A q : q # p => (LastActs(new, q) <=> LastActs(es, q))
      /\ LastActs(new, p) <=> LastActs(es, p) /\ (Has(es, Event("PlayerDefeated", p)) => Alive(v, p))
      /\ FollowAll(h, new) = Holding(v)
  <2>1. CASE Alive(v, p)
    BY <1>2, <1>4, <2>1
  <2>2. CASE ~Alive(v, p)
    <3>1. new = Append(told, Event("PlayerDefeated", p))
      BY <1>2, <2>2
    <3>2. Follow(FollowAll(h, told), Event("PlayerDefeated", p)) = FollowAll(h, told)
      BY EventFacts DEF Follow
    <3>3. \A q : Acts("PlayerDefeated", p, q) <=> q = p
      BY DEF Acts
    <3>4. /\ \A u, q : Has(new, Event(u, q)) <=> Has(told, Event(u, q)) \/ (u = "PlayerDefeated" /\ q = p)
          /\ \A u, q : u # "PlayerDefeated" => (Once(new, Event(u, q)) <=> Once(told, Event(u, q)))
          /\ Ends(new) <=> Ends(told)
          /\ EndsOnce(new) <=> EndsOnce(told)
          /\ \A q : NoActs(new, q) <=> NoActs(told, q) /\ ~Acts("PlayerDefeated", p, q)
          /\ \A q : LastActs(new, q)
                      <=> /\ LastActs(told, q)
                          /\ Has(told, Event("PlayerDefeated", q)) => ~Acts("PlayerDefeated", p, q)
          /\ FollowAll(h, new) = Follow(FollowAll(h, told), Event("PlayerDefeated", p))
      BY <1>3, <1>4, <3>1, TellOne DEF EventType
    <3> HIDE DEF new
    <3> QED
      BY <1>4, <2>2, <3>2, <3>3, <3>4
  <2> QED
    BY <2>1, <2>2
<1> HIDE DEF new
<1>6. ~Has(es, Event("PlayerDefeated", p)) /\ Alive(old, p)
  BY DEF Story, Final, es
<1>7. Told(h, v) /\ Ended(v)
  BY <1>2, <1>5 DEF Story, Told, Ended, es, new
<1>8. Rested(old, v)
  <2>1. SUFFICES ASSUME old.objective.lock > 1, lets PROVE FALSE
    BY <1>2 DEF Story, Rested
  <2>2. w.objective = [old.objective EXCEPT !.lock = old.objective.lock - 1]
    BY <2>1 DEF Story, Rested
  <2>3. w.objective.lock = old.objective.lock - 1
    BY <2>2 DEF WorldRecord
  <2>4. old.objective.lock \in Nat
    BY DEF WorldRecord
  <2>5. w.objective.lock > 0
    BY <2>1, <2>3, <2>4
  <2> QED
    BY <1>1, <2>1, <2>5 DEF lets, Carries, Sound, ObjectiveConsistent
<1>9. ObjectiveWaits => Counted(old, v)
  <2>0. SUFFICES ASSUME ObjectiveWaits PROVE Counted(old, v)
    OBVIOUS
  <2>1. \A q : Has(new, Event("ObjectiveCaptured", q)) <=> Has(es, Event("ObjectiveCaptured", q))
    BY <1>5
  <2>2. CASE lets
    <3>1. ScoredNothing(old, w)
      BY <2>0, <2>2 DEF Story, Counted, ScoredBy, lets, Carries
    <3> QED
      BY <1>2, <2>1, <3>1 DEF Counted, ScoredNothing, es, new
  <2>3. CASE ~lets
    BY <1>2, <2>0, <2>1, <2>3 DEF Story, Counted, ScoredBy, ScoredNothing, es, new
  <2> QED
    BY <2>2, <2>3
<1>10. Final(old, v)
  <2>1. ASSUME NEW q \in Player, q # p
        PROVE  /\ ~Alive(old, q) => /\ ~Alive(v, q) /\ v.hero[q].place = old.hero[q].place
                                    /\ v.score[q] = old.score[q] /\ NoActs(new, q)
               /\ Has(new, Event("PlayerDefeated", q)) => ~Alive(v, q)
               /\ LastActs(new, q)
    BY <1>2, <1>5, <2>1 DEF Story, Final, Alive, es
  <2>2. /\ Alive(old, p)
        /\ Has(new, Event("PlayerDefeated", p)) => ~Alive(v, p)
        /\ LastActs(new, p)
    BY <1>5, <1>6 DEF Story, Final, es
  <2> QED
    BY <2>1, <2>2 DEF Final, new
<1>11. Attacked(done, v)
  <2>1. \A q \in Player : v.hero[q].attackCd = w.hero[q].attackCd
    BY <1>2
  <2> QED
    BY <1>5, <2>1 DEF Story, Attacked, es, new
<1> QED
  BY <1>2, <1>7, <1>8, <1>9, <1>10, <1>11 DEF Story, v

\* A live hero is somewhere else, with what it carries.
LEMMA RelocateStory ==
  ASSUME NEW h \in Known, NEW old \in WorldRecord, NEW done, NEW w \in SoundWorld, NEW p \in Player,
         NEW to \in Position, Alive(w, p), Story(h, old, done, w)
  PROVE  Story(h, old, done, Relocate(w, p, to)) /\ Alive(Relocate(w, p, to), p)
<1> DEFINE v == Relocate(w, p, to)
           hero == [w.hero[p] EXCEPT !.place = to]
<1>1. w \in WorldRecord /\ Sound(w)
  BY DEF SoundWorld
<1>2. /\ v.hero = [w.hero EXCEPT ![p] = hero]
      /\ v.objective = [w.objective EXCEPT !.place = IF Carries(w, p) THEN to ELSE @]
      /\ v.score = w.score /\ v.finished = w.finished /\ v.events = w.events
      /\ v.tick = w.tick
  BY <1>1, RelocateFields
<1>3. /\ \A q \in Player : v.hero[q].hp = w.hero[q].hp /\ v.hero[q].attackCd = w.hero[q].attackCd
      /\ \A q \in Player : q # p => v.hero[q] = w.hero[q]
  <2>1. w.hero \in [Player -> HeroRecord]
    BY <1>1 DEF WorldRecord
  <2>2. hero.hp = w.hero[p].hp /\ hero.attackCd = w.hero[p].attackCd
    BY <2>1 DEF HeroRecord
  <2> HIDE DEF hero, v
  <2> QED
    BY <1>2, <2>1, <2>2
<1>4. /\ v.objective.state = w.objective.state /\ v.objective.carrier = w.objective.carrier
      /\ ~Carries(w, p) => v.objective = w.objective
  <2>1. w.objective \in ObjectiveRecord
    BY <1>1 DEF WorldRecord, ObjectiveRecord
  <2> HIDE DEF v
  <2> QED
    BY <1>2, <2>1 DEF ObjectiveRecord
<1> HIDE DEF v
<1>5. Told(h, v) /\ Ended(v)
  BY <1>2, <1>4 DEF Story, Told, Ended, Holding
<1>6. Rested(old, v)
  <2>1. SUFFICES ASSUME old.objective.lock > 1, Carries(w, p) PROVE FALSE
    BY <1>4 DEF Story, Rested
  <2>2. w.objective = [old.objective EXCEPT !.lock = old.objective.lock - 1]
    BY <2>1 DEF Story, Rested
  <2>3. w.objective.lock = old.objective.lock - 1
    BY <2>2 DEF WorldRecord
  <2>4. old.objective.lock \in Nat
    BY DEF WorldRecord
  <2>5. w.objective.lock > 0
    BY <2>1, <2>3, <2>4
  <2> QED
    BY <1>1, <2>1, <2>5 DEF Carries, Sound, ObjectiveConsistent
<1>7. ObjectiveWaits => Counted(old, v)
  <2>0. SUFFICES ASSUME ObjectiveWaits PROVE Counted(old, v)
    OBVIOUS
  <2>1. CASE Carries(w, p)
    <3>1. ScoredNothing(old, w)
      BY <2>0, <2>1 DEF Story, Counted, ScoredBy, Carries
    <3> QED
      BY <1>2, <3>1 DEF Counted, ScoredNothing
  <2>2. CASE ~Carries(w, p)
    BY <1>2, <1>4, <2>0, <2>2 DEF Story, Counted, ScoredBy, ScoredNothing
  <2> QED
    BY <2>1, <2>2
<1>8. Final(old, v)
  <2>1. Alive(old, p)
    BY DEF Story, Final
  <2> QED
    BY <1>2, <1>3, <2>1 DEF Story, Final, Alive
<1>9. Attacked(done, v)
  BY <1>2, <1>3 DEF Story, Attacked
<1> QED
  BY <1>2, <1>3, <1>5, <1>6, <1>7, <1>8, <1>9 DEF Story, Alive, v

\* Contact with the objective (updateObjectiveContact).
LEMMA UpdateContactStory ==
  ASSUME NEW h \in Known, NEW old \in WorldRecord, NEW done, NEW w \in SoundWorld,
         Story(h, old, done, w)
  PROVE  Story(h, old, done, UpdateContact(w))
<1> DEFINE able == {p \in Player : Alive(w, p) /\ CanPickup(w, p)}
           p == IF Blue \in able THEN Blue ELSE Red
           taken == PickUp(w, p)
<1>1. CASE able = {}
  BY <1>1 DEF UpdateContact
<1>2. CASE able # {}
  <2>1. p \in Player /\ Alive(w, p) /\ CanPickup(w, p)
    BY <1>2 DEF Player
  <2>2. UpdateContact(w) = IF InOwnBase(w, p) THEN Capture(taken, p) ELSE taken
    BY <1>2 DEF UpdateContact
  <2> HIDE DEF p
  <2>3. taken \in SoundWorld /\ Carries(taken, p)
    BY <2>1, PickUpSound
  <2>4. taken.hero = w.hero
    BY <2>1, PickUpFields DEF SoundWorld
  <2>5. Story(h, old, done, taken)
    BY <2>1, PickUpStory
  <2> HIDE DEF taken
  <2>6. InOwnBase(w, p) => Story(h, old, done, Capture(taken, p))
    BY <2>1, <2>3, <2>4, <2>5, CaptureStory DEF Alive, InOwnBase
  <2> QED
    BY <2>2, <2>5, <2>6
<1> QED
  BY <1>1, <1>2

\* An attack of a live hero whose attack has not run in this tick (performAttack).
LEMMA PerformAttackStory ==
  ASSUME NEW h \in Known, NEW old \in WorldRecord, NEW done, NEW w \in SoundWorld,
         NEW p \in Player, NEW d \in Direction, Alive(w, p), p \notin done,
         Story(h, old, done, w)
  PROVE  Story(h, old, done \cup {p}, PerformAttack(w, p, d))
<1> DEFINE hero == [w.hero[p] EXCEPT !.attackCd = AttackCooldown]
           aimed == [w EXCEPT !.hero[p].attackCd = AttackCooldown]
           target == Opponent(p)
           es == Append(aimed.events, Event("AttackHit", target))
           hit == [aimed EXCEPT !.events = es]
           more == done \cup {p}
<1>1. w \in WorldRecord /\ w.hero[p] \in HeroRecord
  BY DEF SoundWorld, WorldRecord
<1>2. /\ hero \in HeroRecord /\ hero.place = w.hero[p].place /\ hero.hp = w.hero[p].hp
      /\ hero.attackCd = AttackCooldown
  BY <1>1, RulesAssumption DEF HeroRecord
<1>3. aimed = [w EXCEPT !.hero[p] = hero]
  OBVIOUS
<1>4. \/ PerformAttack(w, p, d) = aimed
      \/ /\ Alive(w, target)
         /\ PerformAttack(w, p, d) = ApplyDamage(hit, target, AttackDamage, TRUE)
  BY DEF PerformAttack
<1> HIDE DEF hero, aimed
<1>5. /\ aimed.hero = [w.hero EXCEPT ![p] = hero]
      /\ aimed.objective = w.objective /\ aimed.score = w.score
      /\ aimed.finished = w.finished /\ aimed.tick = w.tick /\ aimed.events = w.events
  BY <1>1, <1>2, <1>3, HeroUpdate
<1>6. aimed \in SoundWorld
  BY <1>2, <1>3, HeroUpdateSound
<1>7. /\ \A q \in Player : /\ aimed.hero[q].hp = w.hero[q].hp /\ aimed.hero[q].place = w.hero[q].place
                            /\ aimed.hero[q].attackCd \in {w.hero[q].attackCd, AttackCooldown}
      /\ aimed.hero[p].attackCd = AttackCooldown
  <2>1. w.hero \in [Player -> HeroRecord]
    BY <1>1 DEF WorldRecord
  <2>2. \A q \in Player : aimed.hero[q] = IF q = p THEN hero ELSE w.hero[q]
    BY <1>5, <2>1
  <2> QED
    BY <1>2, <2>2
<1>0. done \subseteq more /\ p \in more
  OBVIOUS
<1> HIDE DEF more
<1>8. Story(h, old, more, aimed)
  BY <1>0, <1>5, <1>7, QuietStory
<1>9. es \in Seq(EventRecord)
  BY <1>6, AppendEvent, PlayerTypes DEF SoundWorld, WorldRecord, EventType
<1>10. /\ hit.events = es /\ hit.objective = aimed.objective /\ hit.hero = aimed.hero
       /\ hit.score = aimed.score /\ hit.finished = aimed.finished /\ hit.tick = aimed.tick
  BY <1>6, <1>9, EventUpdate DEF SoundWorld
<1>11. hit \in SoundWorld
  BY <1>6, <1>9, EventUpdateSound
<1>12. ~Has(aimed.events, Event("AttackHit", target))
  BY <1>5 DEF Story, Attacked
<1>13. Opponent(target) = p /\ target \in Player
  BY PlayersAssumption DEF Player, Opponent
<1>14. Alive(aimed, p) /\ (Alive(w, target) => Alive(hit, target))
  BY <1>7, <1>10, <1>13 DEF Alive
<1> HIDE DEF hit, target
<1>15. Story(h, old, more, hit)
  BY <1>0, <1>6, <1>7, <1>8, <1>10, <1>12, <1>13, <1>14, HitStory DEF SoundWorld, es
<1>16. AttackDamage \in Nat /\ TRUE \in BOOLEAN
  BY RulesAssumption
<1>17. Alive(w, target) => Story(h, old, more, ApplyDamage(hit, target, AttackDamage, TRUE))
  BY <1>11, <1>13, <1>14, <1>15, <1>16, DamageStory
<1> QED
  BY <1>4, <1>8, <1>17 DEF more

\* A change of one live hero's heading or dash cooldown.
LEMMA HeroUpdateStory ==
  ASSUME NEW h \in Known, NEW old \in WorldRecord, NEW done, NEW w \in SoundWorld,
         NEW p \in Player, NEW hero \in HeroRecord, Story(h, old, done, w),
         hero.place = w.hero[p].place, hero.hp = w.hero[p].hp,
         hero.attackCd = w.hero[p].attackCd
  PROVE  Story(h, old, done, [w EXCEPT !.hero[p] = hero])
<1> DEFINE v == [w EXCEPT !.hero[p] = hero]
<1>1. w \in WorldRecord /\ w.hero \in [Player -> HeroRecord]
  BY DEF SoundWorld, WorldRecord
<1>2. /\ v.hero = [w.hero EXCEPT ![p] = hero]
      /\ v.objective = w.objective /\ v.score = w.score
      /\ v.finished = w.finished /\ v.tick = w.tick /\ v.events = w.events
  BY <1>1, HeroUpdate
<1> HIDE DEF v
<1>3. \A q \in Player : /\ v.hero[q].hp = w.hero[q].hp /\ v.hero[q].place = w.hero[q].place
                        /\ v.hero[q].attackCd \in {w.hero[q].attackCd, AttackCooldown}
  <2>1. \A q \in Player : v.hero[q] = IF q = p THEN hero ELSE w.hero[q]
    BY <1>1, <1>2
  <2> QED
    BY <2>1
<1>4. Story(h, old, done, v)
  BY <1>2, <1>3, QuietStory
<1> QED
  BY <1>4 DEF v

\* A dash of a live hero (performDash).
LEMMA PerformDashStory ==
  ASSUME NEW h \in Known, NEW old \in WorldRecord, NEW done, NEW w \in SoundWorld,
         NEW p \in Player, NEW d \in Direction, Alive(w, p), Story(h, old, done, w)
  PROVE  Story(h, old, done, PerformDash(w, p, d))
<1> DEFINE hero == [w.hero[p] EXCEPT !.dashCd = DashCooldown]
           spent == [w EXCEPT !.hero[p].dashCd = DashCooldown]
           to == DashTarget[d][w.hero[p].place]
<1>1. w \in WorldRecord /\ w.hero \in [Player -> HeroRecord] /\ w.hero[p] \in HeroRecord
  BY DEF SoundWorld, WorldRecord
<1>2. /\ hero \in HeroRecord /\ hero.place = w.hero[p].place /\ hero.hp = w.hero[p].hp
      /\ hero.attackCd = w.hero[p].attackCd
  BY <1>1, RulesAssumption DEF HeroRecord
<1>3. spent = [w EXCEPT !.hero[p] = hero]
  OBVIOUS
<1>4. to \in Position
  BY <1>1, GeometryAssumption DEF HeroRecord
<1>5. PerformDash(w, p, d) = Relocate(spent, p, to)
  BY DEF PerformDash
<1> HIDE DEF hero, spent, to
<1>6. spent \in SoundWorld
  BY <1>2, <1>3, HeroUpdateSound
<1>7. Story(h, old, done, spent)
  BY <1>2, <1>3, HeroUpdateStory
<1>8. Alive(spent, p)
  <2>1. spent.hero[p] = hero
    BY <1>1, <1>2, <1>3, HeroUpdate
  <2> QED
    BY <1>2, <2>1 DEF Alive
<1> QED
  BY <1>4, <1>5, <1>6, <1>7, <1>8, RelocateStory

\* A hero's movement in a tick, with the capture it may end in.
LEMMA MoveHeroStory ==
  ASSUME NEW h \in Known, NEW old \in WorldRecord, NEW done, NEW w \in SoundWorld,
         NEW p \in Player, Story(h, old, done, w)
  PROVE  Story(h, old, done, MoveHero(w, p))
<1> DEFINE to == MoveTarget[Carries(w, p)][w.hero[p].heading][w.hero[p].place]
           moved == Relocate(w, p, to)
<1>1. CASE ~Alive(w, p) \/ w.hero[p].heading = Still \/ to = Blocked
  BY <1>1 DEF MoveHero
<1>2. CASE Alive(w, p) /\ w.hero[p].heading # Still /\ to # Blocked
  <2>1. w.hero[p] \in HeroRecord
    BY DEF SoundWorld, WorldRecord
  <2>2. w.hero[p].heading \in Direction /\ w.hero[p].place \in Position
    BY <2>1, <1>2 DEF HeroRecord
  <2>3. Carries(w, p) \in BOOLEAN
    BY DEF Carries
  <2>4. to \in Position
    BY <2>2, <2>3, <1>2, GeometryAssumption
  <2>5. \/ MoveHero(w, p) = moved
        \/ Carries(w, p) /\ InOwnBase(moved, p) /\ MoveHero(w, p) = Capture(moved, p)
    BY <1>2 DEF MoveHero
  <2> HIDE DEF to
  <2>6. moved \in SoundWorld /\ (Carries(w, p) => Carries(moved, p))
    BY <2>4, RelocateSound
  <2>7. Story(h, old, done, moved) /\ Alive(moved, p)
    BY <1>2, <2>4, RelocateStory
  <2> HIDE DEF moved
  <2>8. Carries(w, p) /\ InOwnBase(moved, p) => Story(h, old, done, Capture(moved, p))
    BY <2>6, <2>7, CaptureStory
  <2> QED
    BY <2>5, <2>7, <2>8
<1> QED
  BY <1>1, <1>2

\* Whatever command is executed (the command loop of tick).
LEMMA ExecuteCommandStory ==
  ASSUME NEW h \in Known, NEW old \in WorldRecord, NEW done, NEW w \in SoundWorld,
         NEW c \in Command, c.type = "Attack" => c.player \notin done, Story(h, old, done, w)
  PROVE  Story(h, old, IF c.type = "Attack" THEN done \cup {c.player} ELSE done,
               ExecuteCommand(w, c))
<1> DEFINE p == c.player
           more == IF c.type = "Attack" THEN done \cup {p} ELSE done
<1>1. p \in Player /\ done \subseteq more
  BY DEF Command
<1>2. CASE ~Alive(w, p)
  <2>1. ExecuteCommand(w, c) = w
    BY <1>2 DEF ExecuteCommand
  <2> HIDE DEF more
  <2>2. Story(h, old, more, w)
    BY <1>1, QuietStory
  <2> QED
    BY <2>1, <2>2 DEF more
<1>3. CASE Alive(w, p) /\ c.type = "Move"
  <2> DEFINE hero == [w.hero[p] EXCEPT !.heading = c.direction]
  <2>1. w.hero[p] \in HeroRecord
    BY <1>1 DEF SoundWorld, WorldRecord
  <2>2. c.direction \in Direction \cup {Still}
    BY DEF Command
  <2>3. /\ hero \in HeroRecord /\ hero.place = w.hero[p].place /\ hero.hp = w.hero[p].hp
        /\ hero.attackCd = w.hero[p].attackCd
    BY <2>1, <2>2 DEF HeroRecord
  <2>4. ExecuteCommand(w, c) = [w EXCEPT !.hero[p] = hero]
    BY <1>3 DEF ExecuteCommand, Execute
  <2> HIDE DEF hero, p
  <2> QED
    BY <1>1, <1>3, <2>3, <2>4, HeroUpdateStory
<1>4. CASE Alive(w, p) /\ c.type = "Attack"
  <2>1. c.direction \in Direction
    BY <1>4 DEF Command
  <2>2. ExecuteCommand(w, c) = PerformAttack(w, p, c.direction)
    BY <1>4 DEF ExecuteCommand, Execute
  <2> QED
    BY <1>1, <1>4, <2>1, <2>2, PerformAttackStory
<1>5. CASE Alive(w, p) /\ c.type = "Dash"
  <2>1. c.direction \in Direction
    BY <1>5 DEF Command
  <2>2. ExecuteCommand(w, c) = PerformDash(w, p, c.direction)
    BY <1>5 DEF ExecuteCommand, Execute
  <2> QED
    BY <1>1, <1>5, <2>1, <2>2, PerformDashStory
<1>6. CASE Alive(w, p) /\ c.type = "Interact"
  <2>1. ExecuteCommand(w, c) = IF CanPickup(w, p) THEN PickUp(w, p) ELSE w
    BY <1>6 DEF ExecuteCommand, Execute
  <2> QED
    BY <1>1, <1>6, <2>1, PickUpStory
<1>7. c.type \in {"Move", "Attack", "Dash", "Interact"}
  BY DEF Command
<1> QED
  BY <1>2, <1>3, <1>4, <1>5, <1>6, <1>7

\* No player asked for two attacks.
OneAttackEach(cmds) ==
  \A i, j \in 1 .. Len(cmds) :
    cmds[i].type = "Attack" /\ cmds[j].type = "Attack" /\ cmds[i].player = cmds[j].player => i = j

\* The players with an attack among the first n commands.
Attackers(cmds, n) == {p \in Player : \E i \in 1 .. n : cmds[i].type = "Attack" /\ cmds[i].player = p}

\* A queue of commands of any length.
LEMMA ExecuteCommandsStory ==
  ASSUME NEW h \in Known, NEW old \in WorldRecord, NEW w \in SoundWorld,
         NEW cmds \in Seq(Command), OneAttackEach(cmds), Story(h, old, {}, w)
  PROVE  Story(h, old, Attackers(cmds, Len(cmds)), ExecuteCommands(w, cmds))
<1> DEFINE N == Len(cmds)
           Step == [n \in 1 .. N |-> [u \in SoundWorld |-> ExecuteCommand(u, cmds[n])]]
           Body(g) == [n \in 0 .. N |-> IF n = 0 THEN w ELSE ExecuteCommand(g[n - 1], cmds[n])]
           after == CHOOSE g : g = Body(g)
           S == {n \in Nat : n <= N => /\ after[n] \in SoundWorld
                                       /\ Story(h, old, Attackers(cmds, n), after[n])}
<1>1. N \in Nat /\ \A n \in 1 .. N : cmds[n] \in Command
  OBVIOUS
<1>2. \A n \in 1 .. N : \A u \in SoundWorld : ExecuteCommand(u, cmds[n]) \in SoundWorld
  BY <1>1, ExecuteCommandSound
<1>3. ExecuteCommands(w, cmds) = after[N]
  BY DEF ExecuteCommands
<1>4. OneAttackEach(cmds) <=>
        \A i, j \in 1 .. N :
          cmds[i].type = "Attack" /\ cmds[j].type = "Attack" /\ cmds[i].player = cmds[j].player => i = j
  BY DEF OneAttackEach
<1> HIDE DEF N
<1>5. \A n \in 1 .. N : \A u \in SoundWorld : Step[n][u] = ExecuteCommand(u, cmds[n])
  OBVIOUS
<1>6. Step \in [1 .. N -> [SoundWorld -> SoundWorld]]
  BY <1>2
<1> HIDE DEF Step
<1>7. PICK g \in [0 .. N -> SoundWorld] : IsRun(N, w, Step, g)
  BY <1>1, <1>6, RunsExist
<1>8. g = Body(g)
  <2>1. ASSUME NEW n \in 0 .. N
        PROVE  g[n] = IF n = 0 THEN w ELSE ExecuteCommand(g[n - 1], cmds[n])
    <3>1. n # 0 => n \in 1 .. N /\ n - 1 \in 0 .. N
      BY <1>1
    <3> QED
      BY <1>5, <1>7, <3>1 DEF IsRun
  <2> QED
    BY <2>1
<1>9. after = Body(after)
  BY <1>8
<1> HIDE DEF after
<1>10. \A n \in 0 .. N : after[n] = IF n = 0 THEN w ELSE ExecuteCommand(after[n - 1], cmds[n])
  BY <1>9
<1>11. 0 \in S
  <2>1. Attackers(cmds, 0) = {}
    BY DEF Attackers
  <2>2. after[0] = w
    BY <1>1, <1>10
  <2> QED
    BY <2>1, <2>2
<1>12. ASSUME NEW n \in Nat, n \in S PROVE n + 1 \in S
  <2>1. SUFFICES ASSUME n + 1 <= N
                 PROVE  /\ after[n + 1] \in SoundWorld
                        /\ Story(h, old, Attackers(cmds, n + 1), after[n + 1])
    OBVIOUS
  <2> DEFINE c == cmds[n + 1]
             done == Attackers(cmds, n)
             more == IF c.type = "Attack" THEN done \cup {c.player} ELSE done
  <2>2. after[n] \in SoundWorld /\ Story(h, old, done, after[n])
    BY <1>1, <1>12, <2>1
  <2>3. n + 1 \in 1 .. N /\ n + 1 \in 0 .. N /\ (n + 1) - 1 = n /\ n + 1 # 0
    BY <1>1, <2>1
  <2>4. after[n + 1] = ExecuteCommand(after[n], c) /\ c \in Command
    BY <1>1, <1>10, <2>3
  <2>5. \A i \in 1 .. n : i \in 1 .. N /\ i # n + 1
    BY <1>1, <2>1
  <2>6. c.type = "Attack" => c.player \notin done
    BY <1>4, <2>3, <2>5 DEF Attackers
  <2>7. Attackers(cmds, n + 1) = more
    <3>1. 1 .. n + 1 = (1 .. n) \cup {n + 1}
      OBVIOUS
    <3>2. c.player \in Player
      BY <2>4 DEF Command
    <3> QED
      BY <3>1, <3>2 DEF Attackers
  <2> HIDE DEF c, done
  <2>8. Story(h, old, more, ExecuteCommand(after[n], c))
    BY <2>2, <2>4, <2>6, ExecuteCommandStory
  <2>9. ExecuteCommand(after[n], c) \in SoundWorld
    BY <2>2, <2>4, ExecuteCommandSound
  <2> QED
    BY <2>4, <2>7, <2>8, <2>9
<1> HIDE DEF S
<1>13. N \in S
  BY <1>1, <1>11, <1>12, SetNatInduction
<1> QED
  BY <1>1, <1>3, <1>13 DEF S, N

\* One hazard (the loop body of updateHazards).
LEMMA UpdateHazardStory ==
  ASSUME NEW h \in Known, NEW old \in WorldRecord, NEW done, NEW w \in SoundWorld,
         NEW i \in 1 .. Len(Hazards), Story(h, old, done, w)
  PROVE  Story(h, old, done, UpdateHazard(w, i))
<1> DEFINE hz == w.hazard[i]
           cfg == Hazards[i]
           near == {p \in Player : Alive(w, p) /\ w.hero[p].place \in cfg.reach[w.tick]}
           p == IF Blue \in near THEN Blue ELSE Red
           spent == [cooldown |-> cfg.cooldown, triggered |-> TRUE]
           es == Append(w.events, Event("HazardHit", p))
           told == [w EXCEPT !.events = es]
           hit == [told EXCEPT !.hazard[i] = spent]
<1>1. w \in WorldRecord
  BY DEF SoundWorld
<1>2. cfg \in HazardConfig /\ (AllCool => cfg.cooldown > 0)
  BY RulesAssumption DEF AllCool
<1>3. ASSUME NEW u \in WorldRecord, NEW x
      PROVE  LET v == [u EXCEPT !.hazard[i] = x]
             IN  /\ v.hero = u.hero /\ v.objective = u.objective /\ v.score = u.score
                 /\ v.finished = u.finished /\ v.tick = u.tick /\ v.events = u.events
  BY DEF WorldRecord
<1>4. CASE hz.cooldown > 0
  <2>1. UpdateHazard(w, i) = [w EXCEPT !.hazard[i] = CoolHazard(hz)]
    BY <1>4 DEF UpdateHazard
  <2> DEFINE v == [w EXCEPT !.hazard[i] = CoolHazard(hz)]
  <2>2. /\ v.hero = w.hero /\ v.objective = w.objective /\ v.score = w.score
        /\ v.finished = w.finished /\ v.tick = w.tick /\ v.events = w.events
    BY <1>1, <1>3
  <2> HIDE DEF v
  <2>3. Story(h, old, done, v)
    BY <2>2, QuietStory
  <2> QED
    BY <2>1, <2>3 DEF v
<1>5. CASE ~(hz.cooldown > 0) /\ near = {}
  BY <1>5 DEF UpdateHazard
<1>6. CASE ~(hz.cooldown > 0) /\ near # {}
  <2>1. UpdateHazard(w, i) =
          ApplyDamage([w EXCEPT !.hazard[i] = spent, !.events = es], p, cfg.damage, cfg.drops)
    BY <1>6 DEF UpdateHazard
  <2>2. [w EXCEPT !.hazard[i] = spent, !.events = es] = hit
    OBVIOUS
  <2>3. spent \in HazardRecord /\ (AllCool => (spent.triggered <=> spent.cooldown > 0))
    BY <1>2 DEF HazardConfig, HazardRecord
  <2>4. p \in Player /\ Alive(w, p)
    BY <1>6 DEF Player
  <2>5. es \in Seq(EventRecord)
    BY <1>1, <2>4, AppendEvent DEF WorldRecord, EventType
  <2>6. cfg.damage \in Nat /\ cfg.drops \in BOOLEAN
    BY <1>2 DEF HazardConfig
  <2> HIDE DEF spent, p, cfg
  <2>7. /\ told \in SoundWorld /\ told \in WorldRecord /\ told.events = es
        /\ told.objective = w.objective /\ told.hero = w.hero /\ told.score = w.score
        /\ told.finished = w.finished /\ told.tick = w.tick
    BY <1>1, <2>5, EventUpdate, EventUpdateSound
  <2> HIDE DEF told
  <2>8. hit \in SoundWorld
    BY <2>3, <2>7, HazardUpdateSound
  <2>9. /\ hit.hero = told.hero /\ hit.objective = told.objective /\ hit.score = told.score
        /\ hit.finished = told.finished /\ hit.tick = told.tick /\ hit.events = told.events
    BY <1>3, <2>7
  <2> HIDE DEF hit
  <2>10. Story(h, old, done, hit)
    BY <1>1, <2>4, <2>7, <2>9, HitStory DEF es
  <2>11. Alive(hit, p)
    BY <2>4, <2>7, <2>9 DEF Alive
  <2>12. Story(h, old, done, ApplyDamage(hit, p, cfg.damage, cfg.drops))
    BY <2>4, <2>6, <2>8, <2>10, <2>11, DamageStory
  <2> QED
    BY <2>1, <2>2, <2>12
<1> QED
  BY <1>4, <1>5, <1>6

\* Any number of hazards (updateHazards).
LEMMA UpdateHazardsStory ==
  ASSUME NEW h \in Known, NEW old \in WorldRecord, NEW done, NEW w \in SoundWorld,
         Story(h, old, done, w)
  PROVE  Story(h, old, done, UpdateHazards(w))
<1> DEFINE N == Len(Hazards)
           Here == {u \in SoundWorld : Story(h, old, done, u)}
           Step == [n \in 1 .. N |-> [u \in Here |-> UpdateHazard(u, n)]]
           Body(g) == [n \in 0 .. N |-> IF n = 0 THEN w ELSE UpdateHazard(g[n - 1], n)]
           after == CHOOSE g : g = Body(g)
<1>1. N \in Nat
  BY RulesAssumption
<1>2. \A n \in 1 .. N : \A u \in Here : UpdateHazard(u, n) \in Here
  BY UpdateHazardSound, UpdateHazardStory
<1>3. UpdateHazards(w) = after[N]
  BY DEF UpdateHazards
<1> HIDE DEF N
<1>4. w \in Here
  OBVIOUS
<1> HIDE DEF Here
<1>5. \A n \in 1 .. N : \A u \in Here : Step[n][u] = UpdateHazard(u, n)
  OBVIOUS
<1>6. Step \in [1 .. N -> [Here -> Here]]
  BY <1>2
<1> HIDE DEF Step
<1>7. PICK g \in [0 .. N -> Here] : IsRun(N, w, Step, g)
  BY <1>1, <1>4, <1>6, RunsExist
<1>8. g = Body(g)
  <2>1. ASSUME NEW n \in 0 .. N
        PROVE  g[n] = IF n = 0 THEN w ELSE UpdateHazard(g[n - 1], n)
    <3>1. n # 0 => n \in 1 .. N /\ n - 1 \in 0 .. N
      BY <1>1
    <3> QED
      BY <1>5, <1>7, <3>1 DEF IsRun
  <2> QED
    BY <2>1
<1>9. after = Body(after)
  BY <1>8
<1> HIDE DEF after
<1>10. \A n \in 0 .. N : after[n] = IF n = 0 THEN w ELSE UpdateHazard(after[n - 1], n)
  BY <1>9
<1>11. after[0] \in Here
  BY <1>1, <1>4, <1>10
<1>12. ASSUME NEW n \in 1 .. N, after[n - 1] \in Here PROVE after[n] \in Here
  <2>1. after[n] = UpdateHazard(after[n - 1], n)
    BY <1>1, <1>10
  <2> QED
    BY <1>2, <1>12, <2>1
<1>13. after[N] \in Here
  BY <1>1, <1>11, <1>12, RunStays
<1> QED
  BY <1>3, <1>13 DEF Here

\* What the objective's timers change, field by field (updateObjectiveTimers).
LEMMA UpdateTimersFields ==
  ASSUME NEW w \in WorldRecord
  PROVE  LET v == UpdateTimers(w)
         IN  /\ v.hero = w.hero /\ v.score = w.score /\ v.finished = w.finished /\ v.tick = w.tick
             /\ \/ v.events = w.events /\ Holding(v) = Holding(w)
                \/ /\ Holding(w) = "Away" /\ Holding(v) = "Ground"
                   /\ v.events = Append(w.events, Event("ObjectiveRespawned", Nobody))
             /\ w.objective.lock > 1 /\ w.objective.state = "Dropped" =>
                  v.objective = [w.objective EXCEPT !.lock = w.objective.lock - 1]
<1> DEFINE lock == CountDown(w.objective.lock)
           respawn == w.objective.respawn - 1
           waiting == [w.objective EXCEPT !.lock = lock]
           sooner == [waiting EXCEPT !.respawn = respawn]
           back == [waiting EXCEPT !.state = "AtSpawn", !.respawn = 0,
                                   !.place = ObjectiveSpawn]
           es == Append(w.events, Event("ObjectiveRespawned", Nobody))
           v == UpdateTimers(w)
<1>1. w.objective \in ObjectiveRecord
  BY DEF WorldRecord, ObjectiveRecord
<1>2. lock \in Nat /\ (w.objective.lock > 1 => lock = w.objective.lock - 1)
  BY <1>1 DEF ObjectiveRecord, CountDown
<1>3. es \in Seq(EventRecord)
  BY AppendEvent, PlayerTypes, PlayersAssumption DEF WorldRecord, EventType, Player
<1>4. v = IF w.objective.state # "Respawning" \/ w.objective.respawn = 0
          THEN [w EXCEPT !.objective = waiting]
          ELSE IF w.objective.respawn > 1 THEN [w EXCEPT !.objective = sooner]
          ELSE [w EXCEPT !.objective = back, !.events = es]
  BY <1>1 DEF UpdateTimers, ObjectiveRecord
<1>5. w.objective.lock > 1 => waiting = [w.objective EXCEPT !.lock = w.objective.lock - 1]
  BY <1>2
<1>6. /\ waiting.state = w.objective.state /\ waiting.carrier = w.objective.carrier
      /\ sooner.state = w.objective.state /\ sooner.carrier = w.objective.carrier
      /\ back.state = "AtSpawn"
  BY <1>1 DEF ObjectiveRecord
<1> HIDE DEF lock, es, waiting, sooner, back, v
<1>7. ASSUME NEW o
      PROVE  LET u == [w EXCEPT !.objective = o]
             IN  /\ u.objective = o /\ u.hero = w.hero /\ u.score = w.score
                 /\ u.finished = w.finished /\ u.tick = w.tick /\ u.events = w.events
  BY DEF WorldRecord
<1>8. LET u == [w EXCEPT !.objective = back, !.events = es]
      IN  /\ u.objective = back /\ u.hero = w.hero /\ u.score = w.score
          /\ u.finished = w.finished /\ u.tick = w.tick /\ u.events = es
  BY DEF WorldRecord
<1>9. CASE w.objective.state # "Respawning" \/ w.objective.respawn = 0
  <2>1. v = [w EXCEPT !.objective = waiting]
    BY <1>4, <1>9
  <2>2. /\ v.objective = waiting /\ v.hero = w.hero /\ v.score = w.score
        /\ v.finished = w.finished /\ v.tick = w.tick /\ v.events = w.events
    BY <1>7, <2>1
  <2> QED
    BY <1>5, <1>6, <2>2 DEF Holding, v
<1>10. CASE w.objective.state = "Respawning" /\ w.objective.respawn # 0 /\ w.objective.respawn > 1
  <2>1. v = [w EXCEPT !.objective = sooner]
    BY <1>4, <1>10
  <2>2. /\ v.objective = sooner /\ v.hero = w.hero /\ v.score = w.score
        /\ v.finished = w.finished /\ v.tick = w.tick /\ v.events = w.events
    BY <1>7, <2>1
  <2> QED
    BY <1>6, <1>10, <2>2 DEF Holding, v
<1>11. CASE w.objective.state = "Respawning" /\ w.objective.respawn # 0
            /\ ~(w.objective.respawn > 1)
  <2>1. v = [w EXCEPT !.objective = back, !.events = es]
    BY <1>4, <1>11
  <2>2. /\ v.objective = back /\ v.hero = w.hero /\ v.score = w.score
        /\ v.finished = w.finished /\ v.tick = w.tick /\ v.events = es
    BY <1>8, <2>1
  <2> QED
    BY <1>6, <1>11, <2>2 DEF Holding, v, es
<1> QED
  BY <1>9, <1>10, <1>11

\* Nothing but drops is reported between two ticks.
OnlyDrops(es) == \A i \in 1 .. Len(es) : es[i].type = "ObjectiveDropped"

\* What a tick begins with reports no act, no end and no respawn.
LEMMA DropsAreQuiet ==
  ASSUME NEW es \in Seq(EventRecord), OnlyDrops(es)
  PROVE  /\ ~Ends(es) /\ EndsOnce(es)
         /\ \A t, p : t # "ObjectiveDropped" => ~Has(es, Event(t, p)) /\ Once(es, Event(t, p))
         /\ \A p : NoActs(es, p) /\ LastActs(es, p)
<1>1. \A i \in 1 .. Len(es) : es[i].type = "ObjectiveDropped"
  BY DEF OnlyDrops
<1>2. ASSUME NEW t, NEW p, t # "ObjectiveDropped", NEW i \in 1 .. Len(es)
      PROVE  es[i] # Event(t, p)
  BY <1>1, <1>2 DEF Event
<1>3. ASSUME NEW p, NEW i \in 1 .. Len(es) PROVE es[i] \notin ActsOf(p)
  BY <1>2 DEF ActsOf
<1>4. \A p : NoActs(es, p) /\ LastActs(es, p)
  <2>1. \A i \in 1 .. Len(es) : i + 1 .. Len(es) \subseteq 1 .. Len(es)
    OBVIOUS
  <2> QED
    BY <1>3, <2>1 DEF NoActs, LastActs
<1> QED
  BY <1>1, <1>2, <1>4 DEF Ends, EndsOnce, Has, Once

\* The clock, the cooldowns, the timers and the first contact.
LEMMA BeginTickStory ==
  ASSUME NEW h \in Known, NEW w \in SoundWorld, ~w.finished, w.tick < MaxTicks,
         OnlyDrops(w.events), Told(h, w)
  PROVE  BeginTick(w) \in SoundWorld /\ Story(h, w, {}, BeginTick(w))
<1> DEFINE begun == [w EXCEPT !.tick = @ + 1]
           cool == UpdateCooldowns(begun)
           v == UpdateTimers(cool)
           Rest(x) == [x EXCEPT !.attackCd = CountDown(@), !.dashCd = CountDown(@)]
           es == w.events
           new == v.events
<1>1. w \in WorldRecord /\ Sound(w) /\ w.tick + 1 \in 0 .. MaxTicks
  BY RulesAssumption DEF SoundWorld, WorldRecord
<1>2. /\ begun \in WorldRecord /\ begun.tick = w.tick + 1
      /\ begun.objective = w.objective /\ begun.hero = w.hero /\ begun.score = w.score
      /\ begun.hazard = w.hazard /\ begun.finished = w.finished /\ begun.events = w.events
  BY <1>1 DEF WorldRecord
<1> HIDE DEF begun
<1>3. begun \in SoundWorld
  BY <1>1, <1>2 DEF SoundWorld, Sound, ObjectiveConsistent, MidTick, Won, CarrierAlive,
                    HazardConsistent, Carries, Alive
<1>4. cool \in SoundWorld
  BY <1>3, UpdateCooldownsSound
<1>5. /\ cool.hero = [p \in Player |-> Rest(w.hero[p])] /\ cool.tick = w.tick + 1
      /\ cool.objective = w.objective /\ cool.score = w.score
      /\ cool.finished = w.finished /\ cool.events = w.events
  BY <1>2 DEF UpdateCooldowns, WorldRecord
<1>6. \A p \in Player : cool.hero[p].hp = w.hero[p].hp /\ cool.hero[p].place = w.hero[p].place
  <2> SUFFICES ASSUME NEW p \in Player
               PROVE  Rest(w.hero[p]).hp = w.hero[p].hp /\ Rest(w.hero[p]).place = w.hero[p].place
    BY <1>5
  <2>1. w.hero[p] \in HeroRecord
    BY <1>1 DEF WorldRecord
  <2> QED
    BY <2>1 DEF HeroRecord
<1> HIDE DEF cool
<1>7. /\ v.hero = cool.hero /\ v.score = w.score /\ v.finished = w.finished
      /\ v.tick = w.tick + 1
      /\ \/ new = es /\ Holding(v) = Holding(w)
         \/ /\ Holding(w) = "Away" /\ Holding(v) = "Ground"
            /\ new = Append(es, Event("ObjectiveRespawned", Nobody))
      /\ w.objective.lock > 1 /\ w.objective.state = "Dropped" =>
           v.objective = [w.objective EXCEPT !.lock = w.objective.lock - 1]
  <2>1. Holding(cool) = Holding(w)
    BY <1>5 DEF Holding
  <2>2. /\ v.hero = cool.hero /\ v.score = cool.score /\ v.finished = cool.finished
        /\ v.tick = cool.tick
        /\ \/ new = cool.events /\ Holding(v) = Holding(cool)
           \/ /\ Holding(cool) = "Away" /\ Holding(v) = "Ground"
              /\ new = Append(cool.events, Event("ObjectiveRespawned", Nobody))
        /\ cool.objective.lock > 1 /\ cool.objective.state = "Dropped" =>
             v.objective = [cool.objective EXCEPT !.lock = cool.objective.lock - 1]
    BY <1>4, UpdateTimersFields DEF SoundWorld
  <2> HIDE DEF v
  <2> QED
    BY <1>5, <2>1, <2>2
<1>8. v \in SoundWorld
  BY <1>4, UpdateTimersSound
<1> HIDE DEF v
<1>9. /\ ~Ends(es) /\ EndsOnce(es)
      /\ \A t, p : t # "ObjectiveDropped" => ~Has(es, Event(t, p)) /\ Once(es, Event(t, p))
      /\ \A p : NoActs(es, p) /\ LastActs(es, p)
  BY <1>1, DropsAreQuiet DEF WorldRecord
<1>10. /\ ~Ends(new) /\ EndsOnce(new)
       /\ \A t, p : t \notin {"ObjectiveDropped", "ObjectiveRespawned"} =>
                      ~Has(new, Event(t, p)) /\ Once(new, Event(t, p))
       /\ \A p : NoActs(new, p) /\ LastActs(new, p)
       /\ FollowAll(h, new) = Holding(v)
  <2>1. CASE new = es /\ Holding(v) = Holding(w)
    BY <1>9, <2>1 DEF Told
  <2>2. CASE /\ Holding(w) = "Away" /\ Holding(v) = "Ground"
             /\ new = Append(es, Event("ObjectiveRespawned", Nobody))
    <3>1. es \in Seq(EventRecord) /\ Nobody \in Player \cup {Nobody}
      BY <1>1 DEF WorldRecord
    <3>2. FollowAll(h, es) = "Away"
      BY <2>2 DEF Told
    <3>3. \A p : ~Acts("ObjectiveRespawned", Nobody, p)
      BY DEF Acts
    <3> HIDE DEF es
    <3>4. /\ \A u, p : Has(new, Event(u, p)) <=> Has(es, Event(u, p)) \/ (u = "ObjectiveRespawned" /\ p = Nobody)
          /\ \A u, p : u # "ObjectiveRespawned" => (Once(new, Event(u, p)) <=> Once(es, Event(u, p)))
          /\ Ends(new) <=> Ends(es)
          /\ EndsOnce(new) <=> EndsOnce(es)
          /\ \A p : NoActs(new, p) <=> NoActs(es, p) /\ ~Acts("ObjectiveRespawned", Nobody, p)
          /\ \A p : LastActs(new, p)
                      <=> /\ LastActs(es, p)
                          /\ Has(es, Event("PlayerDefeated", p)) => ~Acts("ObjectiveRespawned", Nobody, p)
          /\ FollowAll(h, new) = Follow(FollowAll(h, es), Event("ObjectiveRespawned", Nobody))
      BY <2>2, <3>1, TellOne DEF EventType
    <3>5. FollowAll(h, new) = "Ground"
      BY <3>2, <3>4, EventFacts DEF Follow
    <3> HIDE DEF new
    <3> QED
      BY <1>9, <2>2, <3>3, <3>4, <3>5
  <2> QED
    BY <1>7, <2>1, <2>2
<1>11. Told(h, v) /\ Ended(v)
  BY <1>7, <1>10 DEF Told, Ended
<1>12. Rested(w, v)
  <2>1. w.objective.lock > 1 => w.objective.state = "Dropped"
    <3>1. w.objective.lock \in Nat
      BY <1>1 DEF WorldRecord
    <3> QED
      BY <1>1, <3>1 DEF Sound, ObjectiveConsistent
  <2> QED
    BY <1>7, <2>1 DEF Rested
<1>13. Counted(w, v)
  BY <1>7, <1>10 DEF Counted, ScoredNothing
<1>14. Final(w, v)
  BY <1>6, <1>7, <1>10 DEF Final, Alive
<1>15. Attacked({}, v)
  BY <1>10 DEF Attacked
<1>16. Story(h, w, {}, v)
  BY <1>7, <1>11, <1>12, <1>13, <1>14, <1>15 DEF Story
<1>17. BeginTick(w) = UpdateContact(v)
  BY DEF BeginTick, v, cool, begun
<1> QED
  BY <1>1, <1>8, <1>16, <1>17, UpdateContactStory, UpdateContactSound

(***************************************************************************)
(* A whole tick.  At its end the match may be announced as over twice: by  *)
(* the winning capture and by the clock.                                   *)
(***************************************************************************)
LEMMA AdvanceTickStory ==
  ASSUME NEW h \in Known, NEW w \in SoundWorld, ~w.finished, w.tick < MaxTicks,
         OnlyDrops(w.events), Told(h, w),
         NEW cmds \in Seq(Command), OneAttackEach(cmds)
  PROVE  LET v == AdvanceTick(w, cmds)
         IN  /\ v \in WorldRecord /\ v.tick = w.tick + 1
             /\ Told(h, v)
             /\ v.finished <=> Ends(v.events)
             /\ EndsOnce(v.events) \/ (v.tick = MaxTicks /\ v.objective.state = "Captured")
             /\ ObjectiveWaits => Counted(w, v)
             /\ Rested(w, v) /\ Final(w, v)
             /\ Attacked(Attackers(cmds, Len(cmds)), v)
<1> DEFINE done == Attackers(cmds, Len(cmds))
           run == ExecuteCommands(BeginTick(w), cmds)
           one == MoveHero(run, Blue)
           both == MoveHero(one, Red)
           met == UpdateContact(both)
           u == UpdateHazards(met)
           es == u.events
           new == Append(es, Event("MatchFinished", Nobody))
           v == AdvanceTick(w, cmds)
<1>1. w \in WorldRecord /\ Blue \in Player /\ Red \in Player
  BY DEF SoundWorld, Player
<1>2. run \in SoundWorld /\ Story(h, w, done, run)
  BY <1>1, BeginTickStory, ExecuteCommandsStory, ExecuteCommandsSound
<1>3. v = CheckClock(u)
  BY DEF AdvanceTick
<1> HIDE DEF done, run, v
<1>4. one \in SoundWorld /\ Story(h, w, done, one)
  BY <1>1, <1>2, MoveHeroStory, MoveHeroSound
<1> HIDE DEF one
<1>5. both \in SoundWorld /\ Story(h, w, done, both)
  BY <1>1, <1>4, MoveHeroStory, MoveHeroSound
<1> HIDE DEF both
<1>6. met \in SoundWorld /\ Story(h, w, done, met)
  BY <1>1, <1>5, UpdateContactStory, UpdateContactSound
<1> HIDE DEF met
<1>7. u \in SoundWorld /\ Story(h, w, done, u)
  BY <1>1, <1>6, UpdateHazardsStory, UpdateHazardsSound
<1> HIDE DEF u
<1>8. u \in WorldRecord /\ Sound(u) /\ u.tick \in 0 .. MaxTicks /\ es \in Seq(EventRecord)
  BY <1>7 DEF SoundWorld, WorldRecord
<1>9. CASE ~(u.tick >= MaxTicks)
  <2>1. v = u
    BY <1>3, <1>9 DEF CheckClock
  <2> QED
    BY <1>7, <1>8, <2>1 DEF Story, Ended, v, done
<1>10. CASE u.tick >= MaxTicks
  <2>1. v = [u EXCEPT !.finished = TRUE, !.events = new]
    BY <1>3, <1>10 DEF CheckClock
  <2>2. /\ new \in Seq(EventRecord)
        /\ \A t, p : t # "MatchFinished" =>
             /\ Has(new, Event(t, p)) <=> Has(es, Event(t, p))
             /\ Once(new, Event(t, p)) <=> Once(es, Event(t, p))
        /\ Ends(new)
        /\ EndsOnce(new) <=> EndsOnce(es) /\ ~Ends(es)
        /\ \A p : NoActs(new, p) <=> NoActs(es, p)
        /\ \A p : LastActs(new, p) <=> LastActs(es, p)
        /\ FollowAll(h, new) = FollowAll(h, es)
    <3>1. Nobody \in Player \cup {Nobody} /\ "MatchFinished" \in EventType
      BY DEF EventType
    <3>2. \A p : ~Acts("MatchFinished", Nobody, p)
      BY DEF Acts
    <3>3. Follow(FollowAll(h, es), Event("MatchFinished", Nobody)) = FollowAll(h, es)
      BY EventFacts DEF Follow
    <3> HIDE DEF es
    <3>4. /\ new \in Seq(EventRecord)
          /\ \A t, p : Has(new, Event(t, p)) <=> Has(es, Event(t, p)) \/ (t = "MatchFinished" /\ p = Nobody)
          /\ \A t, p : t # "MatchFinished" => (Once(new, Event(t, p)) <=> Once(es, Event(t, p)))
          /\ Ends(new)
          /\ EndsOnce(new) <=> EndsOnce(es) /\ ~Ends(es)
          /\ \A p : NoActs(new, p) <=> NoActs(es, p) /\ ~Acts("MatchFinished", Nobody, p)
          /\ \A p : LastActs(new, p)
                      <=> /\ LastActs(es, p)
                          /\ Has(es, Event("PlayerDefeated", p)) => ~Acts("MatchFinished", Nobody, p)
          /\ FollowAll(h, new) = Follow(FollowAll(h, es), Event("MatchFinished", Nobody))
      BY <1>8, <3>1, TellOne
    <3> HIDE DEF new
    <3> QED
      BY <3>2, <3>3, <3>4
  <2> HIDE DEF new
  <2>3. /\ v \in WorldRecord /\ v.finished = TRUE /\ v.events = new
        /\ v.objective = u.objective /\ v.hero = u.hero /\ v.score = u.score
        /\ v.tick = u.tick
    BY <1>8, <2>1, <2>2 DEF WorldRecord
  <2>4. v.tick = MaxTicks
    BY <1>8, <1>10, <2>3, RulesAssumption
  <2>5. Told(h, v)
    BY <1>7, <2>2, <2>3 DEF Story, Told, Holding
  <2>6. EndsOnce(new) \/ v.objective.state = "Captured"
    BY <1>7, <1>8, <2>2, <2>3 DEF Story, Ended, Sound, MidTick
  <2>7. ObjectiveWaits => Counted(w, v)
    <3>1. \A q : Has(new, Event("ObjectiveCaptured", q)) <=> Has(es, Event("ObjectiveCaptured", q))
      BY <2>2
    <3> QED
      BY <1>7, <2>3, <3>1 DEF Story, Counted, ScoredBy, ScoredNothing
  <2>8. Rested(w, v)
    BY <1>7, <2>3 DEF Story, Rested
  <2>9. Final(w, v)
    BY <1>7, <2>2, <2>3 DEF Story, Final, Alive
  <2>10. Attacked(done, v)
    BY <1>7, <2>2, <2>3 DEF Story, Attacked
  <2> QED
    BY <1>7, <2>2, <2>3, <2>4, <2>5, <2>6, <2>7, <2>8, <2>9, <2>10 DEF Story, v, done
<1> QED
  BY <1>9, <1>10

(***************************************************************************)
(* What waits between two ticks: at most one drop, of an objective that    *)
(* still lies where it fell; and at most one attack of each player, whose  *)
(* cooldown has run out.                                                   *)
(***************************************************************************)
DropsWait ==
  \/ systemEvents = <<>>
  \/ /\ world.objective.state = "Dropped"
     /\ \E p \in Player : systemEvents = <<Event("ObjectiveDropped", p)>>

AttacksWait ==
  /\ \A i \in 1 .. Len(pending) :
       pending[i].type = "Attack" => world.hero[pending[i].player].attackCd = 0
  /\ OneAttackEach(pending)

BetweenTicks == IInv /\ DropsWait /\ AttacksWait

\* A call that is not a tick leaves the simulation as it is, but for a drop.
LEMMA CallsAreQuiet ==
  ASSUME IInv, [Next]_vars, ~Tick
  PROVE  /\ world'.tick = world.tick /\ world'.hero = world.hero
         /\ world'.score = world.score /\ world'.finished = world.finished
         /\ \/ world' = world /\ systemEvents' = systemEvents
            \/ \E p \in Player : /\ Carries(world, p) /\ world'.objective = DroppedAt(world, p)
                                 /\ systemEvents' = Append(systemEvents, Event("ObjectiveDropped", p))
                                 /\ pending' = pending
<1>1. ASSUME NEW p \in Player, DropObjective(p)
      PROVE  /\ world'.tick = world.tick /\ world'.hero = world.hero
             /\ world'.score = world.score /\ world'.finished = world.finished
             /\ Carries(world, p) /\ world'.objective = DroppedAt(world, p)
             /\ systemEvents' = Append(systemEvents, Event("ObjectiveDropped", p))
             /\ pending' = pending
  BY <1>1 DEF DropObjective, IInv, TypeOK, WorldRecord
<1>2. ASSUME NEW c \in Command, Submit(c) PROVE world' = world /\ systemEvents' = systemEvents
  BY <1>2 DEF Submit
<1>3. TickFinished \/ UNCHANGED vars => world' = world /\ systemEvents' = systemEvents
  BY DEF TickFinished, vars
<1> QED
  BY <1>1, <1>2, <1>3 DEF Next

\* The next tick reports what happened since the last one, in order.
LEMMA TickTells ==
  ASSUME BetweenTicks, Tick
  PROVE  \E v \in WorldRecord :
           /\ v.events = events' /\ v.tick = world.tick + 1
           /\ world'.tick = v.tick /\ world'.finished = v.finished /\ world'.hero = v.hero
           /\ world'.objective = v.objective /\ world'.score = v.score
           /\ FollowAll(KnownHolding, v.events) = Holding(v)
           /\ v.finished <=> Ends(v.events)
           /\ EndsOnce(v.events) \/ (v.tick = MaxTicks /\ v.objective.state = "Captured")
           /\ ObjectiveWaits => Counted(world, v)
           /\ Rested(world, v) /\ Final(world, v)
           /\ Attacked(Attackers(pending, Len(pending)), v)
<1> DEFINE w == [world EXCEPT !.events = systemEvents]
           v == AdvanceTick(w, pending)
<1>1. /\ ~world.finished /\ world' = [v EXCEPT !.events = <<>>] /\ events' = v.events
      /\ pending' = <<>> /\ systemEvents' = <<>>
  BY DEF Tick
<1>2. /\ systemEvents \in Seq(EventRecord) /\ pending \in Seq(Command) /\ world \in WorldRecord
      /\ IInv
  BY DEF BetweenTicks, IInv, TypeOK
<1>3. w \in SoundWorld /\ world.tick < MaxTicks
  BY <1>1, <1>2, UnfinishedIsSound
<1>4. /\ w.events = systemEvents /\ w.objective = world.objective /\ w.hero = world.hero
      /\ w.score = world.score /\ w.finished = world.finished /\ w.tick = world.tick
  BY <1>2, EventUpdate
<1> HIDE DEF w
<1>5. KnownHolding \in Known /\ Told(KnownHolding, w) /\ OnlyDrops(w.events)
  <2>1. ASSUME NEW h \in Known PROVE FollowAll(h, <<>>) = h
    <3>1. <<>> \in Seq(EventRecord) /\ Len(<<>>) = 0
      OBVIOUS
    <3> QED
      BY <3>1, FollowNothing
  <2>2. CASE systemEvents = <<>>
    <3>1. Holding(world) \in Known
      BY <1>2 DEF WorldRecord, Holding, Known
    <3>2. Holding(w) = Holding(world) /\ KnownHolding = Holding(world)
      BY <1>4, <2>2 DEF Holding, KnownHolding
    <3> QED
      BY <1>4, <2>1, <2>2, <3>1, <3>2 DEF Told, OnlyDrops
  <2>3. ASSUME NEW p \in Player, systemEvents = <<Event("ObjectiveDropped", p)>>,
               world.objective.state = "Dropped"
        PROVE  KnownHolding \in Known /\ Told(KnownHolding, w) /\ OnlyDrops(w.events)
    <3> DEFINE e == Event("ObjectiveDropped", p)
    <3>1. e.type = "ObjectiveDropped" /\ e.player = p /\ e \in EventRecord
      BY EventFacts DEF Event, EventRecord, EventType
    <3> HIDE DEF e
    <3>2. systemEvents = <<e>> /\ systemEvents # <<>> /\ systemEvents[1] = e
      BY <2>3 DEF e
    <3>3. KnownHolding = p /\ p \in Known
      BY <3>1, <3>2 DEF KnownHolding, Known
    <3>4. systemEvents = Append(<<>>, e) /\ <<>> \in Seq(EventRecord)
      BY <3>2
    <3>5. FollowAll(p, systemEvents) = Follow(FollowAll(p, <<>>), e)
      BY <3>1, <3>3, <3>4, FollowOneMore
    <3>6. FollowAll(p, systemEvents) = "Ground"
      BY <2>1, <3>1, <3>3, <3>5 DEF Follow
    <3>7. Holding(w) = "Ground"
      BY <1>4, <2>3 DEF Holding
    <3>8. OnlyDrops(systemEvents)
      BY <3>1, <3>2 DEF OnlyDrops
    <3> QED
      BY <1>4, <3>3, <3>6, <3>7, <3>8 DEF Told
  <2> QED
    BY <2>2, <2>3 DEF BetweenTicks, DropsWait
<1>6. OneAttackEach(pending)
  BY DEF BetweenTicks, AttacksWait
<1>7. /\ v \in WorldRecord /\ v.tick = w.tick + 1
      /\ Told(KnownHolding, v)
      /\ v.finished <=> Ends(v.events)
      /\ EndsOnce(v.events) \/ (v.tick = MaxTicks /\ v.objective.state = "Captured")
      /\ ObjectiveWaits => Counted(w, v)
      /\ Rested(w, v) /\ Final(w, v)
      /\ Attacked(Attackers(pending, Len(pending)), v)
  BY <1>1, <1>2, <1>3, <1>4, <1>5, <1>6, AdvanceTickStory
<1> HIDE DEF v
<1>8. /\ world'.tick = v.tick /\ world'.finished = v.finished /\ world'.hero = v.hero
      /\ world'.objective = v.objective /\ world'.score = v.score
  BY <1>1, <1>7, EventUpdate
<1>9. ObjectiveWaits => Counted(world, v)
  BY <1>4, <1>7 DEF Counted, ScoredBy, ScoredNothing
<1>10. Rested(world, v) /\ Final(world, v)
  BY <1>4, <1>7 DEF Rested, Final, Alive
<1> QED
  BY <1>1, <1>4, <1>7, <1>8, <1>9, <1>10 DEF Told

\* Before the first call nothing waits.
LEMMA InitBetweenTicks == Init => BetweenTicks
<1> SUFFICES ASSUME Init PROVE BetweenTicks
  OBVIOUS
<1>1. IInv
  BY InitIInv
<1>2. pending = <<>> /\ systemEvents = <<>> /\ Len(pending) = 0
  BY DEF Init
<1> QED
  BY <1>1, <1>2 DEF BetweenTicks, DropsWait, AttacksWait, OneAttackEach

\* Every call preserves what waits.
LEMMA NextBetweenTicks == BetweenTicks /\ [Next]_vars => BetweenTicks'
<1> SUFFICES ASSUME BetweenTicks, [Next]_vars PROVE BetweenTicks'
  OBVIOUS
<1>1. IInv /\ IInv'
  BY NextIInv DEF BetweenTicks
<1>2. CASE Tick
  <2>1. pending' = <<>> /\ systemEvents' = <<>>
    BY <1>2 DEF Tick
  <2>2. AttacksWait'
    BY <2>1 DEF AttacksWait, OneAttackEach
  <2> QED
    BY <1>1, <2>1, <2>2 DEF BetweenTicks, DropsWait
<1>3. CASE ~Tick
  <2>1. DropsWait'
    <3>1. CASE world' = world /\ systemEvents' = systemEvents
      BY <3>1 DEF BetweenTicks, DropsWait
    <3>2. ASSUME NEW p \in Player, Carries(world, p), world'.objective = DroppedAt(world, p),
                 systemEvents' = Append(systemEvents, Event("ObjectiveDropped", p))
          PROVE  DropsWait'
      <4>1. systemEvents = <<>>
        BY <3>2 DEF BetweenTicks, DropsWait, Carries
      <4>2. systemEvents' = <<Event("ObjectiveDropped", p)>>
        BY <3>2, <4>1
      <4>3. world'.objective.state = "Dropped"
        BY <3>2 DEF DroppedAt
      <4> QED
        BY <4>2, <4>3 DEF DropsWait
    <3> QED
      BY <1>1, <1>3, <3>1, <3>2, CallsAreQuiet
  <2>2. AttacksWait'
    <3>1. world'.hero = world.hero
      BY <1>1, <1>3, CallsAreQuiet
    <3>2. CASE pending' = pending
      BY <3>1, <3>2 DEF BetweenTicks, AttacksWait, OneAttackEach
    <3>3. ASSUME NEW c \in Command, Submit(c) PROVE AttacksWait'
      <4> DEFINE N == Len(pending)
      <4>1. /\ pending' = Append(pending, c)
            /\ c.type = "Attack" => /\ world.hero[c.player].attackCd = 0
                                    /\ \A i \in 1 .. N : ~(pending[i].player = c.player
                                                           /\ pending[i].type = "Attack")
        BY <3>3 DEF Submit, HasPending
      <4>2. pending \in Seq(Command)
        BY <1>1 DEF IInv, TypeOK
      <4>3. /\ N \in Nat /\ Len(pending') = N + 1 /\ pending'[N + 1] = c
            /\ \A i \in 1 .. N : pending'[i] = pending[i]
        BY <4>1, <4>2, AppendProperties
      <4>4. /\ \A i \in 1 .. N : pending[i].type = "Attack" => world.hero[pending[i].player].attackCd = 0
            /\ \A i, j \in 1 .. N :
                 pending[i].type = "Attack" /\ pending[j].type = "Attack"
                 /\ pending[i].player = pending[j].player => i = j
        BY DEF BetweenTicks, AttacksWait, OneAttackEach
      <4> HIDE DEF N
      <4>5. \A i \in 1 .. N + 1 : i \in 1 .. N \/ i = N + 1
        BY <4>3
      <4>6. \A i \in 1 .. N + 1 :
              pending'[i].type = "Attack" => world.hero[pending'[i].player].attackCd = 0
        BY <4>1, <4>3, <4>4, <4>5
      <4>7. \A i, j \in 1 .. N + 1 :
              pending'[i].type = "Attack" /\ pending'[j].type = "Attack"
              /\ pending'[i].player = pending'[j].player => i = j
        BY <4>1, <4>3, <4>4, <4>5
      <4> QED
        BY <3>1, <4>3, <4>6, <4>7 DEF AttacksWait, OneAttackEach
    <3> QED
      BY <1>3, <3>2, <3>3 DEF Next, DropObjective, TickFinished, vars
  <2> QED
    BY <1>1, <2>1, <2>2 DEF BetweenTicks
<1> QED
  BY <1>2, <1>3

\* What waits between two ticks, in every reachable state of a match.
THEOREM NothingElseWaits == Spec => []BetweenTicks
BY InitBetweenTicks, NextBetweenTicks, PTL DEF Spec

\* Reported, in terms of Has and Once.
LEMMA ReportedHas ==
  ASSUME NEW t, NEW p
  PROVE  /\ Reported(t, p) # {} <=> Has(events', Event(t, p))
         /\ (\A i, j \in Reported(t, p) : i = j) <=> Once(events', Event(t, p))
BY DEF Reported, Has, Once

\* One call and the score (tryCaptureObjective, and nothing else, moves it).
LEMMA NextCaptureCounts ==
  ASSUME ObjectiveWaits, BetweenTicks, [Next]_vars
  PROVE  CaptureCounts
<1>1. world.tick \in Nat /\ world.score \in [Player -> Nat] /\ IInv
  BY RulesAssumption DEF BetweenTicks, IInv, TypeOK, WorldRecord
<1>2. CASE Tick
  <2>1. PICK v \in WorldRecord :
          /\ v.events = events' /\ v.tick = world.tick + 1 /\ world'.tick = v.tick
          /\ world'.objective = v.objective /\ world'.score = v.score
          /\ Counted(world, v)
    BY <1>2, TickTells
  <2>2. Ticked
    BY <1>1, <2>1 DEF Ticked
  <2>3. SUFFICES ASSUME NEW p \in Player
                 PROVE  /\ world'.score[p] # world.score[p] =>
                             /\ Ticked
                             /\ world'.score[p] = world.score[p] + 1
                             /\ world'.score[Opponent(p)] = world.score[Opponent(p)]
                             /\ world'.objective.place \in OwnBase[p]
                             /\ Reported("ObjectiveCaptured", p) # {}
                        /\ Ticked /\ Reported("ObjectiveCaptured", p) # {} =>
                             world'.score[p] # world.score[p]
    BY DEF CaptureCounts
  <2>4. Reported("ObjectiveCaptured", p) # {} <=> Has(v.events, Event("ObjectiveCaptured", p))
    BY <2>1, ReportedHas
  <2>5. CASE ScoredNothing(world, v)
    BY <2>1, <2>4, <2>5 DEF ScoredNothing
  <2>6. ASSUME NEW q \in Player, ScoredBy(world, v, q)
        PROVE  /\ world'.score[p] # world.score[p] =>
                    /\ world'.score[p] = world.score[p] + 1
                    /\ world'.score[Opponent(p)] = world.score[Opponent(p)]
                    /\ world'.objective.place \in OwnBase[p]
                    /\ Has(v.events, Event("ObjectiveCaptured", p))
               /\ Has(v.events, Event("ObjectiveCaptured", p)) =>
                    world'.score[p] # world.score[p]
    <3>1. world'.score = [world.score EXCEPT ![q] = world.score[q] + 1]
      BY <2>1, <2>6 DEF ScoredBy
    <3>2. Has(v.events, Event("ObjectiveCaptured", p)) <=> p = q
      BY <2>6 DEF ScoredBy
    <3>3. world'.objective.place \in OwnBase[q]
      BY <2>1, <2>6 DEF ScoredBy
    <3>4. Opponent(p) \in Player /\ Opponent(p) # p
      BY PlayerTypes
    <3> QED
      BY <1>1, <3>1, <3>2, <3>3, <3>4
  <2> QED
    BY <2>1, <2>2, <2>4, <2>5, <2>6 DEF Counted
<1>3. CASE ~Tick
  BY <1>1, <1>3, CallsAreQuiet DEF CaptureCounts, Ticked
<1> QED
  BY <1>2, <1>3

\* A tick counts at most one capture, made in the own base, and reports it; the
\* delay of a captured objective is at least one tick, as ScenarioConfig makes it.
THEOREM OnlyCapturesScore == ASSUME ObjectiveWaits PROVE Spec => ScoresOnlyByCapture
<1>1. BetweenTicks /\ [Next]_vars => [CaptureCounts]_vars
  BY NextCaptureCounts
<1> QED
  BY <1>1, NothingElseWaits, PTL DEF Spec, ScoresOnlyByCapture

\* One call and a locked objective (updateObjectiveTimers).
LEMMA NextLockCounts ==
  ASSUME BetweenTicks, [Next]_vars
  PROVE  LockCounts
<1> SUFFICES ASSUME world.objective.lock > 1
             PROVE  world'.objective = IF Ticked THEN [world.objective EXCEPT !.lock = @ - 1]
                                       ELSE world.objective
  BY DEF LockCounts
<1>1. world.tick \in Nat /\ world.objective.lock \in Nat /\ IInv
  BY RulesAssumption DEF BetweenTicks, IInv, TypeOK, WorldRecord
<1>2. CASE Tick
  <2>1. PICK v \in WorldRecord : /\ v.tick = world.tick + 1 /\ world'.tick = v.tick
                                 /\ world'.objective = v.objective /\ Rested(world, v)
    BY <1>2, TickTells
  <2> QED
    BY <1>1, <2>1 DEF Ticked, Rested
<1>3. CASE ~Tick
  <2>1. \A p \in Player : ~Carries(world, p)
    BY <1>1 DEF IInv, ObjectiveIsConsistent, ObjectiveConsistent, Carries
  <2> QED
    BY <1>1, <1>3, <2>1, CallsAreQuiet DEF Ticked
<1> QED
  BY <1>2, <1>3

\* After a drop nobody takes the objective while its lock runs.
THEOREM LockHolds == Spec => LockedObjectiveStays
<1>1. BetweenTicks /\ [Next]_vars => [LockCounts]_vars
  BY NextLockCounts
<1> QED
  BY <1>1, NothingElseWaits, PTL DEF Spec, LockedObjectiveStays

\* One call and the defeated heroes.
LEMMA NextDefeatedRest ==
  ASSUME BetweenTicks, [Next]_vars
  PROVE  DefeatedRest
<1>0. IInv /\ IInv'
  BY NextIInv DEF BetweenTicks
<1>1. world \in WorldRecord /\ world' \in WorldRecord
  BY <1>0 DEF IInv, TypeOK
<1>2. \A p \in Player : ~Alive(world', p) <=> world'.hero[p].hp = 0
  <2>1. \A p \in Player : world'.hero[p].hp \in Nat
    BY <1>1 DEF WorldRecord, HeroRecord
  <2> QED
    BY <2>1 DEF Alive
<1>3. CASE Tick
  <2>1. PICK v \in WorldRecord :
          /\ v.events = events' /\ world'.hero = v.hero /\ world'.score = v.score
          /\ Final(world, v)
    BY <1>3, TickTells
  <2>2. ASSUME NEW p \in Player, ~Alive(world, p)
        PROVE  /\ world'.hero[p].hp = 0 /\ world'.hero[p].place = world.hero[p].place
               /\ world'.score[p] = world.score[p]
               /\ \A i \in 1 .. Len(events') : events'[i] \notin ActsOf(p)
    <3>1. /\ ~Alive(v, p) /\ v.hero[p].place = world.hero[p].place
          /\ v.score[p] = world.score[p] /\ NoActs(v.events, p)
      BY <2>1, <2>2 DEF Final
    <3> QED
      BY <1>2, <2>1, <3>1 DEF Alive, NoActs
  <2>3. ASSUME NEW p \in Player
        PROVE  \A i \in Reported("PlayerDefeated", p) :
                 \A j \in i + 1 .. Len(events') : events'[j] \notin ActsOf(p)
    <3>1. LastActs(events', p)
      BY <2>1 DEF Final
    <3> QED
      BY <3>1 DEF LastActs, Reported
  <2> QED
    BY <2>2, <2>3 DEF DefeatedRest
<1>4. CASE ~Tick
  <2>1. /\ world'.tick = world.tick /\ world'.hero = world.hero /\ world'.score = world.score
    BY <1>0, <1>4, CallsAreQuiet
  <2>2. \A p \in Player : ~Alive(world, p) => world'.hero[p].hp = 0
    BY <1>2, <2>1 DEF Alive
  <2> QED
    BY <2>1, <2>2 DEF DefeatedRest, Ticked
<1> QED
  BY <1>3, <1>4

\* A defeated hero stays where it fell, and acts and scores no more.
THEOREM DefeatedStayDefeated == Spec => DefeatIsFinal
<1>1. BetweenTicks /\ [Next]_vars => [DefeatedRest]_vars
  BY NextDefeatedRest
<1> QED
  BY <1>1, NothingElseWaits, PTL DEF Spec, DefeatIsFinal

\* One call and the attacks.
LEMMA NextAttacksCool ==
  ASSUME BetweenTicks, [Next]_vars
  PROVE  AttacksCool
<1>1. world.tick \in Nat /\ IInv
  BY RulesAssumption DEF BetweenTicks, IInv, TypeOK, WorldRecord
<1>2. CASE Tick
  <2>1. PICK v \in WorldRecord :
          /\ v.events = events' /\ world'.hero = v.hero
          /\ Attacked(Attackers(pending, Len(pending)), v)
    BY <1>2, TickTells
  <2>2. SUFFICES ASSUME NEW p \in Player, Reported("AttackHit", Opponent(p)) # {}
                 PROVE  /\ world.hero[p].attackCd = 0
                        /\ world'.hero[p].attackCd = AttackCooldown
                        /\ \A i, j \in Reported("AttackHit", Opponent(p)) : i = j
    BY DEF AttacksCool
  <2>3. Has(v.events, Event("AttackHit", Opponent(p)))
    BY <2>1, <2>2, ReportedHas
  <2>4. /\ p \in Attackers(pending, Len(pending)) /\ v.hero[p].attackCd = AttackCooldown
        /\ Once(v.events, Event("AttackHit", Opponent(p)))
    BY <2>1, <2>3 DEF Attacked
  <2>5. world.hero[p].attackCd = 0
    BY <2>4 DEF BetweenTicks, AttacksWait, Attackers
  <2> QED
    BY <2>1, <2>4, <2>5, ReportedHas
<1>3. CASE ~Tick
  BY <1>1, <1>3, CallsAreQuiet DEF AttacksCool, Ticked
<1> QED
  BY <1>2, <1>3

\* A hero attacks at most once a tick, and only after its cooldown.
THEOREM AttacksAlwaysCool == Spec => AttacksRespectCooldown
<1>1. BetweenTicks /\ [Next]_vars => [AttacksCool]_vars
  BY NextAttacksCool
<1> QED
  BY <1>1, NothingElseWaits, PTL DEF Spec, AttacksRespectCooldown

\* One call and what it reports.
LEMMA NextEventsTell ==
  ASSUME BetweenTicks, [Next]_vars
  PROVE  EventsTell
<1>1. world.tick \in Nat /\ IInv
  BY RulesAssumption DEF BetweenTicks, IInv, TypeOK, WorldRecord
<1>2. CASE Tick
  <2> DEFINE ends == {i \in 1 .. Len(events') : events'[i].type = "MatchFinished"}
  <2>1. PICK v \in WorldRecord :
          /\ v.events = events' /\ world'.tick = v.tick /\ world'.finished = v.finished
          /\ world'.objective = v.objective
          /\ FollowAll(KnownHolding, v.events) = Holding(v)
          /\ v.finished <=> Ends(v.events)
          /\ EndsOnce(v.events) \/ (v.tick = MaxTicks /\ v.objective.state = "Captured")
    BY <1>2, TickTells
  <2>2. (Ends(events') <=> ends # {}) /\ (EndsOnce(events') => \A i, j \in ends : i = j)
    BY DEF Ends, EndsOnce
  <2>3. Holding(v) = Holding(world')
    BY <2>1 DEF Holding
  <2> HIDE DEF ends
  <2>4. /\ FollowAll(KnownHolding, events') = Holding(world')
        /\ world'.finished <=> ends # {}
        /\ \A i, j \in ends : i # j => /\ world'.tick = MaxTicks
                                       /\ world'.objective.state = "Captured"
    BY <2>1, <2>2, <2>3
  <2> QED
    BY <2>4 DEF EventsTell, ends
<1>3. CASE ~Tick
  BY <1>1, <1>3, CallsAreQuiet DEF EventsTell, Ticked
<1> QED
  BY <1>2, <1>3

\* Who follows the events alone knows who has the objective and whether the match is over.
THEOREM EventsAlwaysTell == Spec => EventsTellTheMatch
<1>1. BetweenTicks /\ [Next]_vars => [EventsTell]_vars
  BY NextEventsTell
<1> QED
  BY <1>1, NothingElseWaits, PTL DEF Spec, EventsTellTheMatch
=============================================================================
