------------------------ MODULE ActiveContextsProofs ------------------------
(* For any number of sessions and commands: a task has one owner, who keeps   *)
(* it until its time; and what a command read before the lock is not used     *)
(* against what it finds under it.                                           *)
EXTENDS ActiveContexts, TLAPS

Profile == [state : {"none", "active", "consumed", "expired"}, turn : Nat]
Task == [state : {"none", "active", "released", "expired"}, until : Nat]
Context == [state : {"none", "active", "closed"}, change : Changes \cup {NoChange},
            rev : Nat, profile : Profile, task : Task]

Shape == /\ session \in [Sessions -> [status : {"active", "done"}, turn : Nat, stopped : Nat]]
         /\ context \in [Sessions -> Context]
         /\ clock \in Nat

(* The time a claim was made with is not in the future: the lease it finds to *)
(* be over is over.                                                          *)
ClaimsArePast == \A p \in Commands : pc[p] = "claim" =>
                   loc[p].of \in Sessions /\ loc[p].turn \in Nat /\ loc[p].turn <= clock

Place == {"idle", "read", "project", "consume", "claim", "repair"}
Local == [of : Sessions \cup {None}, rev : Nat, turn : Nat, slug : Changes \cup {NoChange},
          saw : Context]
Locals == /\ pc \in [Commands -> Place]
          /\ loc \in [Commands -> Local]
          /\ \A p \in Commands : pc[p] \in {"consume", "repair"} => loc[p].of \in Sessions

OneHolder == \A s, o \in Sessions :
               context[s].task.state = "active" /\ context[o].task.state = "active" => s = o

ContextInv == Shape /\ Locals /\ ClaimsArePast /\ OneHolder
-----------------------------------------------------------------------------

LEMMA WriteOne ==
  ASSUME Shape, NEW s \in Sessions, NEW c \in Context, Write(s, c)
  PROVE  /\ context' \in [Sessions -> Context]
         /\ context'[s] = [c EXCEPT !.rev = context[s].rev + 1]
         /\ \A o \in Sessions \ {s} : context'[o] = context[o]
<1> DEFINE w == [c EXCEPT !.rev = context[s].rev + 1]
<1>1. context[s].rev + 1 \in Nat
  BY DEF Shape, Context
<1>2. w \in Context
  BY <1>1 DEF Context
<1>3. context' = [context EXCEPT ![s] = w]
  BY DEF Write
<1>4. QED
  BY <1>2, <1>3 DEF Shape

LEMMA ContentType == \A c \in Context : Content(c) \in Context
BY DEF Content, Context

LEMMA IdleType == Idle \in Local
<1>1. NewContext \in Context
  BY DEF NewContext, NoLease, NoTask, Context, Profile, Task
<1>2. QED
  BY <1>1, ContentType DEF Idle, Local

LEMMA InitContexts == Init => ContextInv
<1>1. ASSUME Init PROVE Shape /\ OneHolder
  BY <1>1 DEF Init, Shape, OneHolder, Context, Profile, Task, NewContext, NoLease, NoTask
<1>2. ASSUME Init PROVE Locals /\ ClaimsArePast
  BY <1>2, IdleType DEF Init, Locals, Place, ClaimsArePast
<1>3. QED
  BY <1>1, <1>2 DEF ContextInv

(* A command goes on to another place with what it has read.                 *)
LEMMA CommandStep ==
  ASSUME Locals, ClaimsArePast, NEW p \in Commands, NEW step \in Place, NEW r \in Local,
         pc' = [pc EXCEPT ![p] = step], loc' = [loc EXCEPT ![p] = r], UNCHANGED clock,
         step \in {"consume", "repair", "claim"} => r.of \in Sessions,
         step = "claim" => r.turn <= clock
  PROVE  Locals' /\ ClaimsArePast'
BY DEF Locals, Local, ClaimsArePast

LEMMA CommandEnds ==
  ASSUME Locals, ClaimsArePast, NEW p \in Commands, Ends(p), UNCHANGED clock
  PROVE  Locals' /\ ClaimsArePast'
<1>1. QED
  BY IdleType, CommandStep DEF Ends, Place

LEMMA ProjectionIsChange == ASSUME Shape PROVE Projection \in Changes \cup {NoChange}
<1>1. CASE \E s \in Sessions : Active = {s}
  <2>1. (CHOOSE s \in Active : TRUE) \in Sessions
    BY <1>1 DEF Active
  <2>2. QED
    BY <1>1, <2>1 DEF Projection, Shape, Context
<1>2. CASE ~\E s \in Sessions : Active = {s}
  BY <1>2 DEF Projection
<1>3. QED
  BY <1>1, <1>2

(* The steps of a command that leave contexts alone.                         *)
LEMMA ReadingSteps ==
  ASSUME ContextInv, NEW p \in Commands, NEW s \in Sessions,
         ReadLease(p, s) \/ StartClaim(p, s) \/ Inspect(p, s)
  PROVE  Locals' /\ ClaimsArePast' /\ UNCHANGED <<context, session, clock>>
<1> USE DEF ContextInv
<1>0. /\ loc[p] \in Local
      /\ context[s].rev \in Nat /\ context[s].profile.turn \in Nat
      /\ Content(context[s]) \in Context
  BY ContentType DEF Locals, Shape, Context, Profile
<1>1. CASE ReadLease(p, s)
  <2> DEFINE r == [loc[p] EXCEPT !.of = s, !.rev = context[s].rev, !.turn = context[s].profile.turn,
                                 !.saw = Content(context[s])]
  <2>1. r \in Local /\ r.of = s
    BY <1>0 DEF Local
  <2>2. loc' = [loc EXCEPT ![p] = r] /\ pc' = [pc EXCEPT ![p] = "consume"] /\ UNCHANGED <<session, context, clock>>
    BY <1>1 DEF ReadLease, Goes
  <2> HIDE DEF r
  <2>3. QED
    BY <2>1, <2>2, CommandStep DEF Place
<1>2. CASE StartClaim(p, s)
  <2> DEFINE r == [loc[p] EXCEPT !.of = s, !.turn = clock]
  <2>1. r \in Local /\ r.of = s /\ r.turn = clock
    BY <1>0 DEF Local, Shape
  <2>2. clock <= clock
    BY DEF Shape
  <2>3. loc' = [loc EXCEPT ![p] = r] /\ pc' = [pc EXCEPT ![p] = "claim"] /\ UNCHANGED <<session, context, clock>>
    BY <1>2 DEF StartClaim, Goes
  <2> HIDE DEF r
  <2>4. QED
    BY <2>1, <2>2, <2>3, CommandStep DEF Place
<1>3. CASE Inspect(p, s)
  <2> DEFINE r == [loc[p] EXCEPT !.of = s, !.rev = context[s].rev, !.saw = Content(context[s])]
  <2>1. r \in Local /\ r.of = s
    BY <1>0 DEF Local
  <2>2. loc' = [loc EXCEPT ![p] = r] /\ pc' = [pc EXCEPT ![p] = "repair"] /\ UNCHANGED <<session, context, clock>>
    BY <1>3 DEF Inspect, Goes
  <2> HIDE DEF r
  <2>3. QED
    BY <2>1, <2>2, CommandStep DEF Place
<1>4. QED
  BY <1>1, <1>2, <1>3

LEMMA PointerSteps ==
  ASSUME ContextInv, NEW p \in Commands, ReadForPointer(p) \/ WritePointer(p)
  PROVE  Locals' /\ ClaimsArePast' /\ UNCHANGED <<context, session, clock>>
<1> USE DEF ContextInv
<1>1. CASE ReadForPointer(p)
  <2>1. [loc[p] EXCEPT !.slug = Projection] \in Local
    BY ProjectionIsChange DEF Locals, Local
  <2>2. QED
    BY <1>1, <2>1, CommandStep DEF ReadForPointer, Place
<1>2. CASE WritePointer(p)
  BY <1>2, CommandEnds DEF WritePointer
<1>3. QED
  BY <1>1, <1>2

(* A write of one context that does not start a lease on the task.           *)
KeepsTasks == \A o \in Sessions : \/ context'[o].task = context[o].task
                                  \/ context'[o].task.state = "released"

(* What a write may make of a lease on a request; and a write is a revision.   *)
MayHold(s, profile) ==
  \/ profile.state \in {context[s].profile.state, "active", "expired"}
  \/ \E p \in Commands : pc[p] = "consume" /\ loc[p].of = s /\ loc[p].turn = context[s].profile.turn
Counted(s, c) == c = context[s] \/ c.rev > context[s].rev

Honest == \A o \in Sessions : MayHold(o, context'[o].profile) /\ Counted(o, context'[o])

LEMMA PlainWrite ==
  ASSUME ContextInv, NEW s \in Sessions, NEW c \in Context, Write(s, c),
         c.task = context[s].task \/ c.task.state = "released",
         MayHold(s, c.profile),
         Locals', ClaimsArePast', UNCHANGED <<session, clock>>
  PROVE  ContextInv' /\ KeepsTasks /\ Honest
<1> USE DEF ContextInv
<1>0. context'[s] = [c EXCEPT !.rev = context[s].rev + 1]
  BY WriteOne
<1>1. /\ context'[s].task = c.task /\ context'[s].profile = c.profile
      /\ context'[s].rev > context[s].rev
  BY <1>0 DEF Context, Shape
<1>2. KeepsTasks
  BY <1>1, WriteOne DEF KeepsTasks
<1>3. OneHolder'
  BY <1>2 DEF KeepsTasks, OneHolder
<1>4. Shape'
  BY WriteOne DEF Shape
<1>5. Honest
  <2>1. \A o \in Sessions \ {s} : context'[o] = context[o]
    BY WriteOne
  <2>2. QED
    BY <1>1, <2>1 DEF Honest, MayHold, Counted
<1>6. QED
  BY <1>2, <1>3, <1>4, <1>5

LEMMA CommandGoes ==
  ASSUME Locals, ClaimsArePast, NEW p \in Commands, pc' = [pc EXCEPT ![p] = "read"],
         UNCHANGED <<loc, clock>>
  PROVE  Locals' /\ ClaimsArePast'
BY DEF Locals, ClaimsArePast, Place

LEMMA RepairedType ==
  ASSUME Shape, NEW s \in Sessions
  PROVE  /\ Repaired(s) \in Context /\ Repaired(s).task = context[s].task
         /\ MayHold(s, Repaired(s).profile)
<1> DEFINE c == IF LeaseExpired(s) THEN [context[s] EXCEPT !.profile.state = "expired"] ELSE context[s]
<1>1. context[s] \in Context
  BY DEF Shape
<1>2. /\ c \in Context /\ c.task = context[s].task /\ c.state = context[s].state
      /\ c.profile.state \in {context[s].profile.state, "expired"}
  BY <1>1 DEF Context, Profile
<1> HIDE DEF c
<1>3. LET d == [c EXCEPT !.state = "closed"]
      IN  d \in Context /\ d.task = context[s].task /\ d.profile = c.profile
  BY <1>2 DEF Context
<1>4. CASE Dead(s)
  <2>1. Repaired(s) = [c EXCEPT !.state = "closed"]
    BY <1>4 DEF Repaired, c
  <2>2. QED
    BY <1>2, <1>3, <1>4, <2>1 DEF MayHold
<1>5. CASE ~Dead(s)
  <2>1. Repaired(s) = c
    BY <1>5 DEF Repaired, c
  <2>2. QED
    BY <1>2, <2>1 DEF MayHold
<1>6. QED
  BY <1>4, <1>5

LEMMA SessionSteps ==
  ASSUME ContextInv, NEW s \in Sessions, Route(s) \/ Release(s)
  PROVE  ContextInv' /\ KeepsTasks /\ Honest
<1> USE DEF ContextInv
<1>0. \A o \in Sessions : context[o] \in Context
  BY DEF Shape
<1>1. CASE Route(s)
  <2> DEFINE l == [state |-> "active", turn |-> session[s].turn]
             c == [context[s] EXCEPT !.state = "active", !.profile = l]
  <2>1. l \in Profile
    BY DEF Profile, Shape
  <2>2. c \in Context /\ c.task = context[s].task /\ MayHold(s, c.profile)
    BY <1>0, <2>1 DEF Context, MayHold
  <2>3. Write(s, c)
    BY <1>1 DEF Route
  <2> HIDE DEF c
  <2>4. Locals' /\ ClaimsArePast' /\ UNCHANGED <<session, clock>>
    BY <1>1 DEF Route, Locals, ClaimsArePast
  <2>5. QED
    BY <2>2, <2>3, <2>4, PlainWrite
<1>2. CASE Release(s)
  <2> DEFINE c == [context[s] EXCEPT !.task.state = "released"]
  <2>1. /\ c \in Context /\ c.task.state = "released"
        /\ MayHold(s, c.profile)
    BY <1>0 DEF Context, Task, MayHold
  <2>2. Write(s, c)
    BY <1>2 DEF Release
  <2> HIDE DEF c
  <2>3. Locals' /\ ClaimsArePast' /\ UNCHANGED <<session, clock>>
    BY <1>2 DEF Release, Locals, ClaimsArePast
  <2>4. QED
    BY <2>1, <2>2, <2>3, PlainWrite
<1>3. QED
  BY <1>1, <1>2

LEMMA WritingSteps ==
  ASSUME ContextInv, NEW p \in Commands, NEW s \in Sessions,
         SetChange(p, s) \/ Consume(p) \/ Repair(p)
  PROVE  ContextInv' /\ KeepsTasks /\ Honest
<1> USE DEF ContextInv
<1>0. \A o \in Sessions : context[o] \in Context
  BY DEF Shape
<1>1. CASE SetChange(p, s)
  <2>1. PICK slug \in Changes \cup {NoChange} :
          Write(s, [context[s] EXCEPT !.state = "active", !.change = slug])
    BY <1>1 DEF SetChange
  <2> DEFINE c == [context[s] EXCEPT !.state = "active", !.change = slug]
  <2>2. c \in Context /\ c.task = context[s].task /\ MayHold(s, c.profile)
    BY <1>0 DEF Context, MayHold
  <2>3. Write(s, c)
    BY <2>1
  <2> HIDE DEF c
  <2>4. Locals' /\ ClaimsArePast' /\ UNCHANGED <<session, clock>>
    BY <1>1, CommandGoes DEF SetChange, Goes
  <2>5. QED
    BY <2>2, <2>3, <2>4, PlainWrite
<1>2. CASE Consume(p)
  <2>1. Locals' /\ ClaimsArePast' /\ UNCHANGED <<session, clock>>
    BY <1>2, CommandEnds DEF Consume
  <2>2. CASE UNCHANGED context
    BY <2>1, <2>2 DEF Shape, OneHolder, KeepsTasks, Honest, MayHold, Counted
  <2>3. CASE /\ SameLease(context[loc[p].of], loc[p])
             /\ Write(loc[p].of, [context[loc[p].of] EXCEPT !.profile.state = "consumed"])
    <3> DEFINE o == loc[p].of
               c == [context[o] EXCEPT !.profile.state = "consumed"]
    <3>1. o \in Sessions
      BY <1>2 DEF Consume, Locals
    <3>2. MayHold(o, c.profile)
      BY <1>2, <2>3 DEF Consume, SameLease, MayHold
    <3> HIDE DEF o
    <3>3. c \in Context /\ c.task = context[o].task
      BY <1>0, <3>1 DEF Context, Profile
    <3>4. Write(o, c)
      BY <2>3 DEF o
    <3> HIDE DEF c
    <3>5. QED
      BY <3>1, <3>2, <3>3, <3>4, <2>1, PlainWrite
  <2>4. QED
    BY <1>2, <2>2, <2>3 DEF Consume
<1>3. CASE Repair(p)
  <2>1. loc[p].of \in Sessions
    BY <1>3 DEF Repair, Locals
  <2>2. Locals' /\ ClaimsArePast' /\ UNCHANGED <<session, clock>>
    BY <1>3, CommandEnds, CommandGoes DEF Repair
  <2>3. CASE UNCHANGED context
    BY <2>2, <2>3 DEF Shape, OneHolder, KeepsTasks, Honest, MayHold, Counted
  <2>4. CASE Write(loc[p].of, Repaired(loc[p].of))
    BY <2>1, <2>2, <2>4, RepairedType, PlainWrite
  <2>5. QED
    BY <1>3, <2>3, <2>4 DEF Repair
<1>4. QED
  BY <1>1, <1>2, <1>3

LEMMA LapsedType ==
  ASSUME NEW c \in Context, NEW now
  PROVE  /\ Lapsed(c, now) \in Context /\ Lapsed(c, now).task.state = "expired"
         /\ Lapsed(c, now).profile = c.profile /\ Lapsed(c, now).rev > c.rev
<1>1. c.task \in Task /\ c.rev + 1 \in Nat
  BY DEF Context
<1>2. [c.task EXCEPT !.state = "expired"] \in Task
  BY <1>1 DEF Task
<1> DEFINE d == [c EXCEPT !.task = [c.task EXCEPT !.state = "expired"], !.rev = c.rev + 1]
<1>3. d \in Context
  BY <1>1, <1>2 DEF Context
<1>4. d.task.state = "expired" /\ d.profile = c.profile /\ d.rev > c.rev
  BY <1>1 DEF Context, Task
<1>5. Lapsed(c, now) = d
  BY DEF Lapsed
<1>6. QED
  BY <1>3, <1>4, <1>5

LEMMA LeasedType ==
  ASSUME NEW c \in Context, NEW l \in Task
  PROVE  LET d == [c EXCEPT !.task = l, !.rev = @ + 1] IN
           d \in Context /\ d.task = l /\ d.profile = c.profile /\ d.rev > c.rev
<1> DEFINE d == [c EXCEPT !.task = l, !.rev = @ + 1]
<1>1. c.rev + 1 \in Nat /\ c.rev + 1 > c.rev
  BY DEF Context
<1>2. d \in Context /\ d.task = l /\ d.profile = c.profile /\ d.rev = c.rev + 1
  BY <1>1 DEF Context
<1>3. QED
  BY <1>1, <1>2

(* A claim that finds a lease which is not over leaves everything; one that   *)
(* goes through ends what it found and holds the only lease.                 *)
LEMMA ClaimStep ==
  ASSUME ContextInv, NEW p \in Commands, Claim(p)
  PROVE  /\ ContextInv' /\ Honest
         /\ \A o \in Sessions :
              (context[o].task.state = "active" /\ context'[o].task.state = "expired") =>
                context[o].task.until <= clock
<1> USE DEF ContextInv
<1> DEFINE s == loc[p].of
           now == loc[p].turn
           late == {o \in Holders(s) : context[o].task.until <= now}
           ended(o) == Lapsed(context[o], now)
           after == [o \in Sessions |-> IF o \in late THEN ended(o) ELSE context[o]]
           lease == [state |-> "active", until |-> now + LeaseTime]
           mine == [after[s] EXCEPT !.task = lease, !.rev = @ + 1]
<1>1. s \in Sessions /\ now \in Nat /\ now <= clock /\ \A o \in Sessions : context[o] \in Context
  BY DEF Claim, ClaimsArePast, Shape
<1>2. Locals' /\ ClaimsArePast' /\ UNCHANGED <<session, clock>>
  BY CommandEnds DEF Claim
<1>3. CASE UNCHANGED context
  BY <1>2, <1>3 DEF Shape, OneHolder, Honest, MayHold, Counted
<1>4. CASE /\ Holders(s) = late
           /\ context' = [after EXCEPT ![s].task = lease, ![s].rev = @ + 1]
  <2>0. context' = [after EXCEPT ![s] = mine]
    BY <1>4, <1>1
  <2>1. \A o \in Sessions : /\ ended(o) \in Context /\ ended(o).task.state = "expired"
                            /\ ended(o).profile = context[o].profile /\ ended(o).rev > context[o].rev
    BY <1>1, LapsedType
  <2>2. \A o \in Sessions : /\ after[o] \in Context
                            /\ after[o].profile = context[o].profile /\ Counted(o, after[o])
    BY <1>1, <2>1 DEF Counted
  <2>3. lease \in Task
    BY <1>1, TimeAssumption DEF Task
  <2>4. /\ mine \in Context /\ mine.task = lease
        /\ mine.profile = context[s].profile /\ mine.rev > context[s].rev
    <3> DEFINE c == after[s]
    <3>1. c \in Context /\ c.profile = context[s].profile /\ Counted(s, c)
      BY <1>1, <2>2
    <3> HIDE DEF c, lease
    <3>2. LET d == [c EXCEPT !.task = lease, !.rev = @ + 1] IN
            d \in Context /\ d.task = lease /\ d.profile = c.profile /\ d.rev > c.rev
      BY <3>1, <2>3, LeasedType
    <3>3. context[s].rev \in Nat /\ c.rev \in Nat /\ c.rev >= context[s].rev
      BY <3>1, <1>1 DEF Counted, Context
    <3>4. mine = [c EXCEPT !.task = lease, !.rev = @ + 1]
      BY DEF c
    <3> HIDE DEF mine
    <3>5. mine \in Context /\ mine.task = lease /\ mine.profile = c.profile /\ mine.rev > c.rev
      BY <3>2, <3>4
    <3>6. mine.rev \in Nat
      BY <3>5 DEF Context
    <3>7. QED
      BY <3>1, <3>3, <3>5, <3>6
  <2>5. \A o \in Sessions \ {s} : context'[o].task.state # "active"
    BY <1>4, <2>0, <2>1 DEF Holders
  <2>6. \A o \in Sessions : context[o].task.state = "active" => context[o].task.until <= clock
    <3>1. \A o \in Sessions : context[o].task.until \in Nat /\ clock \in Nat
      BY <1>1 DEF Context, Task, Shape
    <3>2. \A o \in Sessions : context[o].task.state = "active" => context[o].task.until <= now
      BY <1>4 DEF Holders
    <3> HIDE DEF now
    <3>3. QED
      BY <1>1, <3>1, <3>2
  <2> HIDE DEF mine, lease, ended, late, s, now
  <2>7. context' \in [Sessions -> Context]
    BY <2>0, <1>1, <2>2, <2>4
  <2>8. OneHolder'
    BY <2>5 DEF OneHolder
  <2>9. Honest
    BY <2>0, <1>1, <2>2, <2>4 DEF Honest, MayHold, Counted
  <2>10. QED
    BY <1>2, <2>6, <2>7, <2>8, <2>9 DEF Shape
<1>5. QED
  BY <1>3, <1>4 DEF Claim

LEMMA WorldSteps ==
  ASSUME ContextInv, Tick \/ \E s \in Sessions : Prompt(s) \/ Stop(s) \/ RemoveWorktree(s)
  PROVE  ContextInv' /\ UNCHANGED context
<1> USE DEF ContextInv, Shape, Locals, ClaimsArePast, OneHolder
<1>1. CASE Tick
  BY <1>1 DEF Tick, Local
<1>2. ASSUME NEW s \in Sessions, Prompt(s) PROVE ContextInv' /\ UNCHANGED context
  <2> DEFINE r == [session[s] EXCEPT !.turn = @ + 1, !.status = "active"]
  <2>1. session[s].turn + 1 \in Nat /\ session[s] \in [status : {"active", "done"}, turn : Nat, stopped : Nat]
    OBVIOUS
  <2>2. r \in [status : {"active", "done"}, turn : Nat, stopped : Nat]
    BY ONLY <2>1
  <2>3. session' = [session EXCEPT ![s] = r]
    BY <1>2 DEF Prompt
  <2> HIDE DEF r
  <2>4. QED
    BY <1>2, <2>2, <2>3 DEF Prompt
<1>3. ASSUME NEW s \in Sessions, Stop(s) PROVE ContextInv' /\ UNCHANGED context
  BY <1>3 DEF Stop
<1>4. ASSUME NEW s \in Sessions, RemoveWorktree(s) PROVE ContextInv' /\ UNCHANGED context
  BY <1>4 DEF RemoveWorktree
<1>5. QED
  BY <1>1, <1>2, <1>3, <1>4
-----------------------------------------------------------------------------
(* What a step may do to the contexts.                                       *)
EndsLate == \A s \in Sessions :
              (context[s].task.state = "active" /\ context'[s].task.state = "expired") =>
                context[s].task.until <= clock

LEMMA ContextStep ==
  ASSUME ContextInv, [Next]_vars
  PROVE  ContextInv' /\ EndsLate /\ Honest
<1>1. ASSUME ContextInv', UNCHANGED context PROVE ContextInv' /\ EndsLate /\ Honest
  BY <1>1 DEF EndsLate, Honest, MayHold, Counted
<1>2. CASE Tick \/ \E s \in Sessions : Prompt(s) \/ Stop(s) \/ RemoveWorktree(s)
  BY <1>1, <1>2, WorldSteps
<1>3. ASSUME KeepsTasks PROVE EndsLate
  BY <1>3 DEF KeepsTasks, EndsLate
<1>4. ASSUME NEW s \in Sessions, Route(s) \/ Release(s)
      PROVE  ContextInv' /\ EndsLate /\ Honest
  BY <1>3, <1>4, SessionSteps
<1>5. ASSUME NEW p \in Commands, NEW s \in Sessions, SetChange(p, s)
      PROVE  ContextInv' /\ EndsLate /\ Honest
  BY <1>3, <1>5, WritingSteps
<1>6. ASSUME NEW p \in Commands, NEW s \in Sessions, ReadLease(p, s) \/ StartClaim(p, s) \/ Inspect(p, s)
      PROVE  ContextInv' /\ EndsLate /\ Honest
  BY <1>1, <1>6, ReadingSteps DEF ContextInv, Shape, OneHolder
<1>7. ASSUME NEW p \in Commands, ReadForPointer(p) \/ WritePointer(p)
      PROVE  ContextInv' /\ EndsLate /\ Honest
  BY <1>1, <1>7, PointerSteps DEF ContextInv, Shape, OneHolder
<1>8. ASSUME NEW p \in Commands, Consume(p) \/ Repair(p)
      PROVE  ContextInv' /\ EndsLate /\ Honest
  <2>1. loc[p].of \in Sessions
    BY <1>8 DEF Consume, Repair, ContextInv, Locals
  <2>2. QED
    BY <1>3, <1>8, <2>1, WritingSteps
<1>9. ASSUME NEW p \in Commands, Claim(p)
      PROVE  ContextInv' /\ EndsLate /\ Honest
  BY <1>9, ClaimStep DEF EndsLate
<1>10. CASE UNCHANGED vars
  BY <1>1, <1>10 DEF vars, ContextInv, Shape, Locals, ClaimsArePast, OneHolder
<1>11. QED
  BY <1>2, <1>4, <1>5, <1>6, <1>7, <1>8, <1>9, <1>10 DEF Next

(* The inductive invariant holds of every behaviour.                         *)
THEOREM ContextsAreSound == Spec => []ContextInv
BY InitContexts, ContextStep, PTL DEF Spec

(* Whoever claims, whatever time each claim was begun at: a task has one      *)
(* active lease, and it ends early only by its owner's hand                  *)
(* (task-leases.mjs).                                                        *)
THEOREM NeverStolen == Spec => TaskNotStolen
<1>1. ContextInv /\ [Next]_vars => [\A s \in Sessions :
        /\ context'[s].task.state = "active" =>
             \A o \in Sessions \ {s} : context'[o].task.state # "active"
        /\ (context[s].task.state = "active" /\ context'[s].task.state = "expired") =>
             context[s].task.until <= clock]_vars
  BY ContextStep DEF ContextInv, OneHolder, EndsLate
<1>2. QED
  BY <1>1, ContextsAreSound, PTL DEF Spec, TaskNotStolen

(* A Stop consumes the lease it read before the lock, or none.               *)
THEOREM ReadIsConsumed == Spec => ConsumedIsRead
<1>1. ContextInv /\ [Next]_vars => [\A s \in Sessions :
        (context[s].profile.state = "active" /\ context'[s].profile.state = "consumed") =>
          \E p \in Commands : pc[p] = "consume" /\ loc[p].of = s
                              /\ loc[p].turn = context[s].profile.turn]_vars
  BY ContextStep DEF Honest, MayHold
<1>2. QED
  BY <1>1, ContextsAreSound, PTL DEF Spec, ConsumedIsRead

-----------------------------------------------------------------------------
(* A revision stands for one content: who finds the revision that it read     *)
(* finds what it read, since every write of a context raises its revision.   *)
Deciding == {"consume", "repair"}

ReadsAreKept ==
  \A p \in Commands : pc[p] \in Deciding =>
    LET now == context[loc[p].of]
    IN  loc[p].rev <= now.rev /\ (loc[p].rev = now.rev => Content(now) = loc[p].saw)

(* What a command decides on is what it read some steps ago, or just now.     *)
Reads == \A p \in Commands : pc'[p] \in Deciding =>
           \/ pc'[p] = pc[p] /\ loc'[p] = loc[p]
           \/ /\ loc'[p].of \in Sessions /\ UNCHANGED context
              /\ loc'[p].rev = context[loc'[p].of].rev
              /\ loc'[p].saw = Content(context[loc'[p].of])

(* A command that has decided changes a context whose revision it read.       *)
Decides == \A p \in Commands : (pc[p] \in Deciding /\ pc'[p] # pc[p] /\ context' # context) =>
             loc[p].rev = context[loc[p].of].rev

LEMMA OthersStay ==
  ASSUME Locals, NEW p \in Commands, NEW step \in Place \ Deciding, pc' = [pc EXCEPT ![p] = step],
         \A q \in Commands \ {p} : loc'[q] = loc[q],
         pc[p] \in Deciding /\ context' # context => loc[p].rev = context[loc[p].of].rev
  PROVE  Reads /\ Decides
BY DEF Locals, Reads, Decides, Deciding

LEMMA ReadStep ==
  ASSUME ContextInv, [Next]_vars
  PROVE  Reads /\ Decides
<1> USE DEF ContextInv
<1>1. ASSUME UNCHANGED <<pc, loc>> PROVE Reads /\ Decides
  BY <1>1 DEF Reads, Decides
<1>2. ASSUME NEW s \in Sessions,
             Prompt(s) \/ Stop(s) \/ RemoveWorktree(s) \/ Route(s) \/ Release(s)
      PROVE  Reads /\ Decides
  BY <1>1, <1>2 DEF Prompt, Stop, RemoveWorktree, Route, Release
<1>3. ASSUME NEW p \in Commands, NEW s \in Sessions, SetChange(p, s) \/ StartClaim(p, s)
      PROVE  Reads /\ Decides
  <2>1. CASE SetChange(p, s)
    <3>1. pc[p] = "idle" /\ pc' = [pc EXCEPT ![p] = "read"] /\ UNCHANGED loc
      BY <2>1 DEF SetChange, Goes
    <3>2. QED
      BY <3>1, OthersStay DEF Place, Deciding
  <2>2. CASE StartClaim(p, s)
    <3>1. /\ pc[p] = "idle" /\ pc' = [pc EXCEPT ![p] = "claim"]
          /\ \A q \in Commands \ {p} : loc'[q] = loc[q]
      BY <2>2 DEF StartClaim, Goes, Locals
    <3>2. QED
      BY <3>1, OthersStay DEF Place, Deciding
  <2>3. QED
    BY <1>3, <2>1, <2>2
<1>4. ASSUME NEW p \in Commands, NEW s \in Sessions, ReadLease(p, s) \/ Inspect(p, s)
      PROVE  Reads /\ Decides
  <2> DEFINE r == loc'[p]
  <2>1. /\ UNCHANGED context /\ r.of = s
        /\ r.rev = context[s].rev /\ r.saw = Content(context[s])
        /\ \A q \in Commands \ {p} : loc'[q] = loc[q] /\ pc'[q] = pc[q]
    <3>1. loc[p] \in Local
      BY DEF Locals
    <3>2. CASE ReadLease(p, s)
      BY <3>1, <3>2 DEF ReadLease, Goes, Locals, Local
    <3>3. CASE Inspect(p, s)
      BY <3>1, <3>3 DEF Inspect, Goes, Locals, Local
    <3>4. QED
      BY <1>4, <3>2, <3>3
  <2>2. QED
    BY <2>1 DEF Reads, Decides
<1>5. ASSUME NEW p \in Commands,
             ReadForPointer(p) \/ WritePointer(p) \/ Claim(p)
      PROVE  Reads /\ Decides
  <2>1. CASE ReadForPointer(p)
    <3>1. /\ pc[p] = "read" /\ pc' = [pc EXCEPT ![p] = "project"]
          /\ \A q \in Commands \ {p} : loc'[q] = loc[q]
      BY <2>1 DEF ReadForPointer, Locals
    <3>2. QED
      BY <3>1, OthersStay DEF Place, Deciding
  <2>2. CASE WritePointer(p) \/ Claim(p)
    <3>1. /\ pc[p] \in {"project", "claim"} /\ pc' = [pc EXCEPT ![p] = "idle"]
          /\ \A q \in Commands \ {p} : loc'[q] = loc[q]
      BY <2>2 DEF WritePointer, Claim, Ends, Locals
    <3>2. QED
      BY <3>1, OthersStay DEF Place, Deciding
  <2>3. QED
    BY <1>5, <2>1, <2>2
<1>6. ASSUME NEW p \in Commands, Consume(p) PROVE Reads /\ Decides
  <2>1. pc' = [pc EXCEPT ![p] = "idle"] /\ \A q \in Commands \ {p} : loc'[q] = loc[q]
    BY <1>6 DEF Consume, Ends, Locals
  <2>2. context' # context => loc[p].rev = context[loc[p].of].rev
    BY <1>6 DEF Consume, SameLease
  <2>3. QED
    BY <2>1, <2>2, OthersStay DEF Place, Deciding
<1>7. ASSUME NEW p \in Commands, Repair(p) PROVE Reads /\ Decides
  <2>1. context' # context => loc[p].rev = context[loc[p].of].rev
    BY <1>7 DEF Repair, StillIll
  <2>2. CASE pc' = [pc EXCEPT ![p] = "read"] /\ UNCHANGED loc
    BY <2>1, <2>2, OthersStay DEF Place, Deciding
  <2>3. CASE Ends(p)
    <3>1. pc' = [pc EXCEPT ![p] = "idle"] /\ \A q \in Commands \ {p} : loc'[q] = loc[q]
      BY <2>3 DEF Ends, Locals
    <3>2. QED
      BY <2>1, <3>1, OthersStay DEF Place, Deciding
  <2>4. QED
    BY <1>7, <2>2, <2>3 DEF Repair
<1>8. CASE Tick \/ UNCHANGED vars
  BY <1>1, <1>8 DEF Tick, vars
<1>9. QED
  BY <1>2, <1>3, <1>4, <1>5, <1>6, <1>7, <1>8 DEF Next

LEMMA KeptStep ==
  ASSUME ContextInv, ReadsAreKept, [Next]_vars
  PROVE  ReadsAreKept'
<1> SUFFICES ASSUME NEW p \in Commands, pc'[p] \in Deciding
             PROVE  /\ loc'[p].rev <= context'[loc'[p].of].rev
                    /\ loc'[p].rev = context'[loc'[p].of].rev => Content(context'[loc'[p].of]) = loc'[p].saw
  BY DEF ReadsAreKept
<1>1. Reads /\ Honest /\ ContextInv'
  BY ReadStep, ContextStep
<1>2. loc'[p].of \in Sessions /\ loc'[p].rev \in Nat
  BY <1>1 DEF ContextInv, Locals, Local, Deciding
<1>3. \A s \in Sessions : context[s].rev \in Nat /\ context'[s].rev \in Nat
  BY <1>1 DEF ContextInv, Shape, Context
<1>4. CASE pc'[p] = pc[p] /\ loc'[p] = loc[p]
  <2> DEFINE s == loc[p].of
  <2>1. loc[p].rev <= context[s].rev /\ (loc[p].rev = context[s].rev => Content(context[s]) = loc[p].saw)
    BY <1>4 DEF ReadsAreKept
  <2>2. s \in Sessions /\ loc[p].rev \in Nat
    BY <1>2, <1>4
  <2>3. context'[s] = context[s] \/ context'[s].rev > context[s].rev
    BY <1>1, <2>2 DEF Honest, Counted
  <2> HIDE DEF s
  <2>4. loc[p].rev <= context'[s].rev /\ (loc[p].rev = context'[s].rev => Content(context'[s]) = loc[p].saw)
    BY <2>1, <2>2, <2>3, <1>3
  <2>5. QED
    BY <1>4, <2>4 DEF s
<1>5. CASE /\ loc'[p].of \in Sessions /\ UNCHANGED context
           /\ loc'[p].rev = context[loc'[p].of].rev
           /\ loc'[p].saw = Content(context[loc'[p].of])
  BY <1>2, <1>3, <1>5
<1>6. QED
  BY <1>1, <1>4, <1>5 DEF Reads

(* A doctor's repair and a Stop's consumption change what was shown to them   *)
(* and nothing that was written since, however many sessions and commands     *)
(* write in between (active-context-health.mjs, active-context-store.mjs).   *)
THEOREM RepairsAreAsShown == Spec => ActedAsRead
<1>1. Init => ReadsAreKept
  BY DEF Init, ReadsAreKept, Deciding
<1>2. ContextInv /\ ReadsAreKept /\ [Next]_vars => ReadsAreKept'
  BY KeptStep
<1>3. ContextInv /\ ReadsAreKept /\ [Next]_vars =>
        [\A p \in Commands :
           (pc[p] \in {"consume", "repair"} /\ pc'[p] # pc[p] /\ context' # context) =>
             Content(context[loc[p].of]) = loc[p].saw]_vars
  BY ReadStep DEF Decides, Deciding, ReadsAreKept
<1>4. QED
  BY <1>1, <1>2, <1>3, ContextsAreSound, PTL DEF Spec, ActedAsRead
=============================================================================
