-------------------------- MODULE LifecycleProofs --------------------------
(***************************************************************************)
(* Proofs about Lifecycle, for any number of handlers and any timeouts     *)
(* that satisfy LifecycleAssumption.                                       *)
(***************************************************************************)
EXTENDS Lifecycle, TLAPS

\* What each stage knows of the clock: start-up waits for SQLite's lock at
\* most, serving for nothing, and the wait for handlers is what Shutdown's
\* timer has left of its timeout.
Timing == /\ ~term => waited = 0
          /\ stage = "new" => ~term
          /\ stage \in {"loaded", "opened"} => waited <= BusyTimeout
          /\ stage \in {"migrated", "serving"} => waited = 0
          /\ stage = "draining" => waited + left = ShutdownTimeout
          /\ stage = "closing" => waited = ShutdownTimeout

\* Handlers exist from the listener's opening to the end, over a database that
\* is open until Shutdown has given up.
Serving == /\ stage \in Starting => listener = "closed" /\ work = {}
           /\ listener = "open" => stage = "serving"
           /\ stage = "serving" /\ listener = "closed" => work = {}
           /\ stage \in {"opened", "migrated", "serving", "draining"} => db
           /\ stage = "exited" => work = {}
           /\ cut # {} => waited >= ShutdownTimeout \/ code = "error"
           /\ stage # "exited" => code = "none"

\* Past Load, the environment is one that Load accepts.
Checked == stage \in {"loaded", "opened", "migrated"} => Accepted(env)

Inv == TypeOK /\ Timing /\ Serving /\ Checked

-----------------------------------------------------------------------------

\* The checks of Load are those of the constructors, and a group of which
\* anything is set is one that is enabled.
LEMMA AcceptedIsBuildable ==
  ASSUME NEW e \in Environments, Accepted(e)
  PROVE  Buildable(e) /\ Enabled(e) = Wanted(e)
<1>1. /\ e.feishu = {} \/ e.feishu = FeishuVars
      /\ e.qiniu = {} \/ e.qiniu = QiniuVars
      /\ e.llmKey => e.models
      /\ e.speechKey => e.speakers
  BY DEF Accepted, AllOrNothing
<1>2. "APP_ID" \in FeishuVars /\ "ACCESS_KEY" \in QiniuVars
  BY DEF FeishuVars, QiniuVars
<1>3. /\ "APP_ID" \in e.feishu <=> e.feishu # {}
      /\ "ACCESS_KEY" \in e.qiniu <=> e.qiniu # {}
  BY <1>1, <1>2
<1>4. Enabled(e) = Wanted(e)
  BY <1>3, Zenon DEF Enabled, Wanted
<1>5. /\ "feedback" \in Enabled(e) => "APP_ID" \in e.feishu
      /\ "upload" \in Enabled(e) => "ACCESS_KEY" \in e.qiniu
      /\ "llm" \in Enabled(e) => e.llmKey
      /\ "tts" \in Enabled(e) => e.speechKey
  BY DEF Enabled
<1>6. Buildable(e)
  BY <1>1, <1>3, <1>5
     DEF Buildable, FeedbackBuilds, UploadBuilds, LLMBuilds, TTSBuilds
<1> QED BY <1>4, <1>6

\* Every way out leaves no handler behind, and cuts only those at work: after
\* their time, or in error.
LEMMA ExitKeepsInv ==
  ASSUME Inv, NEW how \in {"ok", "error", "signal"}, Exit(how), stage # "exited",
         work # {} => waited >= ShutdownTimeout \/ how = "error"
  PROVE  Inv'
<1> USE DEF Inv
<1>1. TypeOK'
  <2>1. env' \in Environments
    BY Zenon DEF Exit, NoEnv, Environments
  <2>2. db' \in BOOLEAN /\ term' \in BOOLEAN
    BY Zenon DEF Exit, TypeOK, timers
  <2> QED
    BY <2>1, <2>2, LifecycleAssumption DEF Exit, TypeOK, timers, Stages, Starting
<1>2. Timing'
  BY DEF Exit, Timing, timers
<1>3. Serving'
  BY DEF Exit, Serving, timers, Starting
<1>4. Checked'
  BY DEF Exit, Checked
<1> QED BY <1>1, <1>2, <1>3, <1>4

LEMMA InitInv == Init => Inv
<1> SUFFICES ASSUME Init PROVE Inv OBVIOUS
<1>1. db \in BOOLEAN /\ term \in BOOLEAN
  BY Zenon DEF Init
<1>2. TypeOK
  BY <1>1, LifecycleAssumption DEF Init, TypeOK, Stages, Starting, Features
<1>3. Timing /\ Serving /\ Checked
  BY LifecycleAssumption DEF Init, Timing, Serving, Checked, Starting
<1> QED BY <1>2, <1>3 DEF Inv

LEMMA NextInv == Inv /\ [Next]_vars => Inv'
<1> SUFFICES ASSUME Inv, [Next]_vars PROVE Inv' OBVIOUS
<1> USE LifecycleAssumption DEF Inv
<1>1. CASE Load
  <2>1. CASE Accepted(env)
    <3>1. /\ stage = "new" /\ stage' = "loaded"
          /\ UNCHANGED <<env, features, db, conns, timers, code>>
      BY <1>1, <2>1 DEF Load
    <3>2. Accepted(env)'
      BY <2>1, <3>1, Zenon
    <3>3. TypeOK'
      BY <3>1 DEF TypeOK, Stages, Starting, conns, timers
    <3>4. Timing' /\ Serving' /\ Checked'
      BY <3>1, <3>2 DEF Timing, Serving, Checked, Starting, conns, timers
    <3> QED BY <3>3, <3>4
  <2>2. CASE ~Accepted(env)
    <3>1. Exit("error") /\ work = {} /\ stage # "exited"
      BY <1>1, <2>2 DEF Load, Serving, Starting
    <3> QED BY <3>1, ExitKeepsInv
  <2> QED BY <2>1, <2>2
<1>2. CASE OpenDatabase
  <2>1. Checked'
    <3>1. env' = env /\ stage = "loaded"
      BY <1>2 DEF OpenDatabase
    <3>2. Accepted(env)'
      BY <3>1, Zenon DEF Checked
    <3> QED BY <3>2 DEF Checked
  <2>2. TypeOK'
    BY <1>2 DEF OpenDatabase, TypeOK, Stages, Starting, conns, timers
  <2> QED
    BY <1>2, <2>1, <2>2 DEF OpenDatabase, Timing, Serving, Starting, conns, timers
<1>3. CASE ApplySchema
  <2>1. Checked'
    <3>1. env' = env /\ stage = "opened"
      BY <1>3 DEF ApplySchema
    <3>2. Accepted(env)'
      BY <3>1, Zenon DEF Checked
    <3> QED BY <3>2 DEF Checked
  <2>2. TypeOK'
    BY <1>3 DEF ApplySchema, TypeOK, Stages, Starting, conns, timers
  <2> QED
    BY <1>3, <2>1, <2>2 DEF ApplySchema, Timing, Serving, Starting, conns, timers
<1>4. CASE StartFails
  <2>1. Exit("error") /\ work = {} /\ stage # "exited"
    BY <1>4 DEF StartFails, Serving, Starting
  <2> QED BY <2>1, ExitKeepsInv
<1>5. CASE Build
  <2>1. env' \in Environments
    BY <1>5, Zenon DEF Build, NoEnv, Environments
  <2>2. features' \subseteq Features
    BY <1>5 DEF Build, Enabled
  <2>3. TypeOK'
    BY <1>5, <2>1, <2>2 DEF Build, TypeOK, Stages, Starting, conns, timers
  <2>4. Checked'
    BY <1>5 DEF Build, Checked
  <2>5. Timing'
    BY <1>5 DEF Build, Timing, timers
  <2>6. Serving'
    BY <1>5 DEF Build, Serving, Starting, conns, timers
  <2> QED BY <2>3, <2>4, <2>5, <2>6
<1>6. CASE BuildFails
  <2>1. Exit("error") /\ work = {} /\ stage # "exited"
    BY <1>6 DEF BuildFails, Serving, Starting
  <2> QED BY <2>1, ExitKeepsInv
<1>7. CASE Listen
  <2>1. Checked'
    BY <1>7 DEF Listen, Checked
  <2>2. TypeOK'
    BY <1>7 DEF Listen, TypeOK, timers
  <2>3. Timing' /\ Serving'
    BY <1>7 DEF Listen, TypeOK, Timing, Serving, Starting, timers
  <2> QED BY <2>1, <2>2, <2>3
<1>8. ASSUME NEW h \in Handlers, Accept(h) PROVE Inv'
  <2>1. stage = "serving"
    BY <1>8 DEF Accept, Serving
  <2>2. Checked'
    BY <1>8, <2>1 DEF Accept, Checked
  <2>3. TypeOK'
    BY <1>8 DEF Accept, TypeOK, timers
  <2>4. Timing' /\ Serving'
    BY <1>8, <2>1 DEF Accept, Timing, Serving, Starting, timers
  <2> QED BY <2>2, <2>3, <2>4
<1>9. ASSUME NEW h \in Handlers, Return(h) PROVE Inv'
  <2>1. stage \notin Starting
    BY <1>9 DEF Return, Serving
  <2>2. Checked'
    BY <1>9, <2>1 DEF Return, Checked, Starting
  <2>3. TypeOK'
    BY <1>9 DEF Return, TypeOK, timers
  <2>4. Timing' /\ Serving'
    BY <1>9, <2>1 DEF Return, Timing, Serving, Starting, timers
  <2> QED BY <2>2, <2>3, <2>4
<1>10. CASE ServeFails
  <2>1. Exit("error") /\ stage # "exited"
    BY <1>10 DEF ServeFails
  <2> QED BY <2>1, ExitKeepsInv
<1>19. CASE AcceptFails
  <2>1. Checked'
    BY <1>19 DEF AcceptFails, Checked
  <2>2. TypeOK'
    BY <1>19 DEF AcceptFails, TypeOK, timers
  <2>3. Timing' /\ Serving'
    BY <1>19 DEF AcceptFails, TypeOK, Timing, Serving, Starting, timers
  <2> QED BY <2>1, <2>2, <2>3
<1>11. CASE Terminate
  <2>1. CASE stage = "new"
    <3>1. Exit("signal") /\ work = {} /\ stage # "exited"
      BY <1>11, <2>1 DEF Terminate, Serving, Starting
    <3> QED BY <3>1, ExitKeepsInv
  <2>2. CASE stage # "new"
    <3>1. /\ term' = TRUE
          /\ UNCHANGED <<stage, env, features, db, conns, waited, left, code>>
      BY <1>11, <2>2 DEF Terminate
    <3>2. Checked'
      BY <3>1, Zenon DEF Checked
    <3>3. TypeOK' /\ Timing' /\ Serving'
      BY <2>2, <3>1 DEF TypeOK, Timing, Serving, Stages, Starting, conns
    <3> QED BY <3>2, <3>3
  <2> QED BY <2>1, <2>2
<1>12. CASE Drain
  BY <1>12 DEF Drain, TypeOK, Timing, Serving, Checked, Stages, Starting
<1>13. CASE Drained
  <2>1. Exit("ok") /\ work = {} /\ stage # "exited"
    BY <1>13 DEF Drained
  <2> QED BY <2>1, ExitKeepsInv
<1>14. CASE GiveUp
  BY <1>14 DEF GiveUp, TypeOK, Timing, Serving, Checked, Stages, Starting, timers
<1>15. CASE CloseDatabase
  BY <1>15 DEF CloseDatabase, TypeOK, Timing, Serving, Checked, Stages, Starting,
              conns, timers
<1>16. CASE Stop
  <2>1. Exit("ok") /\ waited >= ShutdownTimeout /\ stage # "exited"
    BY <1>16 DEF Stop, Timing
  <2> QED BY <2>1, ExitKeepsInv
<1>17. CASE Tick
  <2>1. Checked'
    BY <1>17, Zenon DEF Tick, Checked
  <2>2. Serving'
    BY <1>17 DEF Tick, TypeOK, Serving, conns
  <2>3. /\ term' = term /\ term /\ stage' = stage
        /\ waited' = waited + 1 /\ waited < StopGracePeriod
        /\ left' = IF stage = "draining" THEN left - 1 ELSE left
        /\ stage \notin {"migrated", "serving", "closing"}
        /\ stage \in {"loaded", "opened"} => waited < BusyTimeout
        /\ stage = "draining" => left # 0
    BY <1>17 DEF Tick, Due, TypeOK
  <2>4. TypeOK'
    BY <1>17, <2>3 DEF Tick, TypeOK, conns
  <2>5. Timing'
    BY <2>3 DEF TypeOK, Timing
  <2> QED BY <2>1, <2>2, <2>4, <2>5
<1>18. CASE UNCHANGED vars
  <2>1. Checked'
    BY <1>18, Zenon DEF vars, Checked
  <2> QED
    BY <1>18, <2>1 DEF vars, conns, timers, TypeOK, Timing, Serving
<1> QED
  BY <1>1, <1>2, <1>3, <1>4, <1>5, <1>6, <1>7, <1>8, <1>9, <1>10, <1>11, <1>12,
     <1>13, <1>14, <1>15, <1>16, <1>17, <1>18, <1>19 DEF Next

\* The inductive invariant, which the theorems below follow from.
THEOREM Invariance == Spec => []Inv
<1> QED BY InitInv, NextInv, PTL DEF Spec

\* The process keeps its types.
THEOREM TypeCorrect == Spec => []TypeOK
<1>1. Inv => TypeOK
  BY DEF Inv
<1> QED BY <1>1, Invariance, PTL

\* No handler loses its connection, its database or its process before the
\* whole shutdown timeout has passed, unless the listener broke.
THEOREM DrainIsHonoured == Spec => []DrainHonoured
<1>1. Inv => DrainHonoured
  <2> SUFFICES ASSUME Inv, cut # {} \/ (work # {} /\ ~db)
               PROVE  waited >= ShutdownTimeout \/ code = "error"
    BY DEF DrainHonoured
  <2>1. CASE cut # {}
    BY <2>1 DEF Inv, Serving
  <2>2. CASE work # {} /\ ~db
    <3>1. stage = "closing"
      BY <2>2 DEF Inv, TypeOK, Serving, Stages
    <3> QED BY <3>1, LifecycleAssumption DEF Inv, Timing
  <2> QED BY <2>1, <2>2
<1> QED BY <1>1, Invariance, PTL

\* The process has stopped by itself before its orchestrator kills it.
THEOREM StopsInTime == Spec => []NeverKilled
<1>1. Inv => NeverKilled
  BY LifecycleAssumption DEF Inv, TypeOK, Timing, NeverKilled, Stages, Starting
<1> QED BY <1>1, Invariance, PTL

\* An accepted environment always builds, and into the features it asks for.
THEOREM AcceptedConfigurationServes == Spec => StartsAsConfigured
<1>1. ASSUME Inv, [Next]_vars, stage = "migrated"
      PROVE  Buildable(env) /\ (stage' = "serving" => features' = Wanted(env))
  <2>1. Accepted(env) /\ env \in Environments
    BY <1>1 DEF Inv, Checked, TypeOK
  <2>2. Buildable(env) /\ Enabled(env) = Wanted(env)
    BY <2>1, AcceptedIsBuildable
  <2>3. stage' = "serving" => features' = Enabled(env)
    BY <1>1 DEF Next, vars, Load, OpenDatabase, ApplySchema, StartFails, Build,
       BuildFails, Listen, AcceptFails, Accept, Return, ServeFails, Terminate, Drain,
       Drained, GiveUp, CloseDatabase, Stop, Tick, Due, Exit
  <2> QED BY <2>2, <2>3
<1>2. Inv /\ [Next]_vars =>
        [stage = "migrated" => /\ Buildable(env)
                               /\ stage' = "serving" => features' = Wanted(env)]_vars
  BY <1>1
<1> QED BY <1>2, Invariance, PTL DEF Spec, StartsAsConfigured
=============================================================================
