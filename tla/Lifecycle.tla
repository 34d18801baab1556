----------------------------- MODULE Lifecycle -----------------------------
(***************************************************************************)
(* cmd/api and internal/config: how the process starts from its            *)
(* environment, serves, and stops on SIGTERM within the time its           *)
(* orchestrator gives it.  Handlers are reduced to being at work or not:   *)
(* how long they may take is the subject of Requests.                      *)
(*                                                                         *)
(* Time matters from the signal on and is counted in ticks.  The process's *)
(* own steps take none of it, except the wait for SQLite's lock while it   *)
(* opens the database.                                                     *)
(***************************************************************************)
EXTENDS Naturals

CONSTANTS Handlers,         \* goroutines serving connections
          BusyTimeout,      \* ticks SQLite waits for a lock
          ShutdownTimeout,  \* ticks server.Shutdown waits for handlers
          StopGracePeriod   \* ticks from SIGTERM to SIGKILL

\* "ShutdownTimeout must stay below docker-compose stop_grace_period".
ASSUME LifecycleAssumption == /\ BusyTimeout \in Nat
                              /\ ShutdownTimeout \in Nat
                              /\ StopGracePeriod \in Nat
                              /\ BusyTimeout < StopGracePeriod
                              /\ ShutdownTimeout < StopGracePeriod

-----------------------------------------------------------------------------
(* config.Load: the environment, reduced to what is set and what parses. *)

FeishuVars == {"APP_ID", "APP_SECRET", "APP_TOKEN", "TABLE_ID"}
QiniuVars == {"ACCESS_KEY", "SECRET_KEY", "BUCKET", "UPLOAD_URL", "PUBLIC_BASE_URL"}

\* parses: every number, HTTP_ADDR and TRUSTED_PROXIES; http: the base URL has
\* a scheme; models, speakers: the list has an entry.
Environments == [parses : BOOLEAN,
                 feishu : SUBSET FeishuVars,
                 qiniu : SUBSET QiniuVars, http : BOOLEAN,
                 llmKey : BOOLEAN, models : BOOLEAN,
                 speechKey : BOOLEAN, speakers : BOOLEAN]

Features == {"feedback", "upload", "llm", "tts", "asr"}

\* Bug: a group is complete when its first variable, which enables it, is set.
EnabledIsEnough(set, group) ==
  set = {} \/ "APP_ID" \in set \/ "ACCESS_KEY" \in set

AllOrNothing(set, group) == set = {} \/ set = group

Accepted(e) == /\ e.parses
               /\ AllOrNothing(e.feishu, FeishuVars)
               /\ AllOrNothing(e.qiniu, QiniuVars)
               /\ "PUBLIC_BASE_URL" \in e.qiniu => e.http
               /\ e.llmKey => e.models
               /\ e.speechKey => e.speakers

\* The Enabled methods; speech synthesis and recognition share a key.
Enabled(e) == {f \in Features :
                 \/ f = "feedback" /\ "APP_ID" \in e.feishu
                 \/ f = "upload" /\ "ACCESS_KEY" \in e.qiniu
                 \/ f = "llm" /\ e.llmKey
                 \/ f \in {"tts", "asr"} /\ e.speechKey}

\* What the constructors insist on beside the variable that enables them.
FeedbackBuilds(e) == e.feishu = FeishuVars
UploadBuilds(e) == e.qiniu = QiniuVars
LLMBuilds(e) == e.models
TTSBuilds(e) == e.speakers

\* buildDeps calls those of the services that are enabled.
Buildable(e) == /\ "feedback" \in Enabled(e) => FeedbackBuilds(e)
                /\ "upload" \in Enabled(e) => UploadBuilds(e)
                /\ "llm" \in Enabled(e) => LLMBuilds(e)
                /\ "tts" \in Enabled(e) => TTSBuilds(e)

-----------------------------------------------------------------------------

Starting == {"new", "loaded", "opened", "migrated"}
Stages == Starting \union {"serving", "draining", "closing", "exited"}

VARIABLES stage,     \* how far main has got
          env,       \* the environment, until the services are built
          features,  \* the services that were built
          db,        \* the database is open
          listener,  \* "closed", "open" or "failed"
          work,      \* handlers at work
          cut,       \* history: handlers stopped at work
          term,      \* SIGTERM was received
          waited,    \* ticks since
          left,      \* ticks until Shutdown gives up
          code       \* exit status: "none", "ok", "error" or "signal"

conns == <<listener, work, cut>>
timers == <<term, waited, left>>
vars == <<stage, env, features, db, listener, work, cut, term, waited, left, code>>

\* Nothing reads the environment any more.
NoEnv == [parses |-> FALSE, feishu |-> {}, qiniu |-> {}, http |-> FALSE,
          llmKey |-> FALSE, models |-> FALSE,
          speechKey |-> FALSE, speakers |-> FALSE]

Init == /\ stage = "new"
        /\ env \in Environments
        /\ features = {} /\ db = FALSE
        /\ listener = "closed" /\ work = {} /\ cut = {}
        /\ term = FALSE /\ waited = 0 /\ left = ShutdownTimeout
        /\ code = "none"

\* The process is gone, with the handlers still at work in it.
Exit(how) == /\ stage' = "exited"
             /\ code' = how
             /\ env' = NoEnv
             /\ db' = FALSE
             /\ listener' = "closed"
             /\ cut' = cut \union work
             /\ work' = {}
             /\ UNCHANGED <<features, timers>>

-----------------------------------------------------------------------------
(* main and run, up to the select. *)

Load == /\ stage = "new"
        /\ IF Accepted(env)
           THEN stage' = "loaded"
                /\ UNCHANGED <<env, features, db, conns, timers, code>>
           ELSE Exit("error")

\* MkdirAll, sql.Open and Ping.
OpenDatabase == /\ stage = "loaded"
                /\ stage' = "opened"
                /\ db' = TRUE
                /\ UNCHANGED <<env, features, conns, timers, code>>

\* ExecContext under the signal's context, which fails once it is cancelled.
ApplySchema == /\ stage = "opened"
               /\ ~term
               /\ stage' = "migrated"
               /\ UNCHANGED <<env, features, db, conns, timers, code>>

StartFails == /\ stage \in {"loaded", "opened"}
              /\ Exit("error")

\* buildDeps, and the goroutines of the jobs and of ListenAndServe.
Build == /\ stage = "migrated"
         /\ Buildable(env)
         /\ stage' = "serving"
         /\ features' = Enabled(env)
         /\ env' = NoEnv
         /\ UNCHANGED <<db, conns, timers, code>>

\* A constructor refuses, or the cache directory cannot be made.
BuildFails == /\ stage = "migrated"
              /\ ~Buildable(env) \/ "tts" \in Enabled(env)
              /\ Exit("error")

-----------------------------------------------------------------------------
(* Serving. *)

Listen == /\ stage = "serving"
          /\ listener = "closed"
          /\ listener' \in {"open", "failed"}
          /\ UNCHANGED <<stage, env, features, db, work, cut, timers, code>>

Accept(h) == /\ listener = "open"
             /\ h \notin work
             /\ work' = work \union {h}
             /\ UNCHANGED <<stage, env, features, db, listener, cut, timers, code>>

Return(h) == /\ h \in work
             /\ work' = work \ {h}
             /\ UNCHANGED <<stage, env, features, db, listener, cut, timers, code>>

\* An error of Accept that is not temporary ends ListenAndServe, with handlers
\* at work.
AcceptFails == /\ stage = "serving"
               /\ listener = "open"
               /\ listener' = "failed"
               /\ UNCHANGED <<stage, env, features, db, work, cut, timers, code>>

\* serveErr is ready: "listen: ...".  Nothing is drained.
ServeFails == /\ stage = "serving"
              /\ listener = "failed"
              /\ Exit("error")

-----------------------------------------------------------------------------
(* Stopping. *)

\* Before signal.NotifyContext, SIGTERM has its default effect.
Terminate == /\ ~term
             /\ stage # "exited"
             /\ IF stage = "new"
                THEN Exit("signal")
                ELSE /\ term' = TRUE
                     /\ UNCHANGED <<stage, env, features, db, conns, waited, left,
                                    code>>

\* Bug: Shutdown waits under a context derived from the signal's.
DrainCancelled == /\ stage = "serving" /\ term
                  /\ stage' = "draining"
                  /\ listener' = "closed"
                  /\ left' = 0
                  /\ UNCHANGED <<env, features, db, work, cut, term, waited, code>>

\* Bug: Shutdown waits for the handlers without a timeout of its own.
DrainForLong == /\ stage = "serving" /\ term
                /\ stage' = "draining"
                /\ listener' = "closed"
                /\ left' = StopGracePeriod + 1
                /\ UNCHANGED <<env, features, db, work, cut, term, waited, code>>

\* The select picks ctx.Done(): Shutdown closes the listener and waits.
Drain == /\ stage = "serving" /\ term
         /\ stage' = "draining"
         /\ listener' = "closed"
         /\ left' = ShutdownTimeout
         /\ UNCHANGED <<env, features, db, work, cut, term, waited, code>>

Drained == /\ stage = "draining"
           /\ work = {}
           /\ Exit("ok")

\* The timeout of Shutdown: server.Close cuts the connections left.
GiveUp == /\ stage = "draining"
          /\ left = 0
          /\ stage' = "closing"
          /\ cut' = cut \union work
          /\ UNCHANGED <<env, features, db, listener, work, timers, code>>

\* The deferred conn.Close, under handlers that have not noticed yet.
CloseDatabase == /\ stage = "closing" /\ db
                 /\ db' = FALSE
                 /\ UNCHANGED <<stage, env, features, conns, timers, code>>

Stop == /\ stage = "closing" /\ ~db
        /\ Exit("ok")

\* Steps the process owes before time goes on.
Due == \/ stage \in {"migrated", "serving", "closing"}
       \/ stage \in {"loaded", "opened"} /\ waited >= BusyTimeout
       \/ stage = "draining" /\ (left = 0 \/ work = {})

Tick == /\ term /\ stage # "exited"
        /\ ~Due
        /\ waited < StopGracePeriod
        /\ waited' = waited + 1
        /\ left' = IF stage = "draining" THEN left - 1 ELSE left
        /\ UNCHANGED <<stage, env, features, db, conns, term, code>>

Next == \/ Load \/ OpenDatabase \/ ApplySchema \/ StartFails \/ Build \/ BuildFails
        \/ Listen \/ AcceptFails \/ ServeFails
        \/ \E h \in Handlers : Accept(h) \/ Return(h)
        \/ Terminate \/ Drain \/ Drained \/ GiveUp \/ CloseDatabase \/ Stop
        \/ Tick

Spec == Init /\ [][Next]_vars

-----------------------------------------------------------------------------
(* Properties. *)

TypeOK == /\ stage \in Stages
          /\ env \in Environments
          /\ features \subseteq Features
          /\ db \in BOOLEAN /\ term \in BOOLEAN
          /\ listener \in {"closed", "open", "failed"}
          /\ work \subseteq Handlers /\ cut \subseteq Handlers
          /\ waited \in 0..StopGracePeriod
          /\ left \in Nat
          /\ code \in {"none", "ok", "error", "signal"}

\* The services an environment asks for: those with anything set for them.
Wanted(e) == {f \in Features : \/ f = "feedback" /\ e.feishu # {}
                               \/ f = "upload" /\ e.qiniu # {}
                               \/ f = "llm" /\ e.llmKey
                               \/ f \in {"tts", "asr"} /\ e.speechKey}

\* "It fails fast on ... partially configured optional features": an
\* environment that Load lets through is never refused by a constructor later,
\* and the process serves exactly the features something was set for.
StartsAsConfigured ==
  [][stage = "migrated" => /\ Buildable(env)
                           /\ stage' = "serving" => features' = Wanted(env)]_vars

\* A handler at work keeps its connection, its database and its process until
\* it returns or the whole ShutdownTimeout has passed since the signal.  Only a
\* broken listener, which ends the process with an error, leaves it no time.
DrainHonoured == cut # {} \/ (work # {} /\ ~db) =>
                   waited >= ShutdownTimeout \/ code = "error"

\* The process stops by itself before the orchestrator kills it, whatever its
\* handlers do.
NeverKilled == stage # "exited" => waited < StopGracePeriod
=============================================================================
