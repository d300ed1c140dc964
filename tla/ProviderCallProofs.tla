------------------------- MODULE ProviderCallProofs -------------------------
(***************************************************************************)
(* Proofs about ProviderCall, for any set of backends: the breaker hears   *)
(* of a call once, the caller's own end is no fault where the error keeps  *)
(* its cause, a genuine fault is one, and an account is only called        *)
(* unavailable on the provider's word.                                     *)
(***************************************************************************)
EXTENDS ProviderCall, SequenceTheorems, TLAPS

Codes == (0 .. 6) \cup Statuses

Errors == [code : Codes, cause : Causes \cup {"none"},
           reason : {"none", "credentials_rejected", "quota_exhausted"}]

Running  == pc \in {"do", "read", "recover"}
Reported == pc \in {"return", "done"}

(* What the variables hold at each point of the call; MCP is Exa's. *)
Progress ==
  /\ err \in Errors /\ dones \in Seq({"ok", "fault"})
  /\ Running => err = NoError /\ results = "none"
  /\ Reported => completed /\ (dones = <<"ok">> \/ dones = <<"fault">>)
  /\ ~Reported => ~completed /\ dones = <<>>
  /\ pc \in {"do", "read"} /\ leg # "api" => backend \in {"exa_mcp", "exa_both"}

(* What an error says of the one whose doing it is. *)
Evidence(e, who) ==
  /\ e.reason # "none" => who = "account"
  /\ who = "caller" /\ backend \notin {"brave", "tavily"} =>
       parent # "live" /\ e.cause \in {"deadline", "cancelled"}
  /\ who \in {"provider", "account"} /\ backend # "exa_auto" =>
       \/ e.cause = "deadline"
       \/ e.cause = "other" /\ OutcomeOfCode(e.code) \in Trips

Evident ==
  /\ pc = "classify" /\ results = "none" => Evidence(err, blame)
  /\ pc = "classify" /\ results # "none" => blame = "nobody"
  /\ pc = "recover" => blame = "provider"
  /\ err.reason # "none" => blame = "account"

(* The verdicts, once they are given. *)
Verdicts ==
  Reported =>
    /\ blame = "caller" /\ backend \notin {"brave", "tavily"} =>
         dones = <<"ok">>
    /\ blame \in {"provider", "account"} /\ backend # "exa_auto"
         /\ parent = "live" => dones = <<"fault">>

CallInv == TypeOK /\ Progress /\ Evident /\ Verdicts

-----------------------------------------------------------------------------
(* What the helpers make of a failure.                                     *)

LEMMA MadeErrors ==
  ASSUME NEW code \in Codes, NEW cause \in Causes
  PROVE  /\ Error(code, cause) \in Errors
         /\ Error(code, cause).code = code /\ Error(code, cause).cause = cause
         /\ Error(code, cause).reason = "none"
BY DEF Error, Errors

LEMMA CodesKnown ==
  /\ {Network, InvalidResponse, Auth, RateLimit, Unavailable, NotABackendError}
       \subseteq Codes
  /\ \A st \in Statuses : CommonCode(st) \in Codes
BY DEF Codes, Statuses, Network, InvalidResponse, Auth, RateLimit, Unavailable,
   NotABackendError, CommonCode

(* The codes that stand for a fault of the provider or its account. *)
LEMMA FaultCodes ==
  /\ \A code \in {Network, InvalidResponse} : OutcomeOfCode(code) \in Trips
  /\ \A st \in Statuses \ {400, 422} : OutcomeOfCode(CommonCode(st)) \in Trips
BY DEF Statuses, Network, InvalidResponse, Auth, RateLimit, Unavailable,
   Degraded, CommonCode, OutcomeOfCode, Trips

(* Every backend but Brave and Tavily keeps the cause of a failed exchange. *)
LEMMA FailureKeeps ==
  ASSUME NEW stage \in {"do", "read"}, NEW cause \in Causes
  PROVE  /\ Failure(stage, cause) \in Errors
         /\ Failure(stage, cause).reason = "none"
         /\ Failure(stage, cause).code \in {Network, InvalidResponse}
         /\ Failure(stage, cause).cause \in {cause, "other"}
         /\ backend \notin {"brave", "tavily"} =>
              Failure(stage, cause).cause = cause
<1>1. TransportCode(stage) \in {Network, InvalidResponse}
  BY DEF TransportCode
<1>2. PICK code \in {Network, InvalidResponse}, c \in {cause, "other"} :
        /\ Failure(stage, cause) = Error(code, c)
        /\ backend \notin {"brave", "tavily"} => c = cause
  BY <1>1 DEF Failure, BraveFailure, TavilyFailure, SerperFailure,
     ParallelFailure, ExaFailure, MCPFailure
<1>3. c \in Causes /\ code \in Codes
  BY CodesKnown DEF Causes
<1>4. /\ Failure(stage, cause) \in Errors
      /\ Failure(stage, cause).code = code /\ Failure(stage, cause).cause = c
      /\ Failure(stage, cause).reason = "none"
  BY <1>2, <1>3, MadeErrors
<1>. QED
  BY <1>2, <1>4

(* A status is a fault of whom it speaks of, but for a rejected query.     *)
LEMMA StatusSays ==
  ASSUME NEW st \in Statuses, leg \in {"api", "init", "tool"},
         leg # "api" => backend # "tavily"
  PROVE  /\ StatusError(st) \in Errors /\ StatusError(st).cause = "other"
         /\ StatusError(st).reason # "none" => leg = "api" /\ Speaks(st) = "account"
         /\ Speaks(st) # "query" \/ leg = "tool" =>
              OutcomeOfCode(StatusError(st).code) \in Trips
<1>. DEFINE e == StatusError(st)
<1>1. CASE backend = "tavily"
  <2>1. e = TavilyStatus(st) /\ leg = "api"
    BY <1>1 DEF StatusError
  <2>2. /\ e.code = CommonCode(st) /\ e.cause = "other" /\ e \in Errors
        /\ e.reason # "none" => st \in {401, 432, 433}
    <3>1. CommonCode(st) \in Codes
      BY CodesKnown
    <3>. QED
      BY <2>1, <3>1 DEF TavilyStatus, Errors, Causes
  <2>3. st \in {401, 432, 433} => Speaks(st) = "account"
    BY DEF Speaks
  <2>4. Speaks(st) # "query" => st \notin {400, 422}
    BY DEF Speaks
  <2>. QED
    BY <2>1, <2>2, <2>3, <2>4, FaultCodes
<1>2. CASE backend # "tavily" /\ leg = "tool"
  <2>1. e = Error(Network, "other")
    BY <1>2 DEF StatusError, MCPFailure
  <2>2. e \in Errors /\ e.code = Network /\ e.cause = "other" /\ e.reason = "none"
    BY <2>1, CodesKnown, MadeErrors DEF Causes
  <2>. QED
    BY <2>2, FaultCodes
<1>3. CASE backend # "tavily" /\ leg # "tool"
  <2>1. e = Error(CommonCode(st), "other")
    BY <1>3 DEF StatusError, CommonStatus
  <2>2. /\ e \in Errors /\ e.code = CommonCode(st) /\ e.cause = "other"
        /\ e.reason = "none"
    BY <2>1, CodesKnown, MadeErrors DEF Causes
  <2>3. Speaks(st) # "query" => st \notin {400, 422}
    BY DEF Speaks
  <2>. QED
    BY <1>3, <2>2, <2>3, FaultCodes
<1>. QED
  BY <1>1, <1>2, <1>3

-----------------------------------------------------------------------------
LEMMA InitInv == Init => CallInv
<1>. SUFFICES ASSUME Init PROVE CallInv
  OBVIOUS
<1>1. NoError \in Errors /\ NoError.reason = "none" /\ NoError.cause = "none"
  BY CodesKnown DEF NoError, Errors
<1>2. dones = <<>> /\ dones \in Seq({"ok", "fault"}) /\ DOMAIN dones = {}
  BY DEF Init
<1>3. backend \in Backends /\ leg \in {"api", "init", "tool"}
      /\ (leg # "api" => backend = "exa_mcp")
  BY DEF Init
<1>4. TypeOK
  BY <1>1, <1>2, <1>3 DEF Init, TypeOK
<1>5. Progress
  BY <1>1, <1>2, <1>3 DEF Init, Progress, Running, Reported
<1>6. Evident /\ Verdicts
  BY <1>1 DEF Init, Evident, Verdicts, Reported
<1>. QED
  BY <1>4, <1>5, <1>6 DEF CallInv

(* The request's context may end at any time. *)
LEMMA ContextInv == CallInv /\ ContextEnds => CallInv'
<1>. SUFFICES ASSUME CallInv, ContextEnds PROVE CallInv'
  OBVIOUS
<1>1. /\ parent = "live" /\ parent' \in {"deadline", "cancelled"}
      /\ UNCHANGED <<backend, pc, leg, err, results, outcome, dones, completed,
                     blame>>
  BY DEF ContextEnds, reportVars
<1>2. TypeOK' /\ Progress'
  BY <1>1 DEF CallInv, TypeOK, Progress, Running, Reported
<1>3. Evident'
  BY <1>1 DEF CallInv, Evident, Evidence
<1>4. Verdicts'
  BY <1>1 DEF CallInv, Verdicts, Reported
<1>. QED
  BY <1>2, <1>3, <1>4 DEF CallInv

(* An exchange that fails ends the call, or Exa goes on. *)
LEMMA FailsInv ==
  ASSUME CallInv, NEW e \in Errors, e.cause \in Causes,
         NEW who \in {"nobody", "caller", "query", "account", "provider"},
         pc \in {"do", "read"}, leg # "init" => Evidence(e, who),
         ExchangeFails(e, who)
  PROVE  CallInv'
<1>1. /\ blame' = who
      /\ UNCHANGED <<parent, backend, results, outcome, dones, completed>>
  BY DEF ExchangeFails, reportVars
<1>2. err = NoError /\ results = "none" /\ dones = <<>> /\ ~completed
  BY DEF CallInv, Progress, Running, Reported
<1>3. NoError.reason = "none" /\ NoError.cause = "none"
  BY DEF NoError
<1>4. CASE /\ leg' \in {"init", "tool"} /\ pc' = "do" /\ err' = err
           /\ backend \in {"exa_mcp", "exa_both"}
  <2>1. TypeOK'
    BY <1>1, <1>2, <1>4 DEF CallInv, TypeOK
  <2>2. Progress'
    BY <1>1, <1>2, <1>4 DEF CallInv, Progress, Running, Reported
  <2>3. Evident' /\ Verdicts'
    BY <1>2, <1>3, <1>4 DEF Evident, Verdicts, Reported
  <2>. QED
    BY <2>1, <2>2, <2>3 DEF CallInv
<1>5. CASE /\ leg # "init" /\ pc' = "classify" /\ leg' = leg
           /\ err' = IF backend = "exa_auto" THEN Unconfigured(e) ELSE e
  <2>. DEFINE u == Unconfigured(e)
  <2>1. /\ u \in Errors /\ u.cause = e.cause /\ u.reason = e.reason
    BY CodesKnown DEF Unconfigured, Errors
  <2>2. /\ err' \in Errors /\ err'.cause = e.cause /\ err'.reason = e.reason
        /\ backend # "exa_auto" => err' = e
    BY <1>5, <2>1
  <2>3. err' # NoError /\ err'.cause \in Causes
    BY <1>3, <2>2 DEF Causes
  <2>4. Evidence(e, who)
    BY <1>5
  <2>5. TypeOK'
    <3>1. /\ parent' \in {"live", "deadline", "cancelled"}
          /\ backend' \in Backends /\ pc' = "classify"
          /\ leg' \in {"api", "init", "tool"} /\ results' = "none"
          /\ dones' = dones /\ completed' \in BOOLEAN /\ blame' = who
          /\ \A i \in DOMAIN dones : dones[i] \in {"ok", "fault"}
      BY <1>1, <1>2, <1>5 DEF CallInv, TypeOK
    <3>2. err'.reason \in {"none", "credentials_rejected", "quota_exhausted"}
      BY <2>2 DEF Errors
    <3>. QED
      BY <2>3, <3>1, <3>2 DEF TypeOK
  <2>6. Progress'
    BY <1>1, <1>2, <1>5, <2>2 DEF CallInv, Progress, Running, Reported
  <2>7. Evidence(err, blame)'
    BY <1>1, <2>2, <2>4 DEF Evidence
  <2>8. Evident' /\ Verdicts'
    BY <1>1, <1>2, <1>5, <2>2, <2>4, <2>7 DEF Evident, Evidence, Verdicts,
       Reported
  <2>. QED
    BY <2>5, <2>6, <2>8 DEF CallInv
<1>. QED
  <2>1. leg # "api" => backend \in {"exa_mcp", "exa_both"}
    BY DEF CallInv, Progress
  <2>. QED
    BY <1>4, <1>5, <2>1 DEF ExchangeFails

-----------------------------------------------------------------------------
(* The transport fails. *)
LEMMA TransportInv ==
  ASSUME CallInv, AbortedByContext \/ ProviderHangs \/ ConnectionBreaks
  PROVE  CallInv'
<1>1. pc \in {"do", "read"}
  BY DEF AbortedByContext, ProviderHangs, ConnectionBreaks
<1>2. CASE AbortedByContext
  <2>. DEFINE e == Failure(pc, parent)
  <2>1. parent \in {"deadline", "cancelled"}
    BY <1>2 DEF AbortedByContext, CallInv, TypeOK
  <2>2. /\ e \in Errors /\ e.reason = "none" /\ e.cause \in {parent, "other"}
        /\ backend \notin {"brave", "tavily"} => e.cause = parent
    BY <1>1, <2>1, FailureKeeps DEF Causes
  <2>3. e.cause \in Causes /\ Evidence(e, "caller")
    BY <2>1, <2>2 DEF Causes, Evidence
  <2>4. ExchangeFails(e, "caller")
    BY <1>2 DEF AbortedByContext
  <2>. QED
    BY <1>1, <2>2, <2>3, <2>4, FailsInv
<1>3. ASSUME NEW c \in {"deadline", "other"},
             ExchangeFails(Failure(pc, c), "provider")
      PROVE  CallInv'
  <2>. DEFINE e == Failure(pc, c)
  <2>1. /\ e \in Errors /\ e.reason = "none" /\ e.cause \in {c, "other"}
        /\ e.code \in {Network, InvalidResponse}
    BY <1>1, FailureKeeps DEF Causes
  <2>2. OutcomeOfCode(e.code) \in Trips
    BY <2>1, FaultCodes
  <2>3. e.cause \in Causes /\ Evidence(e, "provider")
    BY <2>1, <2>2 DEF Causes, Evidence
  <2>. QED
    BY <1>1, <1>3, <2>1, <2>3, FailsInv
<1>. QED
  BY <1>2, <1>3 DEF ProviderHangs, ConnectionBreaks

(* A status that is not 200 arrives. *)
LEMMA StatusInv == CallInv /\ StatusRefused => CallInv'
<1>. SUFFICES ASSUME CallInv, StatusRefused PROVE CallInv'
  OBVIOUS
<1>. DEFINE who(st) == IF leg = "api" THEN Speaks(st) ELSE "provider"
<1>1. PICK st \in Statuses : ExchangeFails(StatusError(st), who(st))
  BY DEF StatusRefused
<1>2. /\ pc \in {"do", "read"} /\ leg \in {"api", "init", "tool"}
      /\ leg # "api" => backend # "tavily"
  BY DEF StatusRefused, CallInv, TypeOK, Progress
<1>. DEFINE e == StatusError(st)
<1>3. /\ e \in Errors /\ e.cause = "other"
      /\ e.reason # "none" => leg = "api" /\ Speaks(st) = "account"
      /\ Speaks(st) # "query" \/ leg = "tool" => OutcomeOfCode(e.code) \in Trips
  BY <1>2, StatusSays
<1>4. Speaks(st) \in {"query", "account", "provider"}
  BY DEF Speaks
<1>5. leg # "init" => Evidence(e, who(st))
  BY <1>2, <1>3, <1>4 DEF Evidence
<1>6. e.cause \in Causes
      /\ who(st) \in {"nobody", "caller", "query", "account", "provider"}
  BY <1>3, <1>4 DEF Causes
<1>. QED
  BY <1>1, <1>2, <1>3, <1>5, <1>6, FailsInv

(* A body that does not parse, or an MCP result with nothing in it. *)
LEMMA MalformedInv ==
  ASSUME CallInv, pc \in {"do", "read"}, NEW who \in {"provider", "nobody"},
         \/ ExchangeFails(Error(InvalidResponse, "other"), who)
         \/ ExchangeFails(MCPFailure("other"), who)
  PROVE  CallInv'
<1>1. ASSUME NEW code \in {Network, InvalidResponse},
             ExchangeFails(Error(code, "other"), who)
      PROVE  CallInv'
  <2>. DEFINE e == Error(code, "other")
  <2>1. code \in Codes /\ "other" \in Causes
    BY CodesKnown DEF Causes
  <2>2. e \in Errors /\ e.code = code /\ e.cause = "other" /\ e.reason = "none"
    BY <2>1, MadeErrors
  <2>3. Evidence(e, who)
    BY <2>2, FaultCodes DEF Evidence
  <2>. QED
    BY <1>1, <2>1, <2>2, <2>3, FailsInv
<1>. QED
  BY <1>1 DEF MCPFailure

(* The call goes on to the answer, or to its next exchange. *)
LEMMA GoesOnInv ==
  ASSUME CallInv, pc' \in {"do", "read"}, pc \in {"do", "read"},
         \/ leg' = leg
         \/ leg' = "tool" /\ leg = "init",
         UNCHANGED <<parent, backend, err, results, outcome, reportVars, blame>>
  PROVE  CallInv'
<1>1. UNCHANGED <<parent, backend, err, results, outcome, dones, completed, blame>>
  BY DEF reportVars
<1>2. TypeOK'
  BY <1>1 DEF CallInv, TypeOK
<1>3. Progress'
  BY <1>1 DEF CallInv, Progress, Running, Reported
<1>4. Evident' /\ Verdicts'
  BY <1>1 DEF CallInv, Evident, Verdicts, Reported
<1>. QED
  BY <1>2, <1>3, <1>4 DEF CallInv

(* Search returns what it parsed. *)
LEMMA ReturnsInv ==
  ASSUME CallInv, pc = "read", NEW rs \in {"empty", "some"}, SearchReturns(rs)
  PROVE  CallInv'
<1>1. /\ results' = rs /\ pc' = "classify" /\ blame' = "nobody"
      /\ UNCHANGED <<parent, backend, leg, err, outcome, dones, completed>>
  BY DEF SearchReturns, reportVars
<1>2. err = NoError
  BY DEF CallInv, Progress, Running
<1>3. TypeOK'
  BY <1>1, <1>2 DEF CallInv, TypeOK
<1>4. Progress'
  BY <1>1 DEF CallInv, Progress, Running, Reported
<1>5. Evident' /\ Verdicts'
  BY <1>1, <1>2 DEF CallInv, Evident, Verdicts, Reported, NoError
<1>. QED
  BY <1>3, <1>4, <1>5 DEF CallInv

-----------------------------------------------------------------------------
(* The verdict that an error earns. *)
LEMMA OutcomeSays ==
  ASSUME CallInv, pc = "classify"
  PROVE  /\ blame = "caller" /\ backend \notin {"brave", "tavily"} =>
              Outcome \notin Trips
         /\ blame \in {"provider", "account"} /\ backend # "exa_auto"
              /\ parent = "live" => Outcome \in Trips
<1>1. CASE results # "none"
  BY <1>1 DEF CallInv, Evident
<1>2. CASE results = "none"
  <2>1. Evidence(err, blame)
    BY <1>2 DEF CallInv, Evident
  <2>2. CASE blame = "caller" /\ backend \notin {"brave", "tavily"}
    <3>1. parent # "live" /\ err.cause \in {"deadline", "cancelled"}
      BY <2>1, <2>2 DEF Evidence
    <3>2. Outcome = "cancelled"
      BY <1>2, <3>1 DEF Outcome
    <3>. QED
      BY <2>2, <3>2 DEF Trips
  <2>3. CASE /\ blame \in {"provider", "account"} /\ backend # "exa_auto"
             /\ parent = "live"
    <3>1. CASE err.cause = "deadline"
      BY <1>2, <2>3, <3>1 DEF Outcome, Trips
    <3>2. CASE err.cause = "other" /\ OutcomeOfCode(err.code) \in Trips
      BY <1>2, <2>3, <3>2 DEF Outcome
    <3>. QED
      BY <2>1, <2>3, <3>1, <3>2 DEF Evidence
  <2>. QED
    BY <2>2, <2>3
<1>. QED
  BY <1>1, <1>2 DEF CallInv, TypeOK

LEMMA DoneOnce ==
  ASSUME dones = <<>>, NEW fault \in BOOLEAN, Done(fault)
  PROVE  /\ dones' = <<IF fault THEN "fault" ELSE "ok">>
         /\ dones' \in Seq({"ok", "fault"})
         /\ \A i \in DOMAIN dones' : dones'[i] \in {"ok", "fault"}
BY DEF Done

LEMMA ClassifyInv == CallInv /\ Classify => CallInv'
<1>. SUFFICES ASSUME CallInv, Classify PROVE CallInv'
  OBVIOUS
<1>. DEFINE fault == Outcome \in Trips
<1>1. /\ pc = "classify" /\ pc' = "return" /\ completed' = TRUE /\ Done(fault)
      /\ UNCHANGED <<parent, backend, leg, err, results, blame>>
  BY DEF Classify
<1>2. dones = <<>>
  BY <1>1 DEF CallInv, Progress, Reported
<1>3. fault \in BOOLEAN
  OBVIOUS
<1>4. /\ dones' = <<IF fault THEN "fault" ELSE "ok">>
      /\ dones' \in Seq({"ok", "fault"})
      /\ \A i \in DOMAIN dones' : dones'[i] \in {"ok", "fault"}
  BY <1>1, <1>2, <1>3, DoneOnce
<1>5. TypeOK'
  BY <1>1, <1>4 DEF CallInv, TypeOK
<1>6. Progress'
  BY <1>1, <1>4 DEF CallInv, Progress, Running, Reported
<1>7. Evident'
  BY <1>1 DEF CallInv, Evident
<1>8. Verdicts'
  BY <1>1, <1>4, OutcomeSays DEF Verdicts
<1>. QED
  BY <1>5, <1>6, <1>7, <1>8 DEF CallInv

(* A panic is reported too, and once. *)
LEMMA PanicInv == CallInv /\ ProviderPanics => CallInv'
<1>. SUFFICES ASSUME CallInv, ProviderPanics PROVE CallInv'
  OBVIOUS
<1>1. /\ pc \in {"do", "read"} /\ pc' = "recover" /\ blame' = "provider"
      /\ UNCHANGED <<parent, backend, leg, err, results, dones, completed>>
  BY DEF ProviderPanics, reportVars
<1>2. err = NoError
  BY <1>1 DEF CallInv, Progress, Running
<1>3. TypeOK'
  BY <1>1 DEF CallInv, TypeOK
<1>4. Progress'
  BY <1>1 DEF CallInv, Progress, Running, Reported
<1>5. Evident' /\ Verdicts'
  BY <1>1, <1>2 DEF CallInv, Evident, Verdicts, Reported, NoError
<1>. QED
  BY <1>3, <1>4, <1>5 DEF CallInv

LEMMA RecoverInv == CallInv /\ Recover => CallInv'
<1>. SUFFICES ASSUME CallInv, Recover PROVE CallInv'
  OBVIOUS
<1>. DEFINE e == Error(NotABackendError, "other")
<1>1. /\ pc = "recover" /\ pc' = "return" /\ completed' = TRUE /\ Done(TRUE)
      /\ err' = e /\ UNCHANGED <<parent, backend, leg, results, blame>>
  BY DEF Recover
<1>2. dones = <<>> /\ results = "none" /\ blame = "provider"
  BY <1>1 DEF CallInv, Progress, Running, Reported, Evident
<1>3. /\ dones' = <<"fault">> /\ dones' \in Seq({"ok", "fault"})
      /\ \A i \in DOMAIN dones' : dones'[i] \in {"ok", "fault"}
  BY <1>1, <1>2, DoneOnce
<1>4. /\ e \in Errors /\ e.cause = "other" /\ e.reason = "none" /\ e # NoError
  BY CodesKnown, MadeErrors DEF Causes, NoError
<1>5. TypeOK'
  <2>1. err'.cause \in Causes /\ err'.reason = "none" /\ err' # NoError
    BY <1>1, <1>4 DEF Causes
  <2>. QED
    BY <1>1, <1>2, <1>3, <2>1 DEF CallInv, TypeOK
<1>6. Progress'
  BY <1>1, <1>3, <1>4 DEF CallInv, Progress, Running, Reported
<1>7. Evident' /\ Verdicts'
  BY <1>1, <1>2, <1>3, <1>4 DEF Evident, Verdicts
<1>. QED
  BY <1>5, <1>6, <1>7 DEF CallInv

(* The outer deferred function finds the report already made. *)
LEMMA ReturnInv == CallInv /\ Return => CallInv'
<1>. SUFFICES ASSUME CallInv, Return PROVE CallInv'
  OBVIOUS
<1>1. /\ pc = "return" /\ pc' = "done"
      /\ UNCHANGED <<parent, backend, leg, err, results, outcome, dones,
                     completed, blame>>
  BY DEF Return, CallInv, Progress, Reported
<1>2. TypeOK'
  BY <1>1 DEF CallInv, TypeOK
<1>3. Progress'
  BY <1>1 DEF CallInv, Progress, Running, Reported
<1>4. Evident' /\ Verdicts'
  BY <1>1 DEF CallInv, Evident, Verdicts, Reported
<1>. QED
  BY <1>2, <1>3, <1>4 DEF CallInv

LEMMA ExchangeInv == CallInv /\ Exchange => CallInv'
<1>. SUFFICES ASSUME CallInv, Exchange PROVE CallInv'
  OBVIOUS
<1>1. CASE Aborts \/ ProviderHangs \/ ConnectionBreaks
  BY <1>1, TransportInv DEF Aborts
<1>2. CASE HeadersArrive
  BY <1>2, GoesOnInv DEF HeadersArrive
<1>3. CASE StatusRefused
  BY <1>3, StatusInv
<1>4. CASE BodyMalformed
  BY <1>4, MalformedInv DEF BodyMalformed
<1>5. CASE BodyParsed
  <2>1. ASSUME NEW rs \in {"empty", "some"}, SearchReturns(rs)
        PROVE  CallInv'
    BY <1>5, <2>1, ReturnsInv DEF BodyParsed
  <2>2. CASE ExchangeFails(Error(InvalidResponse, "other"), "nobody")
    BY <1>5, <2>2, MalformedInv DEF BodyParsed
  <2>3. CASE /\ leg = "init" /\ leg' = "tool" /\ pc' = "do"
             /\ UNCHANGED <<parent, backend, err, results, outcome, reportVars,
                            blame>>
    BY <1>5, <2>3, GoesOnInv DEF BodyParsed
  <2>. QED
    BY <1>5, <2>1, <2>2, <2>3 DEF BodyParsed
<1>. QED
  BY <1>1, <1>2, <1>3, <1>4, <1>5 DEF Exchange

LEMMA StepInv == CallInv /\ [Next]_vars => CallInv'
<1>. SUFFICES ASSUME CallInv, [Next]_vars PROVE CallInv'
  OBVIOUS
<1>1. CASE UNCHANGED vars
  BY <1>1 DEF vars, reportVars, CallInv, TypeOK, Progress, Running, Reported,
     Evident, Evidence, Verdicts
<1>. QED
  BY <1>1, ContextInv, ExchangeInv, PanicInv, ClassifyInv, RecoverInv, ReturnInv
     DEF Next, Terminal

-----------------------------------------------------------------------------
(* The inductive invariant: what is known at each point of a call, of the  *)
(* error, of whose doing it is, and of the report (proxy.go:796-842).      *)
THEOREM CallInvariant == Spec => []CallInv
BY InitInv, StepInv, PTL DEF Spec

(* Every variable keeps its type, and an error goes with no results        *)
(* (proxy.go:796-842).                                                     *)
THEOREM TypeCorrect == Spec => []TypeOK
<1>1. CallInv => TypeOK
  BY DEF CallInv
<1>. QED
  BY <1>1, CallInvariant, PTL

(* The breaker hears of an admitted call exactly once, however it ends, a  *)
(* panic included (proxy.go:796-842).                                      *)
THEOREM ReportOnce == Spec => []ReportedOnce
<1>1. CallInv => ReportedOnce
  BY DEF CallInv, Progress, Reported, ReportedOnce
<1>. QED
  BY <1>1, CallInvariant, PTL

(* The end of the request's own context is no fault, for the backends that *)
(* keep the cause of a failed exchange in the error's chain                *)
(* (proxy.go:1150-1222).                                                   *)
THEOREM CallerNoFault == Spec => []CallerNeverTripsWrapped
<1>1. CallInv => CallerNeverTripsWrapped
  BY DEF CallInv, Progress, Reported, Verdicts, CallerNeverTripsWrapped,
     CallerNeverTrips, Tripped
<1>. QED
  BY <1>1, CallInvariant, PTL

(* A genuine fault the request still lives to see is reported as one, but  *)
(* where Exa wraps it (proxy.go:1150-1222, exa.go:110-112).                *)
THEOREM FaultReported == Spec => []FaultTripsUnwrapped
<1>1. CallInv => FaultTripsUnwrapped
  BY DEF CallInv, Reported, Verdicts, FaultTripsUnwrapped, FaultTrips, Tripped
<1>. QED
  BY <1>1, CallInvariant, PTL

(* A structural unavailability reason is only given of an account, on the  *)
(* provider's own word (tavily.go:148-182).                                *)
THEOREM ReasonsEvident == Spec => []ReasonIsEvidence
<1>1. CallInv => ReasonIsEvidence
  BY DEF CallInv, Evident, ReasonIsEvidence
<1>. QED
  BY <1>1, CallInvariant, PTL
=============================================================================
