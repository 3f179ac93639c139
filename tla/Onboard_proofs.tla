---------------------------- MODULE Onboard_proofs ----------------------------
(* Theorems about Onboard: for every number of overlapping runs, every set *)
(* of requests and edits, and every fault.                                 *)
EXTENDS Onboard, TLAPS

-----------------------------------------------------------------------------
(* Types                                                                   *)

(* Where a run is and what it reports change together.                     *)
LEMMA CalmType ==
  ASSUME OnboardTypeOK, NEW j \in Job, NEW c \in BOOLEAN, CalmOnly(j, c)
  PROVE  calm' \in [Job -> BOOLEAN]
  BY DEF OnboardTypeOK, CalmOnly

LEMMA GoToType ==
  ASSUME OnboardTypeOK, NEW j \in Job, NEW step \in Step, GoTo(j, step)
  PROVE  /\ pc' \in [Job -> Step] /\ outcome' \in [Job -> Outcome]
         /\ calm' \in [Job -> BOOLEAN]
  BY DEF OnboardTypeOK, GoTo, CalmOnly

LEMMA EndType ==
  ASSUME OnboardTypeOK, NEW j \in Job, NEW report \in Outcome, NEW c \in BOOLEAN,
         End(j, report), CalmOnly(j, c)
  PROVE  /\ pc' \in [Job -> Step] /\ outcome' \in [Job -> Outcome]
         /\ calm' \in [Job -> BOOLEAN]
  <1>1. [open |-> report, lost |-> "failed", closed |-> "unreported"][watch[j]] \in Outcome
    BY DEF OnboardTypeOK, Outcome
  <1>2. "ended" \in Step
    BY DEF Step
  <1> QED  BY <1>1, <1>2, CalmType DEF OnboardTypeOK, End

LEMMA ProceedType ==
  ASSUME OnboardTypeOK, NEW j \in Job, NEW step \in Step
  PROVE  Proceed(j, step) \/ Fail(j) =>
           /\ pc' \in [Job -> Step] /\ outcome' \in [Job -> Outcome]
           /\ calm' \in [Job -> BOOLEAN]
  <1>1. "failed" \in Outcome
    BY DEF Outcome
  <1> QED  BY <1>1, GoToType, EndType DEF Proceed, Fail

LEMMA InitType == ASSUME Init PROVE OnboardTypeOK
  BY OnboardAssumption
     DEF Init, OnboardTypeOK, Content, Step, Outcome, NoRequest, InWriteConfig

LEMMA NextType == ASSUME OnboardTypeOK, [Next]_vars PROVE OnboardTypeOK'
  <1> USE OnboardAssumption
  <1>1. ASSUME NEW j \in Job, Start(j) PROVE OnboardTypeOK'
    BY <1>1 DEF OnboardTypeOK, Start, hostVars, Step, Outcome
  <1>2. ASSUME NEW j \in Job, PrepareHost(j) PROVE OnboardTypeOK'
    <2>1. "read" \in Step  BY DEF Step
    <2> QED  BY <1>2, <2>1, ProceedType DEF OnboardTypeOK, PrepareHost, hostVars
  <1>3. ASSUME NEW j \in Job, ReadConfig(j) PROVE OnboardTypeOK'
    <2>1. "token" \in Step /\ "refused" \in Outcome  BY DEF Step, InWriteConfig, Outcome
    <2>2. /\ pc' \in [Job -> Step] /\ outcome' \in [Job -> Outcome]
          /\ calm' \in [Job -> BOOLEAN]
      BY <1>3, <2>1, ProceedType, EndType DEF ReadConfig
    <2> QED  BY <1>3, <2>2 DEF OnboardTypeOK, ReadConfig, hostVars
  <1>4. ASSUME NEW j \in Job, TestToken(j) PROVE OnboardTypeOK'
    <2>1. (IF token = "none" THEN "open" ELSE "cat") \in Step  BY DEF Step, InWriteConfig
    <2> QED  BY <1>4, <2>1, GoToType DEF OnboardTypeOK, TestToken, hostVars
  <1>5. ASSUME NEW j \in Job, OpenToken(j) PROVE OnboardTypeOK'
    <2>1. "fill" \in Step  BY DEF Step, InWriteConfig
    <2> QED  BY <1>5, <2>1, GoToType DEF OnboardTypeOK, OpenToken
  <1>6. ASSUME NEW j \in Job, FillToken(j) PROVE OnboardTypeOK'
    <2>1. "cat" \in Step /\ "failed" \in Outcome  BY DEF Step, InWriteConfig, Outcome
    <2>2. /\ pc' \in [Job -> Step] /\ outcome' \in [Job -> Outcome]
          /\ calm' \in [Job -> BOOLEAN]
      BY <1>6, <2>1, GoToType, EndType DEF FillToken
    <2> QED  BY <1>6, <2>2 DEF OnboardTypeOK, FillToken
  <1>7. ASSUME NEW j \in Job, TruncateConfig(j) PROVE OnboardTypeOK'
    <2>1. "write" \in Step  BY DEF Step, InWriteConfig
    <2> QED  BY <1>7, <2>1, GoToType DEF OnboardTypeOK, TruncateConfig, Content, Blame
  <1>8. ASSUME NEW j \in Job, FinishWrite(j) PROVE OnboardTypeOK'
    <2>1. "validate" \in Step  BY DEF Step
    <2>2. /\ pc' \in [Job -> Step] /\ outcome' \in [Job -> Outcome]
          /\ calm' \in [Job -> BOOLEAN]
      BY <1>8, <2>1, ProceedType DEF FinishWrite
    <2>3. file' \in Content \cup {Nothing}
      BY <1>8 DEF FinishWrite, OnboardTypeOK, Content
    <2>4. byOperator' \in BOOLEAN
      BY <1>8 DEF FinishWrite, OnboardTypeOK
    <2>5. author' \in Job \cup {Nothing}
      BY <1>8 DEF FinishWrite, OnboardTypeOK, Blame
    <2> QED  BY <1>8, <2>2, <2>3, <2>4, <2>5 DEF OnboardTypeOK, FinishWrite
  <1>9. ASSUME NEW j \in Job, Validate(j) PROVE OnboardTypeOK'
    <2>1. "enable" \in Step /\ "invalid" \in Outcome  BY DEF Step, Outcome
    <2>2. /\ pc' \in [Job -> Step] /\ outcome' \in [Job -> Outcome]
          /\ calm' \in [Job -> BOOLEAN]
      BY <1>9, <2>1, ProceedType, EndType DEF Validate
    <2> QED  BY <1>9, <2>2 DEF OnboardTypeOK, Validate, hostVars
  <1>10. ASSUME NEW j \in Job, EnableStart(j) PROVE OnboardTypeOK'
    <2>1. "verify" \in Step  BY DEF Step
    <2>2. /\ pc' \in [Job -> Step] /\ outcome' \in [Job -> Outcome]
          /\ calm' \in [Job -> BOOLEAN]
      BY <1>10, <2>1, ProceedType DEF EnableStart
    <2>3. enabled' \in BOOLEAN /\ service' \in {"down", "starting", "up", "waiting"}
      BY <1>10 DEF EnableStart, OnboardTypeOK, serviceStarted
    <2>4. fresh' \in [Job -> BOOLEAN]
      BY <1>10 DEF EnableStart, OnboardTypeOK
    <2> QED  BY <1>10, <2>2, <2>3, <2>4 DEF OnboardTypeOK, EnableStart
  <1>11. ASSUME NEW j \in Job, Verify(j) PROVE OnboardTypeOK'
    <2>1. (IF service \in {"starting", "up"} THEN "onboarded" ELSE "inactive") \in Outcome
      BY DEF Outcome
    <2>2. /\ pc' \in [Job -> Step] /\ outcome' \in [Job -> Outcome]
          /\ calm' \in [Job -> BOOLEAN]
      <3>1. "failed" \in Outcome  BY DEF Outcome
      <3> QED  BY <1>11, <2>1, <3>1, EndType DEF Verify, Fail
    <2> QED  BY <1>11, <2>2 DEF OnboardTypeOK, Verify, hostVars
  <1>12. ASSUME NEW j \in Job, LoseConnection(j) \/ CloseWizard(j) PROVE OnboardTypeOK'
    BY <1>12 DEF OnboardTypeOK, LoseConnection, CloseWizard, NobodyCalm, hostVars
  <1>13. ASSUME EditFile PROVE OnboardTypeOK'
    BY <1>13 DEF OnboardTypeOK, EditFile, NobodyCalm, runVars, Content
  <1>14. ASSUME DaemonLaunches PROVE OnboardTypeOK'
    BY <1>14 DEF OnboardTypeOK, DaemonLaunches, runVars, historyVars
  <1>15. ASSUME DaemonRestarts \/ DaemonEnds PROVE OnboardTypeOK'
    BY <1>15 DEF OnboardTypeOK, DaemonRestarts, DaemonEnds, NobodyCalm, runVars, historyVars
  <1>16. CASE UNCHANGED vars
    BY <1>16 DEF OnboardTypeOK, vars, hostVars, runVars, historyVars
  <1> QED
    BY <1>1, <1>2, <1>3, <1>4, <1>5, <1>6, <1>7, <1>8, <1>9, <1>10, <1>11, <1>12, <1>13,
       <1>14, <1>15, <1>16 DEF Next, RunStep

(* Every variable keeps its type, whatever fails and however many runs     *)
(* overlap.                                                                *)
THEOREM OnboardTypesKept == Spec => []OnboardTypeOK
  BY InitType, NextType, PTL DEF Spec
-----------------------------------------------------------------------------
(* An undisturbed run                                                      *)

(* What holds of a run nothing disturbs, step by step: nobody else is at   *)
(* the host, and what the run has achieved so far still stands.            *)
Undisturbed(j) ==
  /\ pc[j] # "idle"
  /\ watch[j] = "open"
  /\ Alone(j)
  /\ request[j] \in Requests
  /\ pc[j] = "write" => file = Blank /\ ~byOperator
  /\ pc[j] \in {"validate", "enable", "verify"} => file = request[j].text
  /\ pc[j] \in {"enable", "verify"} => file \in Valid
  /\ pc[j] = "verify" => enabled /\ (token = "ok" => service \in {"starting", "up"})
  /\ (pc[j] = "ended" /\ request[j].overwrite /\ request[j].text \in Valid /\ token = "ok")
       => outcome[j] = "onboarded" /\ file = request[j].text /\ enabled

CalmInv == \A j \in Job : calm[j] => Undisturbed(j)

LEMMA InitCalm == ASSUME Init PROVE CalmInv
  BY DEF Init, CalmInv

(* A step of j that leaves it calm leaves it alone, and nobody else calm.  *)
LEMMA OnlyCalm ==
  ASSUME OnboardTypeOK, NEW j \in Job, NEW c \in BOOLEAN, CalmOnly(j, c)
  PROVE  \A k \in Job : calm'[k] => k = j /\ calm[j] /\ c
  BY DEF CalmOnly

LEMMA FailDisturbs ==
  ASSUME OnboardTypeOK, NEW j \in Job, Fail(j)
  PROVE  \A k \in Job : ~calm'[k]
  BY DEF Fail, CalmOnly

LEMMA StaysAlone ==
  ASSUME OnboardTypeOK, NEW j \in Job, Alone(j), NEW step \in Step,
         pc' = [pc EXCEPT ![j] = step]
  PROVE  Alone(j)'
  BY DEF OnboardTypeOK, Alone, Active

(* The calm outcome of a step that goes on.                                *)
LEMMA CalmGoesOn ==
  ASSUME OnboardTypeOK, CalmInv, NEW j \in Job, NEW step \in Step, GoTo(j, step)
  PROVE  \A k \in Job : calm'[k] =>
           k = j /\ Undisturbed(j) /\ pc'[j] = step /\ Alone(j)'
  <1> SUFFICES ASSUME NEW k \in Job, calm'[k]
               PROVE  k = j /\ Undisturbed(j) /\ pc'[j] = step /\ Alone(j)'
    OBVIOUS
  <1>1. k = j /\ calm[j]
    BY OnlyCalm DEF GoTo
  <1>2. Undisturbed(j)
    BY <1>1 DEF CalmInv
  <1>3. pc' = [pc EXCEPT ![j] = step] /\ pc'[j] = step
    BY DEF GoTo, OnboardTypeOK
  <1>4. Alone(j)'
    BY <1>2, <1>3, StaysAlone DEF Undisturbed
  <1> QED  BY <1>1, <1>2, <1>3, <1>4

(* The calm outcome of a command that succeeded: the run goes on.          *)
LEMMA CalmProceeds ==
  ASSUME OnboardTypeOK, CalmInv, NEW j \in Job, NEW step \in Step, Proceed(j, step)
  PROVE  \A k \in Job : calm'[k] =>
           /\ k = j /\ Undisturbed(j)
           /\ pc' = [pc EXCEPT ![j] = step] /\ pc'[j] = step
           /\ outcome' = outcome /\ Alone(j)'
  <1> SUFFICES ASSUME NEW k \in Job, calm'[k]
               PROVE  /\ k = j /\ Undisturbed(j)
                      /\ pc' = [pc EXCEPT ![j] = step] /\ pc'[j] = step
                      /\ outcome' = outcome /\ Alone(j)'
    OBVIOUS
  <1>1. k = j /\ calm[j] /\ GoTo(j, step)
    BY OnlyCalm DEF Proceed, GoTo, CalmOnly
  <1>2. Undisturbed(j)
    BY <1>1 DEF CalmInv
  <1>3. pc' = [pc EXCEPT ![j] = step] /\ pc'[j] = step /\ outcome' = outcome
    BY <1>1 DEF GoTo, OnboardTypeOK
  <1>4. Alone(j)'
    BY <1>2, <1>3, StaysAlone DEF Undisturbed
  <1> QED  BY <1>1, <1>2, <1>3, <1>4

LEMMA NextCalm == ASSUME OnboardTypeOK, CalmInv, [Next]_vars PROVE CalmInv'
  <1> USE OnboardAssumption
  <1>1. ASSUME NEW j \in Job, Start(j) PROVE CalmInv'
    <2> SUFFICES ASSUME NEW k \in Job, calm'[k] PROVE Undisturbed(k)'
      BY DEF CalmInv
    <2>1. k = j /\ Alone(j)
      BY <1>1 DEF Start
    <2>2. pc'[j] = "connect" /\ watch'[j] = "open" /\ request'[j] \in Requests
      BY <1>1 DEF Start, OnboardTypeOK
    <2>3. Alone(j)'
      <3>1. "connect" \in Step  BY DEF Step
      <3> QED  BY <1>1, <2>1, <3>1, StaysAlone DEF Start
    <2> QED  BY <2>1, <2>2, <2>3 DEF Undisturbed
  <1>2. ASSUME NEW j \in Job, PrepareHost(j) PROVE CalmInv'
    <2>1. "read" \in Step  BY DEF Step
    <2> QED  BY <1>2, <2>1, CalmProceeds, FailDisturbs
             DEF CalmInv, Undisturbed, PrepareHost, hostVars
  <1>3. ASSUME NEW j \in Job, ReadConfig(j) PROVE CalmInv'
    <2>1. CASE Proceed(j, "token")
      <3>1. "token" \in Step  BY DEF Step, InWriteConfig
      <3> QED  BY <1>3, <2>1, <3>1, CalmProceeds DEF CalmInv, Undisturbed, ReadConfig, hostVars
    <2>2. CASE refuses(file, request[j]) /\ End(j, "refused") /\ CalmOnly(j, TRUE)
      <3> SUFFICES ASSUME NEW k \in Job, calm'[k] PROVE Undisturbed(k)'
        BY DEF CalmInv
      <3>1. k = j /\ Undisturbed(j)
        BY <2>2, OnlyCalm DEF CalmInv
      <3>2. pc'[j] = "ended" /\ pc' = [pc EXCEPT ![j] = "ended"] /\ ~request[j].overwrite
        BY <2>2 DEF End, OnboardTypeOK, refuses
      <3>3. Alone(j)'
        <4>1. "ended" \in Step  BY DEF Step
        <4> QED  BY <3>1, <3>2, <4>1, StaysAlone DEF Undisturbed
      <3> QED  BY <1>3, <3>1, <3>2, <3>3 DEF ReadConfig, Undisturbed, hostVars
    <2> QED  BY <1>3, <2>1, <2>2 DEF ReadConfig
  <1>4. ASSUME NEW j \in Job, TestToken(j) PROVE CalmInv'
    <2> DEFINE step == IF token = "none" THEN "open" ELSE "cat"
    <2>1. step \in Step /\ step \in {"open", "cat"}  BY DEF Step, InWriteConfig
    <2>2. GoTo(j, step)  BY <1>4 DEF TestToken
    <2> HIDE DEF step
    <2>3. \A k \in Job : calm'[k] => /\ k = j /\ Undisturbed(j)
                                      /\ pc'[j] = step /\ Alone(j)'
      BY <2>1, <2>2, CalmGoesOn
    <2> QED  BY <1>4, <2>1, <2>3 DEF CalmInv, Undisturbed, TestToken, hostVars
  <1>5. ASSUME NEW j \in Job, OpenToken(j) PROVE CalmInv'
    <2>1. "fill" \in Step  BY DEF Step, InWriteConfig
    <2>2. \A k \in Job : calm'[k] => /\ k = j /\ Undisturbed(j)
                                      /\ pc'[j] = "fill" /\ Alone(j)'
      BY <1>5, <2>1, CalmGoesOn DEF OpenToken
    <2> QED  BY <1>5, <2>2 DEF CalmInv, Undisturbed, OpenToken
  <1>6. ASSUME NEW j \in Job, FillToken(j) PROVE CalmInv'
    <2>1. CASE GoTo(j, "cat")
      <3>1. "cat" \in Step  BY DEF Step, InWriteConfig
      <3>2. \A k \in Job : calm'[k] => /\ k = j /\ Undisturbed(j)
                                        /\ pc'[j] = "cat" /\ Alone(j)'
        BY <2>1, <3>1, CalmGoesOn
      <3> QED  BY <1>6, <3>2 DEF CalmInv, Undisturbed, FillToken
    <2>2. CASE CalmOnly(j, FALSE)
      BY <2>2 DEF CalmInv, CalmOnly
    <2> QED  BY <1>6, <2>1, <2>2 DEF FillToken
  <1>7. ASSUME NEW j \in Job, TruncateConfig(j) PROVE CalmInv'
    <2>1. "write" \in Step  BY DEF Step, InWriteConfig
    <2>2. \A k \in Job : calm'[k] => /\ k = j /\ Undisturbed(j)
                                      /\ pc'[j] = "write" /\ Alone(j)'
      BY <1>7, <2>1, CalmGoesOn DEF TruncateConfig
    <2> QED  BY <1>7, <2>2 DEF CalmInv, Undisturbed, TruncateConfig
  <1>8. ASSUME NEW j \in Job, FinishWrite(j) PROVE CalmInv'
    <2>1. CASE Proceed(j, "validate")
      <3> SUFFICES ASSUME NEW k \in Job, calm'[k] PROVE Undisturbed(k)'
        BY DEF CalmInv
      <3>1. "validate" \in Step  BY DEF Step
      <3>2. k = j /\ Undisturbed(j) /\ pc'[j] = "validate" /\ Alone(j)'
        BY <2>1, <3>1, CalmProceeds
      <3>3. pc[j] = "write" /\ file = Blank /\ ~byOperator /\ watch[j] = "open"
        BY <1>8, <3>2 DEF FinishWrite, Undisturbed
      <3>4. ~Fail(j)
        BY <3>2, FailDisturbs
      <3>5. file' = request[j].text
        BY <1>8, <3>3, <3>4 DEF FinishWrite
      <3> QED  BY <1>8, <3>2, <3>5 DEF FinishWrite, Undisturbed
    <2>2. CASE Fail(j)
      BY <2>2, FailDisturbs DEF CalmInv
    <2> QED  BY <1>8, <2>1, <2>2 DEF FinishWrite
  <1>9. ASSUME NEW j \in Job, Validate(j) PROVE CalmInv'
    <2>1. CASE file \in Valid /\ Proceed(j, "enable")
      <3>1. "enable" \in Step  BY DEF Step
      <3> QED  BY <1>9, <2>1, <3>1, CalmProceeds DEF CalmInv, Undisturbed, Validate, hostVars
    <2>2. CASE file \notin Valid /\ End(j, "invalid") /\ CalmOnly(j, TRUE)
      <3> SUFFICES ASSUME NEW k \in Job, calm'[k] PROVE Undisturbed(k)'
        BY DEF CalmInv
      <3>1. k = j /\ Undisturbed(j)
        BY <2>2, OnlyCalm DEF CalmInv
      <3>2. pc'[j] = "ended" /\ pc' = [pc EXCEPT ![j] = "ended"]
        BY <2>2 DEF End, OnboardTypeOK
      <3>3. request[j].text \notin Valid
        BY <1>9, <2>2, <3>1 DEF Validate, Undisturbed
      <3>4. Alone(j)'
        <4>1. "ended" \in Step  BY DEF Step
        <4> QED  BY <3>1, <3>2, <4>1, StaysAlone DEF Undisturbed
      <3> QED  BY <1>9, <3>1, <3>2, <3>3, <3>4 DEF Validate, Undisturbed, hostVars
    <2>3. CASE Fail(j)
      BY <2>3, FailDisturbs DEF CalmInv
    <2> QED  BY <1>9, <2>1, <2>2, <2>3 DEF Validate
  <1>10. ASSUME NEW j \in Job, EnableStart(j) PROVE CalmInv'
    <2>1. CASE Proceed(j, "verify") /\ enabled' = TRUE /\ service' = serviceStarted
      <3>1. "verify" \in Step  BY DEF Step
      <3>2. service' \in {"starting", "up"}
        BY <2>1 DEF OnboardTypeOK, serviceStarted
      <3> QED  BY <1>10, <2>1, <3>1, <3>2, CalmProceeds DEF CalmInv, Undisturbed, EnableStart
    <2>2. CASE Fail(j)
      BY <2>2, FailDisturbs DEF CalmInv
    <2> QED  BY <1>10, <2>1, <2>2 DEF EnableStart
  <1>11. ASSUME NEW j \in Job, Verify(j) PROVE CalmInv'
    <2> DEFINE report == IF service \in {"starting", "up"} THEN "onboarded" ELSE "inactive"
    <2>1. CASE End(j, report) /\ CalmOnly(j, TRUE)
      <3> SUFFICES ASSUME NEW k \in Job, calm'[k] PROVE Undisturbed(k)'
        BY DEF CalmInv
      <3>1. k = j /\ Undisturbed(j)
        BY <2>1, OnlyCalm DEF CalmInv
      <3>2. pc'[j] = "ended" /\ pc' = [pc EXCEPT ![j] = "ended"] /\ outcome'[j] = report
        BY <2>1, <3>1 DEF End, OnboardTypeOK, Undisturbed
      <3>3. Alone(j)'
        <4>1. "ended" \in Step  BY DEF Step
        <4> QED  BY <3>1, <3>2, <4>1, StaysAlone DEF Undisturbed
      <3>4. file = request[j].text /\ enabled /\ (token = "ok" => report = "onboarded")
        BY <1>11, <3>1 DEF Verify, Undisturbed
      <3> QED  BY <1>11, <3>1, <3>2, <3>3, <3>4 DEF Verify, Undisturbed, hostVars
    <2>2. CASE Fail(j)
      BY <2>2, FailDisturbs DEF CalmInv
    <2> QED  BY <1>11, <2>1, <2>2 DEF Verify
  <1>12. ASSUME NobodyCalm PROVE CalmInv'
    BY <1>12 DEF CalmInv, NobodyCalm
  <1>13. ASSUME DaemonLaunches PROVE CalmInv'
    <2> SUFFICES ASSUME NEW j \in Job, calm'[j] PROVE Undisturbed(j)'
      BY DEF CalmInv
    <2>1. Undisturbed(j)
      BY <1>13 DEF DaemonLaunches, historyVars, CalmInv
    <2>2. Alone(j)'
      BY <1>13, <2>1 DEF DaemonLaunches, runVars, Undisturbed, Alone, Active
    <2>3. pc[j] = "verify" /\ token = "ok" => startable
      BY <2>1 DEF Undisturbed, startable
    <2> QED  BY <1>13, <2>1, <2>2, <2>3 DEF DaemonLaunches, Undisturbed, runVars, historyVars
  <1>14. ASSUME DaemonRestarts PROVE CalmInv'
    <2> SUFFICES ASSUME NEW j \in Job, calm'[j] PROVE Undisturbed(j)'
      BY DEF CalmInv
    <2>1. Undisturbed(j)
      BY <1>14 DEF DaemonRestarts, historyVars, CalmInv
    <2>2. Alone(j)'
      BY <1>14, <2>1 DEF DaemonRestarts, runVars, Undisturbed, Alone, Active
    <2> QED  BY <1>14, <2>1, <2>2 DEF DaemonRestarts, Undisturbed, runVars, historyVars
  <1>15. CASE UNCHANGED vars
    BY <1>15 DEF vars, hostVars, runVars, historyVars, CalmInv, Undisturbed, Alone, Active
  <1> QED
    BY <1>1, <1>2, <1>3, <1>4, <1>5, <1>6, <1>7, <1>8, <1>9, <1>10, <1>11, <1>12, <1>13,
       <1>14, <1>15 DEF Next, RunStep, LoseConnection, CloseWizard, EditFile, DaemonEnds

(* A run that nothing disturbs repairs whatever earlier ones left, unless  *)
(* one of them left an empty token.                                        *)
THEOREM RetryStaysRepairing == Spec => []CleanRetryRepairs
  <1>1. CalmInv => CleanRetryRepairs
    BY DEF CalmInv, Undisturbed, CleanRetryRepairs
  <1> QED  BY <1>1, InitType, NextType, InitCalm, NextCalm, PTL DEF Spec

-----------------------------------------------------------------------------
(* Validation                                                              *)

(* A failure is reported as one, whoever still follows the run.            *)
LEMMA FailureIsReported ==
  ASSUME OnboardTypeOK, NEW j \in Job, NEW report \in {"failed", "invalid"},
         End(j, report)
  PROVE  pc'[j] = "ended" /\ outcome'[j] \in {"failed", "invalid", "unreported"}
  BY DEF OnboardTypeOK, End

(* Once the file is written, the run has to validate it.                   *)
LEMMA WrittenIsNoticed ==
  ASSUME OnboardTypeOK, NEW j \in Job, Proceed(j, "validate") \/ Fail(j)
  PROVE  \/ pc'[j] = "validate"
         \/ pc'[j] = "ended" /\ outcome'[j] \in {"failed", "invalid", "unreported"}
  <1>1. CASE GoTo(j, "validate")
    BY <1>1 DEF GoTo, OnboardTypeOK
  <1>2. CASE End(j, "failed")
    BY <1>2, FailureIsReported
  <1> QED
    BY <1>1, <1>2 DEF Proceed, Fail

(* A step of j moves no other run.                                         *)
LEMMA OthersStay ==
  ASSUME OnboardTypeOK, NEW j \in Job, RunStep(j)
  PROVE  \A k \in Job \ {j} : pc'[k] = pc[k] /\ outcome'[k] = outcome[k]
  <1> SUFFICES ASSUME NEW k \in Job, k # j
               PROVE  pc'[k] = pc[k] /\ outcome'[k] = outcome[k]
    OBVIOUS
  <1>1. \A step, report : GoTo(j, step) \/ End(j, report) =>
          pc'[k] = pc[k] /\ outcome'[k] = outcome[k]
    BY DEF GoTo, End, OnboardTypeOK
  <1> QED
    BY <1>1 DEF RunStep, PrepareHost, ReadConfig, TestToken, OpenToken, FillToken,
                TruncateConfig, FinishWrite, Validate, EnableStart, Verify, Proceed, Fail

(* Only a text the validator rejects has an author, who has validation     *)
(* still ahead or has failed.                                              *)
NoticedInv ==
  /\ InvalidTextIsNoticed
  /\ author # Nothing => file \notin Valid

(* NoticedInv is inductive.                                                *)
LEMMA NextNoticed ==
  ASSUME OnboardTypeOK, NoticedInv, [Next]_vars
  PROVE  NoticedInv'
  <1> USE OnboardAssumption
  <1> USE DEF NoticedInv, InvalidTextIsNoticed
  <1>1. ASSUME NEW j \in Job, Start(j) PROVE NoticedInv'
    BY <1>1 DEF OnboardTypeOK, Start, hostVars
  <1>2. ASSUME NEW j \in Job, RunStep(j), UNCHANGED <<file, author>>,
               ~Validate(j), ~FinishWrite(j)
        PROVE  NoticedInv'
    <2>1. pc[j] \notin {"write", "validate", "ended"}
      BY <1>2 DEF RunStep, PrepareHost, ReadConfig, TestToken, OpenToken, FillToken,
                  TruncateConfig, EnableStart, Verify
    <2> QED  BY <1>2, <2>1, OthersStay
  <1>3. ASSUME NEW j \in Job, Validate(j) PROVE NoticedInv'
    <2>1. UNCHANGED <<file, author>> /\ pc[j] = "validate"
      BY <1>3 DEF Validate, hostVars
    <2>2. author # Nothing =>
            pc'[j] = "ended" /\ outcome'[j] \in {"failed", "invalid", "unreported"}
      BY <1>3, FailureIsReported DEF Validate, Fail
    <2>3. \A k \in Job \ {j} : pc'[k] = pc[k] /\ outcome'[k] = outcome[k]
      BY <1>3, OthersStay DEF RunStep
    <2> QED  BY <2>1, <2>2, <2>3
  <1>4. ASSUME NEW j \in Job, FinishWrite(j) PROVE NoticedInv'
    <2>1. \/ pc'[j] = "validate"
          \/ pc'[j] = "ended" /\ outcome'[j] \in {"failed", "invalid", "unreported"}
      BY <1>4, WrittenIsNoticed DEF FinishWrite
    <2>2. /\ author' \in {j, author, Nothing}
          /\ author' # Nothing => file' \notin Valid
      BY <1>4 DEF FinishWrite, Blame
    <2>3. \A k \in Job \ {j} : pc'[k] = pc[k] /\ outcome'[k] = outcome[k]
      BY <1>4, OthersStay DEF RunStep
    <2> QED  BY <2>1, <2>2, <2>3
  <1>5. ASSUME NEW j \in Job, TruncateConfig(j) PROVE NoticedInv'
    BY <1>5 DEF OnboardTypeOK, TruncateConfig, GoTo, Blame
  <1>6. ASSUME NEW j \in Job, RunStep(j) PROVE NoticedInv'
    <2>1. \/ Validate(j) \/ FinishWrite(j) \/ TruncateConfig(j)
          \/ UNCHANGED <<file, author>>
      BY <1>6 DEF RunStep, PrepareHost, ReadConfig, TestToken, OpenToken, FillToken,
                  EnableStart, Verify, hostVars
    <2> QED  BY <1>2, <1>3, <1>4, <1>5, <1>6, <2>1
  <1>7. ASSUME NEW j \in Job, LoseConnection(j) \/ CloseWizard(j)
        PROVE  NoticedInv'
    BY <1>7 DEF LoseConnection, CloseWizard, hostVars
  <1>8. ASSUME EditFile PROVE NoticedInv'
    BY <1>8 DEF EditFile
  <1>9. ASSUME DaemonLaunches \/ DaemonRestarts \/ DaemonEnds PROVE NoticedInv'
    BY <1>9 DEF DaemonLaunches, DaemonRestarts, DaemonEnds, runVars, historyVars
  <1>10. CASE UNCHANGED vars
    BY <1>10 DEF vars, hostVars, runVars, historyVars
  <1> QED
    BY <1>1, <1>6, <1>7, <1>8, <1>9, <1>10 DEF Next

(* However many runs overlap, and whatever operators write, a run that     *)
(* left an invalid configuration still has to validate or did not report   *)
(* success.                                                                *)
THEOREM InvalidTextStaysNoticed == Spec => []InvalidTextIsNoticed
  <1>1. Init => NoticedInv
    BY OnboardAssumption DEF Init, NoticedInv, InvalidTextIsNoticed
  <1>2. OnboardTypeOK /\ NoticedInv /\ [Next]_vars => NoticedInv'
    BY NextNoticed
  <1>3. NoticedInv => InvalidTextIsNoticed
    BY DEF NoticedInv
  <1> QED  BY <1>1, <1>2, <1>3, InitType, NextType, PTL DEF Spec

-----------------------------------------------------------------------------
(* The operator's configuration                                            *)

(* From the look at the file to its truncation, what an operator wrote and *)
(* the run has seen may be replaced; and the file is his while it counts   *)
(* as his.                                                                 *)
EditsInv ==
  /\ byOperator => file \in Edits
  /\ \A j \in Job :
       pc[j] \in {"token", "open", "fill", "cat"} /\ byOperator /\ j \in lookedAt
       => request[j].overwrite \/ file = request[j].text

LEMMA InitEdits == ASSUME Init PROVE EditsInv
  BY DEF Init, EditsInv

(* A step of one run elsewhere in its course leaves the others' hopes.     *)
LEMMA EditsStand ==
  ASSUME OnboardTypeOK, EditsInv, NEW j \in Job, NEW step,
         pc' = [pc EXCEPT ![j] = step],
         step \in {"token", "open", "fill", "cat"} => pc[j] \in {"token", "open", "fill", "cat"},
         UNCHANGED <<request, lookedAt>>,
         byOperator' => byOperator /\ file' = file
  PROVE  EditsInv'
  BY DEF OnboardTypeOK, EditsInv

LEMMA PcMoves ==
  ASSUME NEW j \in Job, NEW step, Proceed(j, step) \/ Fail(j)
  PROVE  pc' = [pc EXCEPT ![j] = step] \/ pc' = [pc EXCEPT ![j] = "ended"]
  BY DEF Proceed, Fail, GoTo, End

LEMMA NextEdits ==
  ASSUME OnboardTypeOK, EditsInv, [Next]_vars, "read" \notin Faults
  PROVE  EditsInv'
  <1> USE OnboardAssumption
  <1>1. ASSUME NEW j \in Job, Start(j) PROVE EditsInv'
    BY <1>1 DEF OnboardTypeOK, EditsInv, Start, hostVars
  <1>2. ASSUME NEW j \in Job, PrepareHost(j) PROVE EditsInv'
    BY <1>2, PcMoves, EditsStand DEF PrepareHost, hostVars
  <1>3. ASSUME NEW j \in Job, ReadConfig(j) PROVE EditsInv'
    <2>1. \/ pc' = [pc EXCEPT ![j] = "ended"]
          \/ ~refuses(file, request[j]) /\ pc' = [pc EXCEPT ![j] = "token"]
      BY <1>3, PcMoves DEF ReadConfig, End
    <2>2. byOperator => file \notin {Nothing, Blank}
      BY DEF EditsInv, Content
    <2>3. ~refuses(file, request[j]) /\ byOperator
          => request[j].overwrite \/ file = request[j].text
      BY <2>2 DEF refuses
    <2> QED  BY <1>3, <2>1, <2>3 DEF OnboardTypeOK, EditsInv, ReadConfig, hostVars
  <1>4. ASSUME NEW j \in Job, TestToken(j) PROVE EditsInv'
    BY <1>4, EditsStand DEF TestToken, GoTo, hostVars
  <1>5. ASSUME NEW j \in Job, OpenToken(j) PROVE EditsInv'
    BY <1>5, EditsStand DEF OpenToken, GoTo
  <1>6. ASSUME NEW j \in Job, FillToken(j) PROVE EditsInv'
    BY <1>6, EditsStand DEF FillToken, GoTo, End
  <1>7. ASSUME NEW j \in Job, TruncateConfig(j) PROVE EditsInv'
    BY <1>7 DEF EditsInv, TruncateConfig
  <1>8. ASSUME NEW j \in Job, FinishWrite(j) PROVE EditsInv'
    <2>1. pc' = [pc EXCEPT ![j] = "validate"] \/ pc' = [pc EXCEPT ![j] = "ended"]
      BY <1>8, PcMoves DEF FinishWrite
    <2>2. byOperator' => byOperator /\ file' = file
      BY <1>8 DEF FinishWrite
    <2> QED  BY <1>8, <2>1, <2>2, EditsStand DEF FinishWrite
  <1>9. ASSUME NEW j \in Job, Validate(j) PROVE EditsInv'
    <2>1. pc' = [pc EXCEPT ![j] = "enable"] \/ pc' = [pc EXCEPT ![j] = "ended"]
      BY <1>9, PcMoves DEF Validate, End
    <2> QED  BY <1>9, <2>1, EditsStand DEF Validate, hostVars
  <1>10. ASSUME NEW j \in Job, EnableStart(j) PROVE EditsInv'
    <2>1. pc' = [pc EXCEPT ![j] = "verify"] \/ pc' = [pc EXCEPT ![j] = "ended"]
      BY <1>10, PcMoves DEF EnableStart
    <2> QED  BY <1>10, <2>1, EditsStand DEF EnableStart
  <1>11. ASSUME NEW j \in Job, Verify(j) PROVE EditsInv'
    <2>1. pc' = [pc EXCEPT ![j] = "ended"]
      BY <1>11 DEF Verify, Fail, End
    <2> QED  BY <1>11, <2>1, EditsStand DEF Verify, hostVars
  <1>12. ASSUME NEW j \in Job, LoseConnection(j) \/ CloseWizard(j) PROVE EditsInv'
    BY <1>12 DEF EditsInv, LoseConnection, CloseWizard, hostVars
  <1>13. ASSUME EditFile PROVE EditsInv'
    BY <1>13 DEF EditsInv, EditFile
  <1>14. ASSUME DaemonLaunches \/ DaemonRestarts \/ DaemonEnds PROVE EditsInv'
    BY <1>14 DEF EditsInv, DaemonLaunches, DaemonRestarts, DaemonEnds, runVars, historyVars
  <1>15. CASE UNCHANGED vars
    BY <1>15 DEF EditsInv, vars, hostVars, runVars, historyVars
  <1> QED
    BY <1>1, <1>2, <1>3, <1>4, <1>5, <1>6, <1>7, <1>8, <1>9, <1>10, <1>11, <1>12, <1>13,
       <1>14, <1>15 DEF Next, RunStep

(* Where the existing file can be read, no run replaces, unasked, an       *)
(* operator's configuration it has seen.                                   *)
THEOREM EditsStayKept == Spec /\ "read" \notin Faults => []EditsAreKept
  <1>1. EditsInv => EditsAreKept
    BY DEF EditsInv, EditsAreKept
  <1> SUFFICES ASSUME "read" \notin Faults PROVE Spec => []EditsAreKept
    OBVIOUS
  <1>2. OnboardTypeOK /\ EditsInv /\ [Next]_vars => EditsInv'
    BY NextEdits
  <1> QED  BY <1>1, <1>2, InitType, NextType, InitEdits, PTL DEF Spec
=============================================================================
