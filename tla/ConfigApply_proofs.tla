------------------------- MODULE ConfigApply_proofs -------------------------
(***************************************************************************)
(* Theorems about ConfigApply, for every set of sessions, settings and     *)
(* faults: the stored configuration is sound and an acknowledged one is    *)
(* kept, whatever fails; the backup is the configuration that is replaced; *)
(* the file implements a durable register.                                 *)
(***************************************************************************)
EXTENDS ConfigApply, SequenceTheorems, TLAPS

(* What keeps the stored configuration sound: so is the one that runs, the *)
(* one an admitted apply carries and the one a Cockpit page writes back;   *)
(* and an apply is only under way while the daemon runs.                   *)
StoreInv ==
  /\ ConfigTypeOK
  /\ StoredConfigIsSound
  /\ running # None => IsSound(running)
  /\ request # None => validates(request.config) /\ running # None
  /\ \A k \in Cockpit : stage[k] = "writing" => validates(form[k])

(* A sound content holds a member of Config.                               *)
LEMMA SoundIsConfig ==
  ASSUME NEW content \in Content, IsSound(content)
  PROVE  content.config \in Config
  BY DEF IsSound, Content

(* The contents the definitions name have their type.                      *)
LEMMA ContentsAreTyped ==
  Installed \in Content /\ TornCopy \in Content /\ IsSound(Installed)
  BY ConfigAssumption DEF Installed, TornCopy, Content, IsSound, validates

(* A form has no more of a half VIP than the configuration it came from.   *)
LEMMA FormIsTyped ==
  ASSUME NEW config \in Config, NEW setting \in VipSetting
  PROVE  /\ formFromConfig(config) \in Config
         /\ [config EXCEPT !.vip = setting] \in Config
  BY DEF formFromConfig, Config

(* A request that loses its client stays a request.                        *)
LEMMA RequestIsTyped ==
  ASSUME NEW live \in BOOLEAN
  PROVE  /\ \A r \in Waiting : [r EXCEPT !.live = live] \in Waiting
         /\ \A r \in Apply : /\ [r EXCEPT !.live = live] \in Apply
                            /\ [r EXCEPT !.live = live].config = r.config
  BY DEF Waiting, Apply

(* The initial state.                                                      *)
LEMMA StoreInit == Init => StoreInv
  <1> SUFFICES ASSUME Init PROVE StoreInv
    OBVIOUS
  <1>1. ConfigTypeOK
    BY ContentsAreTyped, ConfigAssumption DEF Init, ConfigTypeOK
  <1>2. StoredConfigIsSound
    BY ContentsAreTyped DEF Init, StoredConfigIsSound
  <1> QED
    BY <1>1, <1>2, ConfigAssumption DEF Init, StoreInv, Session

(* Replacing the file by a valid configuration keeps it sound.             *)
LEMMA ReplaceKeeps ==
  ASSUME StoreInv, NEW config \in Config, validates(config), NEW s \in Session,
         ReplaceFile(config, s)
  PROVE  /\ file' \in Content /\ survivors' \subseteq Content
         /\ StoredConfigIsSound'
  <1>1. file' \in Content /\ IsSound(file')
    BY ConfigAssumption
       DEF ReplaceFile, StoreInv, ConfigTypeOK, Content, IsSound, validates, Session
  <1> QED
    BY <1>1 DEF ReplaceFile, survivorsAfterRename, StoreInv, ConfigTypeOK,
                StoredConfigIsSound, IsSound, validates

(* The process and the host.                                               *)
LEMMA HostKeepsStore == StoreInv /\ Host => StoreInv'
  <1> SUFFICES ASSUME StoreInv, Host PROVE StoreInv'
    OBVIOUS
  <1> USE DEF StoreInv, ConfigTypeOK, StoredConfigIsSound, IsSound, validates
  <1>1. CASE ServiceStart
    BY <1>1 DEF ServiceStart, fileVars, apiVars, sessionVars
  <1>2. CASE Stop
    BY <1>2 DEF Stop, ApiGone, fileVars, sessionVars
  <1>3. CASE Kill
    BY <1>3 DEF Kill, ApiGone, fileVars, sessionVars
  <1>4. CASE PowerLoss
    BY <1>4, ContentsAreTyped DEF PowerLoss, ApiGone, sessionVars
  <1>5. CASE Writeback
    BY <1>5 DEF Writeback, apiVars, sessionVars
  <1> QED
    BY <1>1, <1>2, <1>3, <1>4, <1>5 DEF Host

(* The clients change neither the file nor what the API works on, except   *)
(* that a request may lose its client.                                     *)
LEMMA ClientsKeepStore == StoreInv /\ Clients => StoreInv'
  <1> SUFFICES ASSUME StoreInv, Clients PROVE StoreInv'
    OBVIOUS
  <1>0. \A c \in Client : c \in Session /\ c \notin Cockpit
    BY ConfigAssumption DEF Session
  <1> USE DEF StoreInv, ConfigTypeOK, StoredConfigIsSound, IsSound, validates
  <1>1. ASSUME NEW d \in Dashboard, Load(d)
        PROVE  StoreInv'
    <2>1. formFromConfig(running.config) \in Config
      BY <1>1, SoundIsConfig, FormIsTyped DEF Load, VipSetting
    <2> QED
      BY <1>1, <1>0, <2>1, ConfigAssumption DEF Load, Move, fileVars, apiVars
  <1>2. ASSUME NEW d \in Dashboard, CloseEditor(d)
        PROVE  StoreInv'
    BY <1>2, <1>0, ConfigAssumption DEF CloseEditor, Leave, Move, fileVars, apiVars
  <1>3. ASSUME NEW c \in Client, NEW config \in Config, Enqueue(c, config)
        PROVE  /\ queue' \in Seq(Waiting)
               /\ stage' \in [Session -> {"closed", "editing", "waiting", "validating", "writing"}]
               /\ \A k \in Cockpit : stage'[k] = stage[k]
               /\ UNCHANGED <<file, survivors, backup, running, request, step, acked>>
    <2>1. [by |-> c, config |-> config, live |-> TRUE] \in Waiting
      BY DEF Waiting
    <2> QED
      BY <1>3, <1>0, <2>1 DEF Enqueue, Move, fileVars
  <1>4. ASSUME NEW d \in Dashboard, NEW config \in Config, SubmitForm(d, config)
        PROVE  StoreInv'
    BY <1>3, <1>4, <1>0, ConfigAssumption DEF SubmitForm
  <1>5. ASSUME NEW c \in Client \ Dashboard, NEW config \in Config, SubmitScript(c, config)
        PROVE  StoreInv'
    BY <1>3, <1>5, <1>0 DEF SubmitScript
  <1>6. ASSUME NEW c \in Client, GiveUp(c)
        PROVE  StoreInv'
    <2>1. queue' \in Seq(Waiting)
      <3>1. \A i \in DOMAIN queue :
              [queue[i] EXCEPT !.live = queue[i].live /\ queue[i].by # c] \in Waiting
        <4> TAKE i \in DOMAIN queue
        <4> DEFINE live == queue[i].live /\ queue[i].by # c
        <4>1. queue[i] \in Waiting
          OBVIOUS
        <4>2. live \in BOOLEAN
          BY DEF Waiting
        <4> HIDE DEF live
        <4>3. [queue[i] EXCEPT !.live = live] \in Waiting
          BY <4>1, <4>2, RequestIsTyped
        <4> QED
          BY <4>3 DEF live
      <3>2. queue' = [i \in 1 .. Len(queue) |->
                        [queue[i] EXCEPT !.live = queue[i].live /\ queue[i].by # c]]
        BY <1>6 DEF GiveUp
      <3> QED
        BY <3>1, <3>2
    <2>2. /\ request' \in Apply \cup {None}
          /\ (request' = None) = (request = None)
          /\ request # None => request'.config = request.config
      <3>1. CASE request = None
        BY <1>6, <3>1 DEF GiveUp
      <3>2. CASE request # None
        <4>1. request' = [request EXCEPT !.live = request.live /\ request.by # c]
          BY <1>6, <3>2 DEF GiveUp
        <4>2. request \in Apply
          BY <3>2
        <4> DEFINE live == request.live /\ request.by # c
        <4>3. live \in BOOLEAN
          BY DEF Waiting
        <4>4. request' = [request EXCEPT !.live = live]
          BY <4>1
        <4> HIDE DEF live
        <4>5. request' \in Apply /\ request'.config = request.config
          BY <4>2, <4>3, <4>4, RequestIsTyped
        <4> QED
          BY <3>2, <4>5, ConfigAssumption
      <3> QED
        BY <3>1, <3>2
    <2>3. stage' \in [Session -> {"closed", "editing", "waiting", "validating", "writing"}]
      BY <1>6, <1>0 DEF GiveUp, Move, Rest
    <2>4. \A k \in Cockpit : stage'[k] = stage[k]
      BY <1>6, <1>0 DEF GiveUp, Move
    <2> QED
      BY <1>6, <2>1, <2>2, <2>3, <2>4 DEF GiveUp, fileVars
  <1> QED
    BY <1>1, <1>2, <1>4, <1>5, <1>6, ConfigAssumption DEF Clients

(* Answering moves only the client.                                        *)
LEMMA AnswerMoves ==
  ASSUME ConfigTypeOK, NEW r, r.by \in Client, Answer(r)
  PROVE  /\ stage' \in [Session -> {"closed", "editing", "waiting", "validating", "writing"}]
         /\ \A k \in Cockpit : stage'[k] = stage[k]
  BY ConfigAssumption DEF ConfigTypeOK, Answer, Rest, Session

(* The API thread.                                                         *)
LEMMA ApiKeepsStore == StoreInv /\ ApiThread => StoreInv'
  <1> SUFFICES ASSUME StoreInv, ApiThread PROVE StoreInv'
    OBVIOUS
  <1> USE DEF StoreInv, ConfigTypeOK
  <1>0. request # None => request \in Apply /\ request.by \in Client
    BY DEF Apply
  <1>1. ASSUME NEW whole \in BOOLEAN, NEW authorized \in BOOLEAN, AcceptApply(whole, authorized)
        PROVE  StoreInv'
    <2> DEFINE r         == Head(queue)
               candidate == received(r.config, whole)
               admitted  == /\ ~running.config.read_only /\ authorized
                            /\ candidate # None /\ validates(candidate)
    <2>1. /\ r \in Waiting /\ queue' \in Seq(Waiting)
          /\ r.by \in Client /\ r.config \in Config /\ r.live \in BOOLEAN
      <3>1. queue \in Seq(Waiting) /\ queue # <<>> /\ queue' = Tail(queue)
        BY <1>1 DEF AcceptApply
      <3>2. r \in Waiting /\ queue' \in Seq(Waiting)
        BY <3>1, HeadTailProperties
      <3> HIDE DEF r
      <3>3. r.by \in Client /\ r.config \in Config /\ r.live \in BOOLEAN
        BY <3>2 DEF Waiting
      <3> QED
        BY <3>2, <3>3
    <2>2. UNCHANGED <<file, survivors, running, form, acked>>
      BY <1>1 DEF AcceptApply, fileVars
    <2>3. CASE admitted
      <3>1. candidate = r.config
        BY <2>3 DEF received
      <3> DEFINE apply == [by |-> r.by, live |-> r.live, config |-> candidate,
                           replaced |-> replacedConfig, version |-> 0,
                           opened |-> file.version]
      <3>2. request' = apply /\ step' = "copying" /\ backup' = TornCopy /\ UNCHANGED stage
        BY <1>1, <2>3 DEF AcceptApply
      <3>3. apply \in Apply /\ apply.config = candidate
        BY <2>1, <3>1 DEF Apply, Content, replacedConfig
      <3>4. request' \in Apply /\ request' # None /\ validates(request'.config)
        BY <2>3, <3>2, <3>3, ConfigAssumption
      <3>5. running' # None
        BY <1>1 DEF AcceptApply
      <3> QED
        BY <2>1, <2>2, <3>2, <3>4, <3>5, ContentsAreTyped
           DEF StoredConfigIsSound, IsSound, validates
    <2>4. CASE ~admitted
      <3>1. Answer(r) /\ UNCHANGED <<request, step, backup>>
        BY <1>1, <2>4 DEF AcceptApply
      <3> QED
        BY <2>1, <2>2, <3>1, AnswerMoves DEF StoredConfigIsSound, IsSound, validates
    <2> QED
      BY <2>3, <2>4
  <1>2. CASE CopyBackup
    BY <1>0, <1>2
       DEF CopyBackup, Apply, fileVars, sessionVars, StoredConfigIsSound, IsSound, validates
  <1>3. CASE RenameOver
    <2>1. /\ request # None /\ request \in Apply
          /\ request.config \in Config /\ request.by \in Session
      BY <1>3 DEF RenameOver, Apply, Session
    <2>2. file' \in Content /\ survivors' \subseteq Content /\ StoredConfigIsSound'
      BY <1>3, <2>1, ReplaceKeeps DEF RenameOver
    <2>3. request' = [request EXCEPT !.version = file'.version] /\ file'.version \in Nat
      BY <1>3, <2>2 DEF RenameOver, Content
    <2>4. request' \in Apply /\ request'.config = request.config
      BY <2>1, <2>3 DEF Apply
    <2> QED
      BY <1>3, <2>1, <2>2, <2>4, ConfigAssumption
         DEF RenameOver, sessionVars, IsSound, validates
  <1>4. CASE ApplyFails
    BY <1>0, <1>4, AnswerMoves
       DEF ApplyFails, fileVars, StoredConfigIsSound, IsSound, validates
  <1>5. ASSUME NEW synced \in BOOLEAN, FinishApply(synced)
        PROVE  StoreInv'
    <2>1. request # None /\ request.by \in Client /\ request.version \in Nat
      BY <1>5 DEF FinishApply, Apply
    <2>2. survivors' \subseteq Content /\ StoredConfigIsSound'
      BY <1>5
         DEF FinishApply, survivorsAfterSync, StoredConfigIsSound, IsSound, validates
    <2>3. /\ stage' \in [Session -> {"closed", "editing", "waiting", "validating", "writing"}]
          /\ \A k \in Cockpit : stage'[k] = stage[k]
      BY <1>5, <2>1, AnswerMoves DEF FinishApply
    <2> QED
      BY <1>5, <2>1, <2>2, <2>3 DEF FinishApply, IsSound, validates
  <1> QED
    BY <1>1, <1>2, <1>3, <1>4, <1>5 DEF ApiThread

(* The Cockpit page writes back what it read, with another VIP.            *)
LEMMA CockpitKeepsStore == StoreInv /\ CockpitPages => StoreInv'
  <1> SUFFICES ASSUME StoreInv, NEW k \in Cockpit,
                      \/ \E setting \in Vip : ReadFile(k, setting)
                      \/ ValidateCandidate(k)
                      \/ WriteBack(k)
                      \/ Abandon(k)
               PROVE  StoreInv'
    BY DEF CockpitPages
  <1> USE DEF StoreInv, ConfigTypeOK
  <1>0. k \in Session
    BY DEF Session
  <1>1. ASSUME NEW setting \in Vip, ReadFile(k, setting)
        PROVE  StoreInv'
    <2>1. [file.config EXCEPT !.vip = setting] \in Config
      BY SoundIsConfig, FormIsTyped DEF StoredConfigIsSound, VipSetting
    <2> QED
      BY <1>0, <1>1, <2>1
         DEF ReadFile, Move, fileVars, apiVars, StoredConfigIsSound, IsSound, validates
  <1>2. CASE ValidateCandidate(k)
    BY <1>0, <1>2
       DEF ValidateCandidate, Move, fileVars, apiVars, StoredConfigIsSound, IsSound, validates
  <1>3. CASE WriteBack(k)
    <2>1. file' \in Content /\ survivors' \subseteq Content /\ StoredConfigIsSound'
      BY <1>0, <1>3, ReplaceKeeps DEF WriteBack
    <2> QED
      BY <1>0, <1>3, <2>1, ConfigAssumption
         DEF WriteBack, Leave, Move, apiVars, IsSound, validates
  <1>4. CASE Abandon(k)
    BY <1>0, <1>4, ConfigAssumption
       DEF Abandon, Leave, Move, fileVars, apiVars, StoredConfigIsSound, IsSound, validates
  <1> QED
    BY <1>1, <1>2, <1>3, <1>4

(* StoreInv is inductive.                                                  *)
LEMMA StoreStep == StoreInv /\ [Next]_vars => StoreInv'
  <1> SUFFICES ASSUME StoreInv, [Next]_vars PROVE StoreInv'
    OBVIOUS
  <1>1. CASE UNCHANGED vars
    BY <1>1 DEF vars, fileVars, apiVars, sessionVars, StoreInv, ConfigTypeOK,
                StoredConfigIsSound, IsSound, validates
  <1> QED
    BY <1>1, HostKeepsStore, ClientsKeepStore, ApiKeepsStore, CockpitKeepsStore DEF Next

(* Every variable keeps its type, whatever fails.                          *)
THEOREM ConfigTypesKept == Spec => []ConfigTypeOK
  <1>1. StoreInv => ConfigTypeOK
    BY DEF StoreInv
  <1> QED
    BY <1>1, StoreInit, StoreStep, PTL DEF Spec

(* The stored configuration is whole and valid whatever fails, and so is   *)
(* whatever a loss of power leaves.                                        *)
THEOREM StoredConfigStaysSound == Spec => []StoredConfigIsSound
  <1>1. StoreInv => StoredConfigIsSound
    BY DEF StoreInv
  <1> QED
    BY <1>1, StoreInit, StoreStep, PTL DEF Spec

-----------------------------------------------------------------------------
(* What keeps the backup the configuration that is replaced: the copy is   *)
(* of the file as it was opened, and until the rename only a Cockpit page  *)
(* replaces the file, by a later version.                                  *)
BackupInv ==
  /\ StoreInv
  /\ step \in {"copying", "replacing"} =>
       /\ IsSound(request.replaced)
       /\ request.replaced.version = request.opened
       /\ \/ request.replaced = file
          \/ file.version > request.opened /\ file.by \in Cockpit
  /\ step = "replacing" => backup = request.replaced

(* Only the API thread moves an apply on; whatever else happens, it stays  *)
(* where it is, up to its client, or ends.                                 *)
LEMMA OthersKeepApply ==
  ASSUME StoreInv, Host \/ Clients \/ CockpitPages
  PROVE  \/ step' = "idle"
         \/ /\ UNCHANGED <<step, backup, acked>>
            /\ step # "idle" => /\ request'.replaced = request.replaced
                                /\ request'.opened = request.opened
                                /\ request'.version = request.version
            /\ \/ UNCHANGED fileVars
               \/ UNCHANGED file /\ survivors' = {file}
               \/ \E k \in Cockpit : ReplaceFile(form[k], k)
  <1>1. CASE Host
    BY <1>1 DEF Host, ServiceStart, Stop, Kill, PowerLoss, Writeback, ApiGone, apiVars, fileVars
  <1>2. CASE Clients
    <2>1. ASSUME NEW c \in Client, GiveUp(c)
          PROVE  /\ UNCHANGED <<fileVars, step, backup, acked>>
                 /\ step # "idle" => /\ request'.replaced = request.replaced
                                     /\ request'.opened = request.opened
                                     /\ request'.version = request.version
      BY <2>1 DEF GiveUp, StoreInv, ConfigTypeOK, Apply
    <2> QED
      BY <1>2, <2>1
         DEF Clients, Load, CloseEditor, SubmitForm, SubmitScript, Enqueue, apiVars, fileVars
  <1>3. CASE CockpitPages
    BY <1>3 DEF CockpitPages, ReadFile, ValidateCandidate, WriteBack, Abandon, apiVars, fileVars
  <1> QED
    BY <1>1, <1>2, <1>3

(* BackupInv is inductive.                                                 *)
LEMMA BackupStep == BackupInv /\ [Next]_vars => BackupInv'
  <1> SUFFICES ASSUME BackupInv, [Next]_vars PROVE BackupInv'
    OBVIOUS
  <1>0. StoreInv /\ StoreInv'
    BY StoreStep DEF BackupInv
  <1>1. CASE UNCHANGED vars
    BY <1>0, <1>1 DEF vars, fileVars, apiVars, BackupInv, IsSound, validates
  <1>2. CASE Host \/ Clients \/ CockpitPages
    <2>1. CASE step' = "idle"
      BY <1>0, <2>1 DEF BackupInv
    <2>2. CASE /\ UNCHANGED <<step, backup, acked>>
               /\ step # "idle" => /\ request'.replaced = request.replaced
                                   /\ request'.opened = request.opened
               /\ UNCHANGED file
      BY <1>0, <2>2 DEF BackupInv, IsSound, validates
    <2>3. ASSUME UNCHANGED <<step, backup, acked>>,
                 step # "idle" => /\ request'.replaced = request.replaced
                                  /\ request'.opened = request.opened,
                 NEW k \in Cockpit, ReplaceFile(form[k], k)
          PROVE  BackupInv'
      <3>1. /\ file'.version = file.version + 1 /\ file'.by = k
            /\ file.version \in Nat
        BY <1>0, <2>3 DEF ReplaceFile, StoreInv, ConfigTypeOK, Content
      <3>2. step \in {"copying", "replacing"} =>
              /\ request.opened \in Nat
              /\ file.version >= request.opened
        BY <1>0, <3>1 DEF BackupInv, StoreInv, ConfigTypeOK, Apply
      <3> QED
        BY <1>0, <2>3, <3>1, <3>2 DEF BackupInv, IsSound, validates
    <2> QED
      BY <1>0, <1>2, <2>1, <2>2, <2>3, OthersKeepApply DEF fileVars
  <1>3. ASSUME NEW whole \in BOOLEAN, NEW authorized \in BOOLEAN, AcceptApply(whole, authorized)
        PROVE  BackupInv'
    <2>1. CASE UNCHANGED <<request, step, backup>>
      BY <1>0, <1>3, <2>1 DEF AcceptApply, StoreInv, ConfigTypeOK, BackupInv, fileVars
    <2>2. CASE /\ step' = "copying" /\ request'.replaced = file
               /\ request'.opened = file.version /\ UNCHANGED file
      BY <1>0, <2>2 DEF BackupInv, StoreInv, StoredConfigIsSound, IsSound, validates
    <2> QED
      BY <1>3, <2>1, <2>2 DEF AcceptApply, replacedConfig, fileVars
  <1>4. CASE CopyBackup
    BY <1>0, <1>4 DEF CopyBackup, BackupInv, fileVars, IsSound, validates
  <1>5. CASE RenameOver \/ ApplyFails \/ \E synced \in BOOLEAN : FinishApply(synced)
    BY <1>0, <1>5 DEF RenameOver, ApplyFails, FinishApply, BackupInv
  <1> QED
    BY <1>1, <1>2, <1>3, <1>4, <1>5 DEF Next, ApiThread

(* At the rename the backup holds the file that is replaced; if a Cockpit  *)
(* page came in after the copy began, and only then, it holds the whole    *)
(* configuration of that moment.                                           *)
THEOREM BackupStaysTheReplaced == Spec => BackupIsTheReplaced
  <1>1. Init => BackupInv
    BY StoreInit DEF Init, BackupInv
  <1>2. ASSUME BackupInv, step = "replacing"
        PROVE  IF file.version = request.opened
               THEN backup = file
               ELSE /\ file.version > request.opened /\ file.by \in Cockpit
                    /\ backup # None /\ IsSound(backup)
                    /\ backup.version = request.opened
    <2>1. request.replaced \in Content /\ request.opened \in Nat /\ file.version \in Nat
      BY <1>2 DEF BackupInv, StoreInv, ConfigTypeOK, Apply, Content
    <2> QED
      BY <1>2, <2>1, ConfigAssumption DEF BackupInv, IsSound, validates
  <1>3. BackupInv /\ [Next]_vars =>
          [step = "replacing" /\ step' = "syncing" =>
             IF file.version = request.opened
             THEN backup = file
             ELSE /\ file.version > request.opened /\ file.by \in Cockpit
                  /\ backup # None /\ IsSound(backup)
                  /\ backup.version = request.opened]_vars
    BY <1>2
  <1> QED
    BY <1>1, <1>3, BackupStep, PTL DEF Spec, BackupIsTheReplaced

-----------------------------------------------------------------------------
(* What keeps an acknowledged apply: so does everything a loss of power    *)
(* may leave, and an apply is acknowledged once it is all that is left.    *)
DurableInv ==
  /\ StoreInv
  /\ AckedApplyIsKept
  /\ \A content \in survivors : content.version >= acked
  /\ step = "syncing" => request.version =< file.version

(* A later version is at least as new.                                     *)
LEMMA ReplaceIsNewer ==
  ASSUME DurableInv, NEW config, NEW s, ReplaceFile(config, s)
  PROVE  /\ file'.version = file.version + 1 /\ file'.version \in Nat
         /\ file'.version >= acked
         /\ \A content \in survivors' : content.version >= acked
  BY DEF ReplaceFile, survivorsAfterRename, DurableInv, AckedApplyIsKept,
         StoreInv, ConfigTypeOK, Content

(* DurableInv is inductive if the directory can be synced.                 *)
LEMMA DurableStep ==
  ASSUME "directory" \notin Faults, DurableInv, [Next]_vars
  PROVE  DurableInv'
  <1>0. StoreInv /\ StoreInv'
    BY StoreStep DEF DurableInv
  <1>1. /\ acked \in Nat /\ file.version \in Nat
        /\ \A content \in survivors : content.version \in Nat
        /\ step # "idle" => request.version \in Nat
    BY <1>0 DEF StoreInv, ConfigTypeOK, Content, Apply
  <1>2. CASE UNCHANGED vars
    BY <1>0, <1>2 DEF vars, fileVars, apiVars, DurableInv, AckedApplyIsKept
  <1>3. CASE PowerLoss
    BY <1>0, <1>3 DEF PowerLoss, ApiGone, DurableInv, AckedApplyIsKept
  <1>4. CASE Stop \/ Kill
    BY <1>0, <1>4 DEF Stop, Kill, ApiGone, DurableInv, AckedApplyIsKept, fileVars
  <1>5. CASE ServiceStart \/ Writeback \/ Clients \/ CockpitPages
    <2>1. /\ UNCHANGED <<step, acked>>
          /\ step # "idle" => request'.version = request.version
          /\ \/ UNCHANGED fileVars
             \/ UNCHANGED file /\ survivors' = {file}
             \/ \E k \in Cockpit : ReplaceFile(form[k], k)
      <3>1. CASE ServiceStart \/ Writeback
        BY <3>1 DEF ServiceStart, Writeback, apiVars
      <3>2. CASE Clients
        <4>1. ASSUME NEW c \in Client, GiveUp(c)
              PROVE  /\ UNCHANGED <<fileVars, step, acked>>
                     /\ step # "idle" => request'.version = request.version
          BY <1>0, <4>1 DEF GiveUp, StoreInv, ConfigTypeOK, Apply
        <4> QED
          BY <3>2, <4>1
             DEF Clients, Load, CloseEditor, SubmitForm, SubmitScript, Enqueue, apiVars, fileVars
      <3>3. CASE CockpitPages
        BY <3>3 DEF CockpitPages, ReadFile, ValidateCandidate, WriteBack, Abandon, apiVars, fileVars
      <3> QED
        BY <1>5, <3>1, <3>2, <3>3
    <2>2. CASE \/ UNCHANGED fileVars
               \/ UNCHANGED file /\ survivors' = {file}
      BY <1>0, <1>1, <2>1, <2>2 DEF DurableInv, AckedApplyIsKept, fileVars
    <2>3. ASSUME NEW k \in Cockpit, ReplaceFile(form[k], k)
          PROVE  DurableInv'
      <3>1. /\ file'.version = file.version + 1
            /\ file'.version >= acked
            /\ \A content \in survivors' : content.version >= acked
        BY <2>3, ReplaceIsNewer
      <3>2. step' = "syncing" => request'.version =< file'.version
        BY <1>1, <2>1, <3>1 DEF DurableInv
      <3> QED
        BY <1>0, <2>1, <3>1, <3>2 DEF DurableInv, AckedApplyIsKept
    <2>4. CASE \E k \in Cockpit : ReplaceFile(form[k], k)
      BY <2>3, <2>4
    <2> QED
      BY <2>1, <2>2, <2>4
  <1>6. ASSUME NEW whole \in BOOLEAN, NEW authorized \in BOOLEAN, AcceptApply(whole, authorized)
        PROVE  DurableInv'
    <2>1. UNCHANGED <<fileVars, acked>> /\ step' \in {"idle", "copying"}
      BY <1>0, <1>6 DEF AcceptApply, StoreInv, ConfigTypeOK
    <2> QED
      BY <1>0, <2>1 DEF DurableInv, AckedApplyIsKept, fileVars
  <1>7. CASE CopyBackup \/ ApplyFails
    BY <1>0, <1>7 DEF CopyBackup, ApplyFails, DurableInv, AckedApplyIsKept, fileVars
  <1>8. CASE RenameOver
    <2>1. /\ file'.version \in Nat /\ file'.version >= acked
          /\ \A content \in survivors' : content.version >= acked
      BY <1>8, ReplaceIsNewer DEF RenameOver
    <2>2. request'.version = file'.version
      BY <1>0, <1>8 DEF RenameOver, StoreInv, ConfigTypeOK, Apply
    <2> QED
      BY <1>0, <1>8, <2>1, <2>2 DEF RenameOver, DurableInv, AckedApplyIsKept
  <1>9. ASSUME NEW synced \in BOOLEAN, FinishApply(synced)
        PROVE  DurableInv'
    <2>1. survivors' = {file} /\ UNCHANGED file /\ step' = "idle"
      BY <1>9 DEF FinishApply, survivorsAfterSync
    <2>2. acked' \in {acked, request.version} /\ acked' =< file.version
      BY <1>1, <1>9 DEF FinishApply, DurableInv, AckedApplyIsKept
    <2> QED
      BY <1>0, <1>1, <2>1, <2>2 DEF DurableInv, AckedApplyIsKept
  <1> QED
    BY <1>2, <1>3, <1>4, <1>5, <1>6, <1>7, <1>8, <1>9 DEF Next, Host, ApiThread

(* If the directory can be synced, no crash and no loss of power brings    *)
(* back a configuration older than one a client was told is applied.       *)
THEOREM AckedApplyStaysKept ==
  ASSUME "directory" \notin Faults
  PROVE  Spec => []AckedApplyIsKept
  <1>1. Init => DurableInv
    BY StoreInit DEF Init, Installed, DurableInv, AckedApplyIsKept
  <1>2. DurableInv /\ [Next]_vars => DurableInv'
    BY DurableStep
  <1>3. DurableInv => AckedApplyIsKept
    BY DEF DurableInv
  <1> QED
    BY <1>1, <1>2, <1>3, PTL DEF Spec

-----------------------------------------------------------------------------
(* The texts of the file, as the register sees them.                       *)
Kept == {RegisterValue(content) : content \in survivors}

(* Replacing the file by a valid configuration is a write of the register. *)
LEMMA ReplaceIsWrite ==
  ASSUME DurableInv, NEW config \in Config, validates(config), NEW s,
         ReplaceFile(config, s), UNCHANGED acked
  PROVE  Register!Next
  <1>1. /\ config \in ValidConfig
        /\ RegisterValue(file') = Register!Labelled(config, RegisterValue(file).number + 1)
    BY DEF ReplaceFile, RegisterValue, ValidConfig, Register!Labelled
  <1>2. Kept' = Kept \cup {RegisterValue(file')}
    BY DEF ReplaceFile, survivorsAfterRename, Kept
  <1>3. Register!Write(config)
    BY <1>1, <1>2 DEF Register!Write, Kept
  <1> QED
    BY <1>1, <1>3 DEF Register!Next

(* A sync, or the kernel's own writeback, is a flush.                      *)
LEMMA SyncIsFlush ==
  ASSUME UNCHANGED file, survivors' = {file}, UNCHANGED acked
  PROVE  Register!Next
  BY DEF Register!Next, Register!Flush, RegisterValue

(* A step that changes neither the file nor a promise changes nothing of   *)
(* the register.                                                           *)
LEMMA OtherStepsStutter ==
  ASSUME UNCHANGED <<file, survivors, acked>>
  PROVE  UNCHANGED <<RegisterValue(file), {RegisterValue(content) : content \in survivors}, acked>>
  BY DEF RegisterValue

(* Every step of the host, its clients, the API thread or a page is a step *)
(* of the register or leaves it alone.                                     *)
LEMMA StepRefines ==
  ASSUME "directory" \notin Faults, DurableInv, [Next]_vars
  PROVE  [Register!Next]_<<RegisterValue(file),
                           {RegisterValue(content) : content \in survivors}, acked>>
  <1>0. /\ file \in Content /\ file.version \in Nat /\ acked \in Nat
        /\ StoreInv
    BY DEF DurableInv, StoreInv, ConfigTypeOK, Content
  <1>1. CASE UNCHANGED <<file, survivors, acked>>
    BY <1>1, OtherStepsStutter
  <1>2. CASE UNCHANGED file /\ survivors' = {file} /\ UNCHANGED acked
    BY <1>2, SyncIsFlush
  <1>3. CASE UNCHANGED vars \/ ServiceStart \/ Stop \/ Kill \/ Clients
    BY <1>1, <1>3
       DEF vars, fileVars, ServiceStart, Stop, Kill, Clients, Load, CloseEditor, SubmitForm,
           SubmitScript, Enqueue, GiveUp
  <1>4. CASE Writeback
    BY <1>2, <1>4 DEF Writeback
  <1>5. CASE PowerLoss
    <2>1. file' \in survivors /\ survivors' = {file'} /\ UNCHANGED acked
      BY <1>5 DEF PowerLoss
    <2>2. RegisterValue(file') \in Kept /\ Kept' = {RegisterValue(file')}
      BY <2>1 DEF Kept
    <2>3. Register!Crash
      BY <2>1, <2>2 DEF Register!Crash, Kept
    <2> QED
      BY <2>3 DEF Register!Next
  <1>6. ASSUME NEW k \in Cockpit,
               \/ \E setting \in Vip : ReadFile(k, setting)
               \/ ValidateCandidate(k) \/ WriteBack(k) \/ Abandon(k)
        PROVE  Register!Next \/ UNCHANGED <<file, survivors, acked>>
    <2>1. CASE WriteBack(k)
      <3>1. form[k] \in Config /\ validates(form[k])
        BY <1>0, <2>1 DEF WriteBack, StoreInv, ConfigTypeOK, Session
      <3> QED
        BY <2>1, <3>1, ReplaceIsWrite DEF WriteBack
    <2>2. CASE ~WriteBack(k)
      BY <1>6, <2>2 DEF ReadFile, ValidateCandidate, Abandon, fileVars
    <2> QED
      BY <2>1, <2>2
  <1>7. CASE CockpitPages
    BY <1>1, <1>6, <1>7 DEF CockpitPages
  <1>8. CASE (\E whole \in BOOLEAN, authorized \in BOOLEAN : AcceptApply(whole, authorized))
             \/ CopyBackup \/ ApplyFails
    BY <1>1, <1>8 DEF AcceptApply, CopyBackup, ApplyFails, fileVars
  <1>9. CASE RenameOver
    <2>1. request.config \in Config /\ validates(request.config)
      BY <1>0, <1>9 DEF RenameOver, StoreInv, ConfigTypeOK, Apply
    <2> QED
      BY <1>9, <2>1, ReplaceIsWrite DEF RenameOver
  <1>10. ASSUME NEW synced \in BOOLEAN, FinishApply(synced)
         PROVE  Register!Next
    <2>1. survivors' = {file} /\ UNCHANGED file
      BY <1>10 DEF FinishApply, survivorsAfterSync
    <2>2. CASE UNCHANGED acked
      BY <2>1, <2>2, SyncIsFlush
    <2>3. CASE acked' # acked
      <3>1. /\ acked' = request.version /\ acked < request.version
            /\ request.version =< file.version /\ request.version \in Nat
        BY <1>0, <1>10, <2>3 DEF FinishApply, DurableInv, StoreInv, ConfigTypeOK, Apply
      <3>2. acked' \in acked .. RegisterValue(file).number
        BY <1>0, <3>1 DEF RegisterValue
      <3>3. RegisterValue(file') = RegisterValue(file) /\ Kept' = {RegisterValue(file)}
        BY <2>1 DEF Kept
      <3>4. Register!Promise(acked')
        BY <3>2, <3>3 DEF Register!Promise, Kept
      <3> QED
        BY <3>2, <3>4 DEF Register!Next
    <2> QED
      BY <2>2, <2>3
  <1> QED
    BY <1>3, <1>4, <1>5, <1>7, <1>8, <1>9, <1>10 DEF Next, Host, ApiThread

(* If the directory can be synced, the file, with everyone who reads,      *)
(* writes or crashes, implements a durable register of valid               *)
(* configurations.                                                         *)
THEOREM FileStaysARegister ==
  ASSUME "directory" \notin Faults
  PROVE  Spec => FileIsARegister
  <1>1. Init => DurableInv
    BY StoreInit DEF Init, Installed, DurableInv, AckedApplyIsKept
  <1>2. DurableInv /\ [Next]_vars => DurableInv'
    BY DurableStep
  <1>3. Init => Register!Init
    BY DEF Init, Installed, Register!Init, Register!Labelled, RegisterValue
  <1>4. DurableInv /\ [Next]_vars =>
          [Register!Next]_<<RegisterValue(file),
                            {RegisterValue(content) : content \in survivors}, acked>>
    BY StepRefines
  <1> QED
    BY <1>1, <1>2, <1>3, <1>4, PTL DEF Spec, FileIsARegister, Register!Spec
=============================================================================
