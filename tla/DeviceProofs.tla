---------------------------- MODULE DeviceProofs ----------------------------
(***************************************************************************)
(* What PowerManager keeps true for any number of HTTP worker threads, any *)
(* brightness values and any length of the UI queue, and what the Wi-Fi    *)
(* setup does for any credentials, thresholds and number of disturbances;  *)
(* and what the event bus and AppCore's order of construction promise for  *)
(* any number of events published.                                         *)
(***************************************************************************)
EXTENDS PowerManager, WifiSetup, AppLifecycle, SequenceTheorems, TLAPS

-----------------------------------------------------------------------------
(* Type correctness *)

LEMMA TypeOKInit == Init => TypeOK
  <1> SUFFICES ASSUME Init PROVE TypeOK
    OBVIOUS
  <1>1. EnvironmentTypeOK
    BY Zenon DEF Init, EnvironmentTypeOK
  <1>2. TickTypeOK
    BY Zenon DEF Init, TickTypeOK
  <1>3. UploadTypeOK
    BY DEF Init, UploadTypeOK
  <1>4. QueueTypeOK
    BY PowerAssumption DEF Init, QueueTypeOK
  <1>5. ota_in_progress \in BOOLEAN /\ changed \in BOOLEAN
    BY Zenon DEF Init
  <1>6. ManagerTypeOK
    BY <1>5, PowerAssumption DEF Init, ManagerTypeOK, Clamp, PowerStates,
       kMinActiveBrightnessPercent
  <1> QED
    BY <1>1, <1>2, <1>3, <1>4, <1>5, <1>6 DEF TypeOK

\* What a step leaves alone keeps its type.
LEMMA Frame ==
    ASSUME TypeOK
    PROVE  /\ UNCHANGED <<reading, inactivity, sleep_veto>> =>
                  EnvironmentTypeOK'
           /\ UNCHANGED tickVars => TickTypeOK'
           /\ UNCHANGED uploadVars => UploadTypeOK'
           /\ UNCHANGED ui_queue => QueueTypeOK'
           /\ UNCHANGED managerVars => ManagerTypeOK'
  BY DEF TypeOK, EnvironmentTypeOK, TickTypeOK, UploadTypeOK, QueueTypeOK,
         ManagerTypeOK, tickVars, uploadVars, managerVars

LEMMA QuietTyped == Quiet => changed' \in BOOLEAN
  BY Zenon DEF Quiet

\* Posting an event keeps the queue's type and bound.
LEMMA PostTyped ==
    ASSUME TypeOK, NEW event \in Events, Post(event)
    PROVE  QueueTypeOK'
  BY PowerAssumption DEF TypeOK, QueueTypeOK, Post

LEMMA EventsTyped ==
    /\ Tick \in Events
    /\ \A b \in BOOLEAN : Ota(b) \in Events /\ Critical(b) \in Events
  <1>1. FALSE \in BOOLEAN
    OBVIOUS
  <1> QED
    BY <1>1 DEF Events, Tick, Ota, Critical

\* What the oldest event says.
LEMMA EventValue ==
    ASSUME NEW q \in Seq(Events), q # <<>>
    PROVE  Head(q).on \in BOOLEAN
  <1>1. Head(q) \in Events
    OBVIOUS
  <1>2. \A e \in Events : e.on \in BOOLEAN
    BY DEF Events
  <1> QED
    BY <1>1, <1>2, Zenon

LEMMA TypeOKEnvironment ==
    ASSUME TypeOK,
           BatteryChanges \/ UserTouches \/ TimePasses \/ RequestSleepVeto
    PROVE  TypeOK'
  <1>1. EnvironmentTypeOK'
    BY Zenon DEF BatteryChanges, UserTouches, TimePasses, RequestSleepVeto,
       TypeOK, EnvironmentTypeOK
  <1> QED
    BY <1>1, Frame, QuietTyped
       DEF BatteryChanges, UserTouches, TimePasses, RequestSleepVeto, TypeOK

LEMMA TypeOKTick ==
    ASSUME TypeOK, NEW t \in Tickers, TickStep(t)
    PROVE  TypeOK'
  <1>1. IsCritical \in BOOLEAN /\ bad[t] \in BOOLEAN
    BY Zenon DEF IsCritical, TypeOK, TickTypeOK
  <1>2. CASE TickEvaluate(t)
    BY <1>1, <1>2, Frame, QuietTyped DEF TickEvaluate, TypeOK, TickTypeOK
  <1>3. CASE TickCheck(t)
    <2>1. overlap' \in {"none", "last", "past"}
      BY <1>3 DEF TickCheck, Overlaps, TypeOK, TickTypeOK
    <2> QED
      BY <1>3, <2>1, Frame, QuietTyped DEF TickCheck, TypeOK, TickTypeOK
  <1>4. CASE TickSet(t)
    BY <1>1, <1>4, Frame, QuietTyped DEF TickSet, TypeOK, TickTypeOK
  <1>5. CASE TickPublish(t)
    <2>1. QueueTypeOK'
      BY <1>1, <1>5, PostTyped, EventsTyped DEF TickPublish
    <2> QED
      BY <1>5, <2>1, Frame, QuietTyped DEF TickPublish, TypeOK, TickTypeOK
  <1>6. CASE TickPost(t)
    <2>1. QueueTypeOK'
      BY <1>6, PostTyped, EventsTyped DEF TickPost
    <2> QED
      BY <1>6, <2>1, Frame, QuietTyped DEF TickPost, TypeOK, TickTypeOK
  <1> QED
    BY <1>2, <1>3, <1>4, <1>5, <1>6 DEF TickStep

LEMMA TypeOKUpload ==
    ASSUME TypeOK, NEW u \in Uploads, UploadStep(u)
    PROVE  TypeOK'
  <1>1. CASE UploadLock(u) \/ UploadGate(u) \/ UploadWrite(u)
             \/ UploadUnlock(u)
    <2>1. UploadTypeOK'
      BY <1>1 DEF UploadLock, UploadGate, UploadWrite, UploadUnlock, TypeOK,
                  UploadTypeOK
    <2> QED
      BY <1>1, <2>1, Frame, QuietTyped
         DEF UploadLock, UploadGate, UploadWrite, UploadUnlock, TypeOK
  <1>2. CASE UploadBegin(u)
    <2>1. UploadTypeOK'
      BY <1>2 DEF UploadBegin, TypeOK, UploadTypeOK
    <2>2. QueueTypeOK'
      BY <1>2, PostTyped, EventsTyped DEF UploadBegin
    <2> QED
      BY <1>2, <2>1, <2>2, Frame, QuietTyped DEF UploadBegin, TypeOK
  <1>3. CASE UploadEnd(u)
    <2>1. UploadTypeOK'
      BY <1>3 DEF UploadEnd, TypeOK, UploadTypeOK
    <2>2. QueueTypeOK'
      BY <1>3, PostTyped, EventsTyped DEF UploadEnd
    <2> QED
      BY <1>3, <2>1, <2>2, Frame, QuietTyped DEF UploadEnd, TypeOK
  <1> QED
    BY <1>1, <1>2, <1>3 DEF UploadStep

\* A handler that changes the state sets a brightness between off and full.
LEMMA TransitionTyped ==
    ASSUME TypeOK, NEW s \in PowerStates, TransitionTo(s)
    PROVE  state' \in PowerStates /\ display' \in 0..100 /\ changed' \in BOOLEAN
  <1>1. changed' \in BOOLEAN
    BY Zenon DEF TransitionTo
  <1> QED
    BY <1>1 DEF TypeOK, ManagerTypeOK, TransitionTo, BrightnessOf,
       kMinActiveBrightnessPercent, kDimBrightnessPercent,
       kSleepBrightnessPercent

LEMMA StayTyped ==
    ASSUME TypeOK, Stay
    PROVE  state' \in PowerStates /\ display' \in 0..100 /\ changed' \in BOOLEAN
  BY QuietTyped DEF TypeOK, ManagerTypeOK, Stay

LEMMA TypeOKDrain ==
    ASSUME TypeOK, DrainQueue
    PROVE  TypeOK'
  <1> DEFINE event == Head(ui_queue)
  <1>1. ui_queue \in Seq(Events) /\ ui_queue # <<>>
    BY DEF TypeOK, QueueTypeOK, DrainQueue
  <1>2. event.on \in BOOLEAN
    <2>1. event \in Events
      BY <1>1
    <2>2. \A e \in Events : e.on \in BOOLEAN
      BY DEF Events
    <2> QED
      BY <2>1, <2>2, Zenon
  <1>3. QueueTypeOK'
    BY <1>1, PowerAssumption DEF TypeOK, QueueTypeOK, DrainQueue
  <1>4. /\ state' \in PowerStates /\ display' \in 0..100
        /\ changed' \in BOOLEAN /\ ota_in_progress' \in BOOLEAN
    <2>1. CASE OnTick
      BY <2>1, TransitionTyped, StayTyped
         DEF OnTick, TypeOK, ManagerTypeOK, PowerStates
    <2>2. CASE OnOtaUpdateStateChanged(event.on)
      BY <1>2, <2>2, TransitionTyped, StayTyped
         DEF OnOtaUpdateStateChanged, RestingState, PowerStates
    <2>3. CASE OnCriticalBatteryStateChanged(event.on)
      BY <2>3, TransitionTyped, StayTyped
         DEF OnCriticalBatteryStateChanged, RecoveredState, TypeOK,
             ManagerTypeOK, PowerStates
    <2> QED
      BY <2>1, <2>2, <2>3 DEF DrainQueue
  <1>5. ManagerTypeOK'
    BY <1>4 DEF TypeOK, ManagerTypeOK, DrainQueue
  <1> QED
    BY <1>3, <1>4, <1>5, Frame DEF TypeOK, DrainQueue

LEMMA TypeOKBrightness ==
    ASSUME TypeOK, NEW percent \in Percents,
           SetActiveBrightnessPercent(percent)
    PROVE  TypeOK'
  <1>1. Clamp(percent) \in 5..100
    BY PowerAssumption DEF Clamp, kMinActiveBrightnessPercent
  <1>2. ManagerTypeOK'
    BY <1>1 DEF SetActiveBrightnessPercent, TypeOK, ManagerTypeOK,
                kMinActiveBrightnessPercent
  <1> QED
    BY <1>2, Frame, QuietTyped DEF SetActiveBrightnessPercent, TypeOK

LEMMA TypeOKStep == TypeOK /\ [Next]_vars => TypeOK'
  <1> SUFFICES ASSUME TypeOK, [Next]_vars PROVE TypeOK'
    OBVIOUS
  <1>1. CASE UNCHANGED vars
    BY <1>1, Frame DEF vars, TypeOK
  <1> QED
    BY <1>1, TypeOKEnvironment, TypeOKTick, TypeOKUpload, TypeOKDrain,
       TypeOKBrightness DEF Next

\* Every variable of the power model stays in its type.
THEOREM TypeCorrect == Spec => []TypeOK
  BY TypeOKInit, TypeOKStep, PTL DEF Spec

-----------------------------------------------------------------------------
(* What posting and handling an event do to the value a queue settles on.  *)

\* Posting an event of the kind makes its value the last word.
LEMMA PostSettles ==
    ASSUME NEW q \in Seq(Events), NEW e \in Events, NEW now
    PROVE  Settles(Append(q, e), e.kind, now, e.on)
  <1> DEFINE r == Append(q, e)
             n == Len(q) + 1
  <1>1. Len(r) = n /\ r[n] = e /\ n \in 1..Len(r)
    OBVIOUS
  <1>2. n \in Places(r, e.kind) /\ \A i \in Places(r, e.kind) : i <= n
    BY <1>1 DEF Places
  <1>3. \A i \in Places(r, e.kind) :
           (\A j \in Places(r, e.kind) : j <= i) => i = n
    BY <1>1, <1>2 DEF Places
  <1> QED
    BY <1>1, <1>2, <1>3 DEF Settles

\* Posting an event of another kind changes nothing.
LEMMA PostOtherSettles ==
    ASSUME NEW q \in Seq(Events), NEW e \in Events, NEW kind, NEW now,
           NEW value, e.kind # kind, Settles(q, kind, now, value)
    PROVE  Settles(Append(q, e), kind, now, value)
  <1> DEFINE r == Append(q, e)
  <1>1. Len(r) = Len(q) + 1 /\ r[Len(q) + 1] = e
        /\ \A i \in 1..Len(q) : r[i] = q[i]
    OBVIOUS
  <1>2. Places(r, kind) = Places(q, kind)
    BY <1>1 DEF Places
  <1>3. \A i \in Places(q, kind) : r[i] = q[i]
    BY <1>1 DEF Places
  <1> QED
    BY <1>2, <1>3 DEF Settles

\* The places of the tail are the later places of the queue, moved up by one.
LEMMA TailPlaces ==
    ASSUME NEW q \in Seq(Events), q # <<>>, NEW kind
    PROVE  /\ \A i \in Places(Tail(q), kind) :
                 i + 1 \in Places(q, kind) /\ Tail(q)[i] = q[i + 1]
           /\ \A i \in Places(q, kind) :
                 i = 1 \/ (i - 1 \in Places(Tail(q), kind) /\ i > 1)
           /\ 1 \in Places(q, kind) <=> Head(q).kind = kind
           /\ Places(q, kind) \subseteq Nat /\ Places(Tail(q), kind) \subseteq Nat
  <1>1. Len(Tail(q)) = Len(q) - 1 /\ Len(q) >= 1 /\ Head(q) = q[1]
    OBVIOUS
  <1>2. \A i \in 1..Len(Tail(q)) : Tail(q)[i] = q[i + 1]
    OBVIOUS
  <1> QED
    BY <1>1, <1>2 DEF Places

\* The last event of a kind stays the last when the head is handled.
LEMMA LastPlace ==
    ASSUME NEW q \in Seq(Events), q # <<>>, NEW kind,
           NEW i \in Places(Tail(q), kind),
           \A j \in Places(Tail(q), kind) : j <= i
    PROVE  /\ Tail(q)[i] = q[i + 1] /\ i + 1 \in Places(q, kind)
           /\ \A j \in Places(q, kind) : j <= i + 1
  <1>1. Tail(q)[i] = q[i + 1] /\ i + 1 \in Places(q, kind) /\ i \in Nat
    BY TailPlaces, ZenonT(40)
  <1>2. ASSUME NEW j \in Places(q, kind) PROVE j <= i + 1
    <2>1. j \in Nat /\ (j = 1 \/ (j - 1 \in Places(Tail(q), kind) /\ j > 1))
      BY TailPlaces
    <2>2. j - 1 \in Places(Tail(q), kind) => j - 1 <= i
      OBVIOUS
    <2> QED
      BY <1>1, <2>1, <2>2
  <1> QED
    BY <1>1, <1>2

\* Handling an event of another kind changes nothing.
LEMMA TailOtherSettles ==
    ASSUME NEW q \in Seq(Events), q # <<>>, NEW kind, NEW now, NEW value,
           Head(q).kind # kind, Settles(q, kind, now, value)
    PROVE  Settles(Tail(q), kind, now, value)
  <1>1. Places(Tail(q), kind) = {} => Places(q, kind) = {}
    BY TailPlaces
  <1>2. ASSUME NEW i \in Places(Tail(q), kind),
               \A j \in Places(Tail(q), kind) : j <= i
        PROVE  Tail(q)[i] = q[i + 1] /\ i + 1 \in Places(q, kind)
               /\ \A j \in Places(q, kind) : j <= i + 1
    BY <1>2, LastPlace
  <1> QED
    BY <1>1, <1>2 DEF Settles

\* Handling an event of the kind sets the flag to what the event says.
LEMMA TailSettles ==
    ASSUME NEW q \in Seq(Events), q # <<>>, NEW now, NEW value,
           Settles(q, Head(q).kind, now, value)
    PROVE  Settles(Tail(q), Head(q).kind, Head(q).on, value)
  <1> DEFINE kind == Head(q).kind
  <1>1. 1 \in Places(q, kind) /\ q[1] = Head(q)
    BY TailPlaces
  <1>2. ASSUME Places(Tail(q), kind) = {}
        PROVE  \A i \in Places(q, kind) : i <= 1
    BY <1>2, TailPlaces
  <1>3. Places(Tail(q), kind) = {} => Head(q).on = value
    BY <1>1, <1>2 DEF Settles
  <1>4. ASSUME NEW i \in Places(Tail(q), kind),
               \A j \in Places(Tail(q), kind) : j <= i
        PROVE  Tail(q)[i] = q[i + 1] /\ i + 1 \in Places(q, kind)
               /\ \A j \in Places(q, kind) : j <= i + 1
    BY <1>4, LastPlace
  <1> QED
    BY <1>3, <1>4 DEF Settles

-----------------------------------------------------------------------------
(* A firmware write and kUpdating *)

\* What makes UpdatingMirrorsUpload inductive: only the holder of the upload
\* mutex is past try_lock, so a write's two events are never interleaved
\* with another write's.
UploadInv ==
    /\ UpdatingMirrorsUpload
    /\ \A u \in Uploads : upload[u] # "idle" => upload_mutex = u

LEMMA UploadInvInit == Init => UploadInv
  <1> SUFFICES ASSUME Init PROVE UploadInv
    OBVIOUS
  <1>1. Places(ui_queue, "ota") = {}
    BY DEF Init, Places
  <1>2. Writing = FALSE
    BY DEF Init, Writing
  <1>3. Settles(ui_queue, "ota", ota_in_progress, Writing)
    BY <1>1, <1>2, Zenon DEF Init, Settles
  <1> QED
    BY <1>3 DEF Init, UploadInv, UpdatingMirrorsUpload

\* Steps that leave the upload handlers and the state alone, and post at most
\* an event of another kind.
LEMMA UploadInvFrame ==
    ASSUME TypeOK, UploadInv, UNCHANGED <<uploadVars, state, ota_in_progress>>,
           UNCHANGED ui_queue \/ \E e \in Events : e.kind # "ota" /\ Post(e)
    PROVE  UploadInv'
  <1>1. Writing' = Writing
    BY DEF Writing, uploadVars
  <1>2. Settles(ui_queue', "ota", ota_in_progress, Writing)
    <2>1. CASE UNCHANGED ui_queue
      BY <2>1 DEF UploadInv, UpdatingMirrorsUpload
    <2>2. ASSUME NEW e \in Events, e.kind # "ota", Post(e)
          PROVE  Settles(ui_queue', "ota", ota_in_progress, Writing)
      BY <2>2, PostOtherSettles DEF UploadInv, UpdatingMirrorsUpload, Post,
         TypeOK, QueueTypeOK
    <2> QED
      BY <2>1, <2>2
  <1> QED
    BY <1>1, <1>2 DEF UploadInv, UpdatingMirrorsUpload, uploadVars

LEMMA UploadInvUpload ==
    ASSUME TypeOK, UploadInv, NEW u \in Uploads, UploadStep(u)
    PROVE  UploadInv'
  <1> USE DEF UploadInv, UpdatingMirrorsUpload
  <1>1. /\ upload \in [Uploads ->
                     {"idle", "gate", "begin", "write", "end", "unlock"}]
        /\ ui_queue \in Seq(Events)
    BY DEF TypeOK, UploadTypeOK, QueueTypeOK
  <1>2. CASE UploadLock(u) \/ UploadGate(u) \/ UploadWrite(u)
    <2>1. Writing' = Writing
      BY <1>1, <1>2 DEF UploadLock, UploadGate, UploadWrite, Writing
    <2>2. \A v \in Uploads : upload'[v] # "idle" => upload_mutex' = v
      BY <1>1, <1>2, PowerAssumption DEF UploadLock, UploadGate, UploadWrite
    <2> QED
      BY <1>2, <2>1, <2>2
         DEF UploadLock, UploadGate, UploadWrite, managerVars
  <1>3. CASE UploadUnlock(u)
    <2>1. Writing' = Writing
      BY <1>1, <1>3 DEF UploadUnlock, Writing
    <2>2. \A v \in Uploads : upload'[v] # "idle" => upload_mutex' = v
      BY <1>1, <1>3 DEF UploadUnlock
    <2> QED
      BY <1>3, <2>1, <2>2 DEF UploadUnlock, managerVars
  <1>4. CASE UploadBegin(u)
    <2>1. Writing' = TRUE
      BY <1>1, <1>4 DEF UploadBegin, Writing
    <2>2. Ota(TRUE).kind = "ota" /\ Ota(TRUE).on = TRUE
      BY DEF Ota
    <2>3. Settles(Append(ui_queue, Ota(TRUE)), "ota", ota_in_progress, TRUE)
      BY <1>1, <2>2, PostSettles, EventsTyped, ZenonT(40)
    <2>4. \A v \in Uploads : upload'[v] # "idle" => upload_mutex' = v
      BY <1>1, <1>4 DEF UploadBegin
    <2> QED
      BY <1>4, <2>1, <2>3, <2>4 DEF UploadBegin, Post, managerVars
  <1>5. CASE UploadEnd(u)
    <2>1. Writing' = FALSE
      BY <1>1, <1>5 DEF UploadEnd, Writing
    <2>2. Ota(FALSE).kind = "ota" /\ Ota(FALSE).on = FALSE
      BY DEF Ota
    <2>3. Settles(Append(ui_queue, Ota(FALSE)), "ota", ota_in_progress, FALSE)
      BY <1>1, <2>2, PostSettles, EventsTyped, Zenon
    <2>4. \A v \in Uploads : upload'[v] # "idle" => upload_mutex' = v
      BY <1>1, <1>5 DEF UploadEnd
    <2> QED
      BY <1>5, <2>1, <2>3, <2>4 DEF UploadEnd, Post, managerVars
  <1> QED
    BY <1>2, <1>3, <1>4, <1>5 DEF UploadStep

LEMMA UploadInvDrain ==
    ASSUME TypeOK, UploadInv, DrainQueue
    PROVE  UploadInv'
  <1> DEFINE event == Head(ui_queue)
  <1>1. ui_queue \in Seq(Events) /\ ui_queue # <<>>
        /\ ui_queue' = Tail(ui_queue)
    BY DEF TypeOK, QueueTypeOK, DrainQueue
  <1>2. Writing' = Writing
        /\ \A u \in Uploads : upload'[u] # "idle" => upload_mutex' = u
    BY DEF DrainQueue, Writing, uploadVars, UploadInv
  <1>3. Settles(ui_queue, "ota", ota_in_progress, Writing)
        /\ (state # "kError" => (state = "kUpdating" <=> ota_in_progress))
    BY DEF UploadInv, UpdatingMirrorsUpload
  <1>4. CASE event.kind = "tick" /\ OnTick
    <2>1. Settles(ui_queue', "ota", ota_in_progress', Writing)
      BY <1>1, <1>3, <1>4, TailOtherSettles DEF OnTick
    <2>2. state' # "kError" => (state' = "kUpdating" <=> ota_in_progress')
      BY <1>3, <1>4 DEF OnTick, TransitionTo, Stay
    <2> QED
      BY <1>2, <2>1, <2>2 DEF UploadInv, UpdatingMirrorsUpload
  <1>5. CASE event.kind = "ota" /\ OnOtaUpdateStateChanged(event.on)
    <2>1. Settles(ui_queue', "ota", ota_in_progress', Writing)
      BY <1>1, <1>3, <1>5, TailSettles DEF OnOtaUpdateStateChanged
    <2>2. state' # "kError" => (state' = "kUpdating" <=> ota_in_progress')
      BY <1>5 DEF OnOtaUpdateStateChanged, TransitionTo, Stay, RestingState
    <2> QED
      BY <1>2, <2>1, <2>2 DEF UploadInv, UpdatingMirrorsUpload
  <1>6. CASE event.kind = "critical" /\ OnCriticalBatteryStateChanged(event.on)
    <2>1. Settles(ui_queue', "ota", ota_in_progress', Writing)
      BY <1>1, <1>3, <1>6, TailOtherSettles DEF OnCriticalBatteryStateChanged
    <2>2. state' # "kError" => (state' = "kUpdating" <=> ota_in_progress')
      BY <1>3, <1>6 DEF OnCriticalBatteryStateChanged, TransitionTo, Stay,
                        RecoveredState
    <2> QED
      BY <1>2, <2>1, <2>2 DEF UploadInv, UpdatingMirrorsUpload
  <1> QED
    BY <1>4, <1>5, <1>6 DEF DrainQueue

LEMMA UploadInvStep ==
    ASSUME TypeOK, UploadInv, [Next]_vars
    PROVE  UploadInv'
  <1>1. CASE \/ UNCHANGED vars
             \/ BatteryChanges \/ UserTouches \/ TimePasses
             \/ RequestSleepVeto
             \/ \E percent \in Percents : SetActiveBrightnessPercent(percent)
    BY <1>1, UploadInvFrame
       DEF vars, managerVars, BatteryChanges, UserTouches, TimePasses,
           RequestSleepVeto, SetActiveBrightnessPercent
  <1>2. ASSUME NEW t \in Tickers, TickStep(t) PROVE UploadInv'
    <2>1. bad[t] \in BOOLEAN
      BY DEF TypeOK, TickTypeOK
    <2>2. Tick.kind # "ota" /\ \A b \in BOOLEAN : Critical(b).kind # "ota"
      BY DEF Tick, Critical
    <2>3. UNCHANGED ui_queue \/ \E e \in Events : e.kind # "ota" /\ Post(e)
      BY <1>2, <2>1, <2>2, EventsTyped, Zenon
         DEF TickStep, TickEvaluate, TickCheck, TickSet, TickPublish,
             TickPost
    <2> QED
      BY <1>2, <2>3, UploadInvFrame
         DEF TickStep, TickEvaluate, TickCheck, TickSet, TickPublish,
             TickPost, managerVars
  <1> QED
    BY <1>1, <1>2, UploadInvUpload, UploadInvDrain DEF Next

\* While an image is written the events under way keep PowerManager in
\* kUpdating, or in kError, whatever ticks, battery edges and other uploads
\* interleave.
THEOREM UpdatingMirrorsUploadHolds == Spec => []UpdatingMirrorsUpload
  <1>1. TypeOK /\ UploadInv /\ [Next]_vars => UploadInv'
    BY UploadInvStep
  <1>2. UploadInv => UpdatingMirrorsUpload
    BY DEF UploadInv
  <1> QED
    BY <1>1, <1>2, UploadInvInit, TypeCorrect, PTL DEF Spec

-----------------------------------------------------------------------------
(* The battery latch and kError *)

\* Some thread has set the latch and is about to post its edge.
Publishing == \E t \in Tickers : ticker[t] = "publish"

\* The value of the edge posted last: the latch, unless it was set and its
\* edge is about to be posted.
LastEdge == IF Publishing THEN ~already_bad ELSE already_bad

\* What makes ErrorMirrorsBattery inductive.  Unless the last edge found
\* overlapped another, one thread at most is on an edge, what it is about to
\* post is the latch, and when none is the queue settles on the latch.
LatchInv ==
    /\ \A t, o \in Tickers : OnEdge(t) /\ OnEdge(o) => t = o
    /\ \A t \in Tickers : ticker[t] = "publish" => bad[t] = already_bad
    /\ (\A t \in Tickers : ~OnEdge(t)) =>
           Settles(ui_queue, "critical", state = "kError", already_bad)

\* Until two edges overlap, the queue settles on the last edge also while a
\* thread is on one, and that edge differs from it.
EdgeInv ==
    /\ Settles(ui_queue, "critical", state = "kError", LastEdge)
    /\ \A t \in Tickers : ticker[t] = "set" => bad[t] # already_bad

BatteryInv ==
    /\ overlap # "last" => LatchInv
    /\ overlap = "none" => EdgeInv

LEMMA BatteryInvInit == Init => BatteryInv
  <1> SUFFICES ASSUME Init PROVE BatteryInv
    OBVIOUS
  <1>1. Places(ui_queue, "critical") = {} /\ \A t \in Tickers : ticker[t] = "idle"
    BY DEF Init, Places
  <1>2. (state = "kError") = FALSE /\ already_bad = FALSE
    BY DEF Init
  <1>3. Settles(ui_queue, "critical", state = "kError", already_bad)
    BY <1>1, <1>2, Zenon DEF Settles
  <1>4. LastEdge = already_bad
    BY <1>1 DEF LastEdge, Publishing
  <1> QED
    BY <1>1, <1>3, <1>4 DEF BatteryInv, LatchInv, EdgeInv, OnEdge

\* Steps that leave the threads' places, the latch and the state alone, keep
\* the local of a thread that is on an edge, and post at most an event of
\* another kind.
LEMMA BatteryInvFrame ==
    ASSUME TypeOK, BatteryInv, UNCHANGED <<already_bad, overlap, state>>,
           \A t \in Tickers :
               \/ ticker'[t] = ticker[t] /\ bad'[t] = bad[t]
               \/ ~OnEdge(t) /\ ~OnEdge(t)',
           UNCHANGED ui_queue \/ \E e \in Events : e.kind # "critical" /\ Post(e)
    PROVE  BatteryInv'
  <1>1. ASSUME NEW value, Settles(ui_queue, "critical", state = "kError", value)
        PROVE  Settles(ui_queue', "critical", state = "kError", value)
    <2>1. CASE UNCHANGED ui_queue
      BY <1>1, <2>1
    <2>2. ASSUME NEW e \in Events, e.kind # "critical", Post(e)
          PROVE  Settles(ui_queue', "critical", state = "kError", value)
      BY <1>1, <2>2, PostOtherSettles DEF Post, TypeOK, QueueTypeOK
    <2> QED
      BY <2>1, <2>2
  <1>2. \A t \in Tickers : /\ OnEdge(t)' <=> OnEdge(t)
                           /\ OnEdge(t) => ticker'[t] = ticker[t] /\ bad'[t] = bad[t]
    BY DEF OnEdge
  <1>3. \A t \in Tickers : \A pc \in {"set", "publish"} :
            ticker'[t] = pc <=> ticker[t] = pc
    BY <1>2 DEF OnEdge
  <1>4. LastEdge' = LastEdge
    BY <1>3 DEF LastEdge, Publishing
  <1>5. ASSUME LatchInv PROVE LatchInv'
    BY <1>1, <1>2, <1>3, <1>5 DEF LatchInv, OnEdge
  <1>6. ASSUME EdgeInv PROVE EdgeInv'
    <2>1. Settles(ui_queue', "critical", state = "kError", LastEdge)
      BY <1>1, <1>6 DEF EdgeInv
    <2> QED
      BY <1>2, <1>3, <1>4, <1>6, <2>1 DEF EdgeInv, OnEdge
  <1> QED
    BY <1>5, <1>6 DEF BatteryInv

LEMMA BatteryInvTick ==
    ASSUME TypeOK, BatteryInv, NEW t \in Tickers, TickStep(t)
    PROVE  BatteryInv'
  <1>1. /\ ticker \in [Tickers ->
                     {"idle", "check", "set", "publish", "post", "done"}]
        /\ bad \in [Tickers -> BOOLEAN]
        /\ ui_queue \in Seq(Events) /\ already_bad \in BOOLEAN
    BY DEF TypeOK, TickTypeOK, QueueTypeOK
  <1>2. CASE TickEvaluate(t)
    <2>1. \A o \in Tickers : \/ ticker'[o] = ticker[o] /\ bad'[o] = bad[o]
                             \/ ~OnEdge(o) /\ ~OnEdge(o)'
      BY <1>1, <1>2 DEF TickEvaluate, OnEdge
    <2> QED
      BY <1>2, <2>1, BatteryInvFrame DEF TickEvaluate, managerVars
  <1>3. CASE TickCheck(t) /\ bad[t] = already_bad
    <2>1. \A o \in Tickers : \/ ticker'[o] = ticker[o] /\ bad'[o] = bad[o]
                             \/ ~OnEdge(o) /\ ~OnEdge(o)'
      BY <1>1, <1>3 DEF TickCheck, OnEdge
    <2> QED
      BY <1>3, <2>1, BatteryInvFrame DEF TickCheck, managerVars
  <1>4. CASE TickCheck(t) /\ bad[t] # already_bad
    <2>1. /\ ticker'[t] = "set" /\ ~OnEdge(t)
          /\ \A o \in Tickers \ {t} : ticker'[o] = ticker[o]
          /\ UNCHANGED <<already_bad, bad, ui_queue, state>>
          /\ overlap' = Overlaps(t)
      BY <1>1, <1>4 DEF TickCheck, managerVars, OnEdge
    <2>2. ASSUME overlap' # "last"
          PROVE  /\ \A o \in Tickers : ~OnEdge(o)
                 /\ \A o \in Tickers \ {t} : ~OnEdge(o)'
      BY <2>1, <2>2 DEF Overlaps, OnEdge
    <2>3. ASSUME overlap' # "last" PROVE LatchInv'
      BY <2>1, <2>2, <2>3 DEF LatchInv, OnEdge
    <2>4. ASSUME overlap' = "none" PROVE EdgeInv'
      <3>1. overlap = "none" /\ overlap' # "last"
        BY <2>1, <2>4 DEF Overlaps
      <3>2. LastEdge = already_bad /\ LastEdge' = already_bad
        BY <2>1, <2>2, <3>1 DEF LastEdge, Publishing, OnEdge
      <3>3. \A o \in Tickers : ticker'[o] = "set" => bad'[o] # already_bad'
        BY <1>4, <2>1, <2>2, <3>1 DEF OnEdge
      <3> QED
        BY <2>1, <3>1, <3>2, <3>3 DEF BatteryInv, EdgeInv
    <2> QED
      BY <2>3, <2>4 DEF BatteryInv
  <1>5. CASE TickSet(t)
    <2>1. /\ ticker[t] = "set" /\ ticker'[t] = "publish" /\ already_bad' = bad[t]
          /\ \A o \in Tickers \ {t} : ticker'[o] = ticker[o]
          /\ UNCHANGED <<bad, ui_queue, state, overlap>> /\ OnEdge(t)
      BY <1>1, <1>5 DEF TickSet, managerVars, OnEdge
    <2>2. ASSUME overlap # "last" PROVE \A o \in Tickers \ {t} : ~OnEdge(o)
      BY <2>1, <2>2 DEF BatteryInv, LatchInv
    <2>3. ASSUME overlap # "last" PROVE LatchInv'
      BY <2>1, <2>2, <2>3 DEF LatchInv, OnEdge
    <2>4. ASSUME overlap = "none" PROVE EdgeInv'
      <3>1. bad[t] \in BOOLEAN /\ bad[t] # already_bad
        BY <1>1, <2>1, <2>4 DEF BatteryInv, EdgeInv
      <3>2. bad[t] = ~already_bad
        BY <1>1, <3>1
      <3>3. ~Publishing /\ Publishing'
        BY <2>1, <2>2, <2>4 DEF Publishing, OnEdge
      <3>4. LastEdge = already_bad /\ LastEdge' = already_bad
        BY <1>1, <2>1, <3>2, <3>3 DEF LastEdge
      <3>5. \A o \in Tickers : ticker'[o] # "set"
        BY <2>1, <2>2, <2>4 DEF OnEdge
      <3> QED
        BY <2>1, <2>4, <3>4, <3>5 DEF BatteryInv, EdgeInv
    <2> QED
      BY <2>1, <2>3, <2>4 DEF BatteryInv
  <1>6. CASE TickPublish(t)
    <2> DEFINE e == Critical(bad[t])
    <2>1. e.kind = "critical" /\ e.on = bad[t] /\ e \in Events
      BY <1>1, EventsTyped DEF Critical
    <2>2. Settles(Append(ui_queue, e), "critical", state = "kError", bad[t])
      <3> HIDE DEF e
      <3> QED
        BY <1>1, <2>1, PostSettles
    <2>3. /\ ui_queue' = Append(ui_queue, e)
          /\ UNCHANGED <<state, already_bad, bad, overlap>>
          /\ ticker[t] = "publish" /\ OnEdge(t) /\ ~OnEdge(t)'
          /\ \A o \in Tickers \ {t} : ticker'[o] = ticker[o]
      BY <1>1, <1>6 DEF TickPublish, Post, managerVars, OnEdge
    <2> HIDE DEF e
    <2>4. ASSUME overlap # "last"
          PROVE  /\ bad[t] = already_bad
                 /\ \A o \in Tickers \ {t} : ~OnEdge(o)
      BY <2>3, <2>4 DEF BatteryInv, LatchInv
    <2>5. ASSUME overlap # "last" PROVE \A o \in Tickers : ~OnEdge(o)'
      BY <2>3, <2>4, <2>5 DEF OnEdge
    <2>6. ASSUME overlap # "last"
          PROVE  Settles(ui_queue', "critical", state' = "kError", already_bad')
      BY <2>2, <2>3, <2>4, <2>6
    <2>7. ASSUME overlap # "last" PROVE LatchInv'
      BY <2>5, <2>6, <2>7 DEF LatchInv, OnEdge
    <2>8. ASSUME overlap = "none" PROVE EdgeInv'
      <3>1. LastEdge' = already_bad'
        BY <2>5, <2>8 DEF LastEdge, Publishing, OnEdge
      <3> QED
        BY <2>5, <2>6, <2>8, <3>1 DEF EdgeInv, OnEdge
    <2> QED
      BY <2>3, <2>7, <2>8 DEF BatteryInv
  <1>7. CASE TickPost(t)
    <2>1. \A o \in Tickers : \/ ticker'[o] = ticker[o] /\ bad'[o] = bad[o]
                             \/ ~OnEdge(o) /\ ~OnEdge(o)'
      BY <1>1, <1>7 DEF TickPost, OnEdge
    <2>2. \E e \in Events : e.kind # "critical" /\ Post(e)
      BY <1>7, EventsTyped DEF TickPost, Tick
    <2> QED
      BY <1>7, <2>1, <2>2, BatteryInvFrame DEF TickPost, managerVars
  <1> QED
    BY <1>2, <1>3, <1>4, <1>5, <1>6, <1>7 DEF TickStep

LEMMA BatteryInvDrain ==
    ASSUME TypeOK, BatteryInv, DrainQueue
    PROVE  BatteryInv'
  <1> DEFINE event == Head(ui_queue)
             now == state = "kError"
  <1>1. ui_queue \in Seq(Events) /\ ui_queue # <<>>
        /\ ui_queue' = Tail(ui_queue)
    BY DEF TypeOK, QueueTypeOK, DrainQueue
  <1>2. UNCHANGED <<ticker, bad, already_bad, overlap>> /\ LastEdge' = LastEdge
    BY DEF DrainQueue, tickVars, LastEdge, Publishing
  <1>3. ASSUME NEW value, Settles(ui_queue, "critical", now, value)
        PROVE  Settles(ui_queue', "critical", now', value)
    <2>1. CASE event.kind # "critical"
      <3>1. now' = now
        BY <2>1 DEF DrainQueue, OnTick, OnOtaUpdateStateChanged,
           TransitionTo, Stay, RestingState
      <3> QED
        BY <1>1, <1>3, <2>1, <3>1, TailOtherSettles
    <2>2. CASE event.kind = "critical"
      <3>1. event.on \in BOOLEAN
        BY <1>1, EventValue
      <3>2. now' = event.on
        BY <2>2, <3>1 DEF DrainQueue, OnCriticalBatteryStateChanged,
           TransitionTo, Stay, RecoveredState
      <3>3. Settles(Tail(ui_queue), "critical", event.on, value)
        BY <1>1, <1>3, <2>2, TailSettles
      <3> QED
        BY <1>1, <3>2, <3>3
    <2> QED
      BY <2>1, <2>2
  <1>4. LatchInv => LatchInv'
    BY <1>2, <1>3 DEF LatchInv, OnEdge
  <1>5. EdgeInv => EdgeInv'
    BY <1>2, <1>3 DEF EdgeInv
  <1> QED
    BY <1>2, <1>4, <1>5 DEF BatteryInv

LEMMA BatteryInvStep ==
    ASSUME TypeOK, BatteryInv, [Next]_vars
    PROVE  BatteryInv'
  <1>1. UNCHANGED tickVars => /\ UNCHANGED <<already_bad, overlap>>
                              /\ \A t \in Tickers : ticker'[t] = ticker[t] /\ bad'[t] = bad[t]
    BY DEF tickVars
  <1>2. CASE \/ UNCHANGED vars
             \/ BatteryChanges \/ UserTouches \/ TimePasses
             \/ RequestSleepVeto
             \/ \E percent \in Percents : SetActiveBrightnessPercent(percent)
    BY <1>1, <1>2, BatteryInvFrame
       DEF vars, managerVars, BatteryChanges, UserTouches, TimePasses,
           RequestSleepVeto, SetActiveBrightnessPercent
  <1>3. ASSUME NEW u \in Uploads, UploadStep(u) PROVE BatteryInv'
    <2>1. \A b \in BOOLEAN : Ota(b).kind # "critical"
      BY DEF Ota
    <2>2. UNCHANGED ui_queue
          \/ \E e \in Events : e.kind # "critical" /\ Post(e)
      BY <1>3, <2>1, EventsTyped, Zenon
         DEF UploadStep, UploadLock, UploadGate, UploadBegin, UploadWrite,
             UploadEnd, UploadUnlock
    <2>3. UNCHANGED tickVars /\ UNCHANGED state
      BY <1>3 DEF UploadStep, UploadLock, UploadGate, UploadBegin, UploadWrite,
             UploadEnd, UploadUnlock, managerVars
    <2> QED
      BY <1>1, <2>2, <2>3, BatteryInvFrame
  <1> QED
    BY <1>2, <1>3, BatteryInvTick, BatteryInvDrain DEF Next

\* For any number of ticking threads: PowerManager is in kError exactly if the
\* critical-battery latch is set, once the UI thread has handled what is
\* queued, except from an overlap of two threads' edges to the next edge that
\* overlaps none.
THEOREM ErrorMirrorsBatteryHolds == Spec => []ErrorMirrorsBattery
  <1>1. TypeOK /\ BatteryInv /\ [Next]_vars => BatteryInv'
    BY BatteryInvStep
  <1>2. BatteryInv => ErrorMirrorsBattery
    BY DEF BatteryInv, LatchInv, ErrorMirrorsBattery
  <1> QED
    BY <1>1, <1>2, BatteryInvInit, TypeCorrect, PTL DEF Spec

-----------------------------------------------------------------------------
(* The display and kSleeping *)

\* A transition sets the brightness its state calls for.
LEMMA TransitionUsable ==
    ASSUME TypeOK, NEW s \in PowerStates, TransitionTo(s)
    PROVE  ScreenUsable'
  BY DEF TypeOK, ManagerTypeOK, TransitionTo, BrightnessOf, ScreenUsable,
         PowerStates, kMinActiveBrightnessPercent, kDimBrightnessPercent,
         kSleepBrightnessPercent

\* The screen is off exactly in kSleeping, for every chosen brightness.
THEOREM ScreenUsableHolds == Spec => []ScreenUsable
  <1>1. Init => ScreenUsable
    BY DEF Init, ScreenUsable
  <1>2. TypeOK /\ ScreenUsable /\ [Next]_vars => ScreenUsable'
    <2> SUFFICES ASSUME TypeOK, ScreenUsable, [Next]_vars
                 PROVE  ScreenUsable'
      OBVIOUS
    <2>1. UNCHANGED <<state, display>> => ScreenUsable'
      BY DEF ScreenUsable
    <2>2. CASE UNCHANGED vars \/ BatteryChanges \/ UserTouches \/ TimePasses
               \/ RequestSleepVeto
      BY <2>1, <2>2 DEF vars, managerVars, BatteryChanges, UserTouches,
                        TimePasses, RequestSleepVeto
    <2>3. ASSUME NEW t \in Tickers, TickStep(t) PROVE ScreenUsable'
      BY <2>1, <2>3 DEF TickStep, TickEvaluate, TickCheck, TickSet,
                        TickPublish, TickPost, managerVars
    <2>4. ASSUME NEW u \in Uploads, UploadStep(u) PROVE ScreenUsable'
      BY <2>1, <2>4 DEF UploadStep, UploadLock, UploadGate, UploadBegin,
                        UploadWrite, UploadEnd, UploadUnlock, managerVars
    <2>5. CASE DrainQueue
      <3>1. CASE Stay
        BY <2>1, <3>1 DEF Stay
      <3>2. ASSUME NEW s \in PowerStates, TransitionTo(s) PROVE ScreenUsable'
        BY <3>2, TransitionUsable
      <3>3. Stay \/ \E s \in PowerStates : TransitionTo(s)
        BY <2>5 DEF DrainQueue, OnTick, OnOtaUpdateStateChanged,
                    OnCriticalBatteryStateChanged, RestingState,
                    RecoveredState, PowerStates
      <3> QED
        BY <3>1, <3>2, <3>3
    <2>6. ASSUME NEW percent \in Percents,
                 SetActiveBrightnessPercent(percent)
          PROVE  ScreenUsable'
      <3>1. Clamp(percent) \in Nat /\ Clamp(percent) # 0
        BY PowerAssumption DEF Clamp, kMinActiveBrightnessPercent
      <3> QED
        BY <2>6, <3>1 DEF SetActiveBrightnessPercent, ScreenUsable
    <2> QED
      BY <2>2, <2>3, <2>4, <2>5, <2>6 DEF Next
  <1> QED
    BY <1>1, <1>2, TypeCorrect, PTL DEF Spec

\* Together, for any number of ticking threads and uploads: types, the latch
\* and kError, the upload and kUpdating, and a usable screen.
THEOREM PowerSafeHolds == Spec => []PowerSafe
  <1>1. TypeOK /\ ErrorMirrorsBattery /\ UpdatingMirrorsUpload /\ ScreenUsable => PowerSafe
    BY DEF PowerSafe
  <1> QED
    BY <1>1, ErrorMirrorsBatteryHolds, TypeCorrect, UpdatingMirrorsUploadHolds,
       ScreenUsableHolds, PTL

-----------------------------------------------------------------------------
(* Every published change is one *)

\* The events of a kind in the queue, oldest first, say the opposite of the
\* flag's value now and then of one another.
Alternates(q, kind, now) ==
    \A i \in Places(q, kind) :
        /\ (\A j \in Places(q, kind) : i <= j) => q[i].on # now
        /\ \A k \in Places(q, kind) :
              (i < k /\ \A j \in Places(q, kind) : j <= i \/ k <= j) => q[i].on # q[k].on

\* An event that says the opposite of the last one may be posted.
LEMMA PostAlternates ==
    ASSUME NEW q \in Seq(Events), NEW e \in Events, NEW now, NEW value,
           Alternates(q, e.kind, now), Settles(q, e.kind, now, value), e.on # value
    PROVE  Alternates(Append(q, e), e.kind, now)
  <1> DEFINE r == Append(q, e)
             n == Len(q) + 1
             P == Places(q, e.kind)
             R == Places(r, e.kind)
  <1>1. Len(r) = n /\ r[n] = e /\ \A i \in 1..Len(q) : r[i] = q[i]
    OBVIOUS
  <1>2. /\ R = P \cup {n} /\ \A i \in P : i < n /\ i \in Nat /\ r[i] = q[i]
        /\ n \in Nat
    BY <1>1 DEF Places
  <1> HIDE DEF r, n, P, R
  <1>3. ASSUME NEW i \in R, \A j \in R : i <= j PROVE r[i].on # now
    <2>1. CASE i \in P
      BY <1>2, <1>3, <2>1 DEF Alternates, P
    <2>2. CASE i = n
      <3>1. P = {}
        BY <1>2, <1>3, <2>2
      <3> QED
        BY <1>1, <2>2, <3>1 DEF Settles, P
    <2> QED
      BY <1>2, <2>1, <2>2
  <1>4. ASSUME NEW i \in R, NEW k \in R, i < k, \A j \in R : j <= i \/ k <= j
        PROVE  r[i].on # r[k].on
    <2>1. i \in P
      BY <1>2, <1>4
    <2>2. CASE k \in P
      BY <1>2, <1>4, <2>1, <2>2 DEF Alternates, P
    <2>3. CASE k = n
      <3>1. \A j \in P : j <= i
        BY <1>2, <1>4, <2>3
      <3>2. q[i].on = value
        BY <2>1, <3>1 DEF Settles, P
      <3> QED
        BY <1>1, <1>2, <2>1, <2>3, <3>2
    <2> QED
      BY <1>2, <2>2, <2>3
  <1> QED
    BY <1>3, <1>4 DEF Alternates, R, r

LEMMA PostOtherAlternates ==
    ASSUME NEW q \in Seq(Events), NEW e \in Events, NEW kind, NEW now,
           e.kind # kind, Alternates(q, kind, now)
    PROVE  Alternates(Append(q, e), kind, now)
  <1> DEFINE r == Append(q, e)
  <1>1. Len(r) = Len(q) + 1 /\ r[Len(q) + 1] = e
        /\ \A i \in 1..Len(q) : r[i] = q[i]
    OBVIOUS
  <1>2. Places(r, kind) = Places(q, kind)
    BY <1>1 DEF Places
  <1>3. \A i \in Places(q, kind) : r[i] = q[i]
    BY <1>1 DEF Places
  <1> QED
    BY <1>2, <1>3 DEF Alternates

\* Neighbours in the tail are neighbours in the queue.
LEMMA TailNeighbours ==
    ASSUME NEW q \in Seq(Events), q # <<>>, NEW kind, NEW now, Alternates(q, kind, now),
           NEW i \in Places(Tail(q), kind), NEW k \in Places(Tail(q), kind),
           i < k, \A j \in Places(Tail(q), kind) : j <= i \/ k <= j
    PROVE  Tail(q)[i].on # Tail(q)[k].on
  <1>1. /\ i \in Nat /\ i + 1 \in Places(q, kind) /\ Tail(q)[i] = q[i + 1]
        /\ k \in Nat /\ k + 1 \in Places(q, kind) /\ Tail(q)[k] = q[k + 1]
    BY TailPlaces, ZenonT(40)
  <1>2. ASSUME NEW j \in Places(q, kind) PROVE j <= i + 1 \/ k + 1 <= j
    <2>1. j \in Nat /\ (j = 1 \/ (j - 1 \in Places(Tail(q), kind) /\ j > 1))
      BY TailPlaces
    <2>2. j - 1 \in Places(Tail(q), kind) => j - 1 <= i \/ k <= j - 1
      OBVIOUS
    <2> QED
      BY <1>1, <2>1, <2>2
  <1>3. q[i + 1].on # q[k + 1].on
    BY <1>1, <1>2 DEF Alternates
  <1> QED
    BY <1>1, <1>3

LEMMA TailOtherAlternates ==
    ASSUME NEW q \in Seq(Events), q # <<>>, NEW kind, NEW now,
           Head(q).kind # kind, Alternates(q, kind, now)
    PROVE  Alternates(Tail(q), kind, now)
  <1>1. ASSUME NEW i \in Places(Tail(q), kind),
               \A j \in Places(Tail(q), kind) : i <= j
        PROVE  Tail(q)[i].on # now
    <2>1. i \in Nat /\ i + 1 \in Places(q, kind) /\ Tail(q)[i] = q[i + 1]
      BY TailPlaces
    <2>2. ASSUME NEW j \in Places(q, kind) PROVE i + 1 <= j
      <3>1. j \in Nat /\ j - 1 \in Places(Tail(q), kind) /\ j > 1
        BY TailPlaces
      <3> QED
        BY <1>1, <2>1, <3>1
    <2>3. q[i + 1].on # now
      BY <2>1, <2>2 DEF Alternates
    <2> QED
      BY <2>1, <2>3
  <1>2. \A i, k \in Places(Tail(q), kind) :
           (i < k /\ \A j \in Places(Tail(q), kind) : j <= i \/ k <= j)
               => Tail(q)[i].on # Tail(q)[k].on
    BY TailNeighbours
  <1> QED
    BY <1>1, <1>2 DEF Alternates

\* Handling an event of the kind changes the flag, and what is left goes on
\* from there.
LEMMA TailAlternates ==
    ASSUME NEW q \in Seq(Events), q # <<>>, NEW now, Alternates(q, Head(q).kind, now)
    PROVE  /\ Head(q).on # now
           /\ Alternates(Tail(q), Head(q).kind, Head(q).on)
  <1> DEFINE kind == Head(q).kind
  <1>1. 1 \in Places(q, kind) /\ Head(q) = q[1] /\ \A j \in Places(q, kind) : 1 <= j
    BY TailPlaces DEF Places
  <1>2. Head(q).on # now
    BY <1>1 DEF Alternates
  <1>3. ASSUME NEW i \in Places(Tail(q), kind),
               \A j \in Places(Tail(q), kind) : i <= j
        PROVE  Tail(q)[i].on # Head(q).on
    <2>1. i \in Nat /\ i + 1 \in Places(q, kind) /\ Tail(q)[i] = q[i + 1]
          /\ 1 < i + 1
      BY TailPlaces DEF Places
    <2>2. ASSUME NEW j \in Places(q, kind) PROVE j <= 1 \/ i + 1 <= j
      <3>1. j \in Nat /\ (j = 1 \/ (j - 1 \in Places(Tail(q), kind) /\ j > 1))
        BY TailPlaces
      <3> QED
        BY <1>3, <2>1, <3>1
    <2>3. q[1].on # q[i + 1].on
      BY <1>1, <2>1, <2>2 DEF Alternates
    <2> QED
      BY <1>1, <2>1, <2>3
  <1>4. \A i, k \in Places(Tail(q), kind) :
           (i < k /\ \A j \in Places(Tail(q), kind) : j <= i \/ k <= j)
               => Tail(q)[i].on # Tail(q)[k].on
    BY TailNeighbours
  <1> QED
    BY <1>2, <1>3, <1>4 DEF Alternates

\* What PowerSteps needs beside the two mirrors: no event that is queued
\* repeats what PowerManager knows when it comes to handle it, for the
\* battery's until two of its edges overlap.
EdgesInv ==
    /\ Alternates(ui_queue, "ota", ota_in_progress)
    /\ overlap = "none" => Alternates(ui_queue, "critical", state = "kError")

LEMMA EdgesInvInit == Init => EdgesInv
  <1> SUFFICES ASSUME Init PROVE EdgesInv
    OBVIOUS
  <1>1. \A kind \in {"ota", "critical"} : Places(ui_queue, kind) = {}
    BY DEF Init, Places
  <1> QED
    BY <1>1 DEF EdgesInv, Alternates

\* Once overlapped, always overlapped.
LEMMA OverlapStays ==
    ASSUME [Next]_vars, overlap' = "none"
    PROVE  overlap = "none"
  <1>1. UNCHANGED overlap \/ \E t \in Tickers : TickCheck(t)
    BY DEF Next, vars, tickVars, BatteryChanges, UserTouches, TimePasses, TickStep,
           TickEvaluate, TickSet, TickPublish, TickPost, UploadStep, UploadLock,
           UploadGate, UploadBegin, UploadWrite, UploadEnd, UploadUnlock,
           DrainQueue, SetActiveBrightnessPercent, RequestSleepVeto
  <1> QED
    BY <1>1 DEF TickCheck, Overlaps

\* Steps that leave PowerManager alone and post at most a tick.
LEMMA EdgesInvFrame ==
    ASSUME TypeOK, EdgesInv, UNCHANGED <<state, ota_in_progress>>,
           overlap' = "none" => overlap = "none",
           UNCHANGED ui_queue \/ Post(Tick)
    PROVE  EdgesInv'
  <1>1. CASE UNCHANGED ui_queue
    BY <1>1 DEF EdgesInv
  <1>2. CASE Post(Tick)
    <2>1. /\ ui_queue' = Append(ui_queue, Tick) /\ ui_queue \in Seq(Events)
          /\ Tick \in Events /\ Tick.kind = "tick"
      BY <1>2, EventsTyped DEF Post, TypeOK, QueueTypeOK, Tick
    <2>2. Alternates(ui_queue', "ota", ota_in_progress)
      BY <2>1, PostOtherAlternates DEF EdgesInv
    <2>3. overlap = "none" => Alternates(ui_queue', "critical", state = "kError")
      BY <2>1, PostOtherAlternates DEF EdgesInv
    <2> QED
      BY <2>2, <2>3 DEF EdgesInv
  <1> QED
    BY <1>1, <1>2

\* An edge of the upload joins the queue.
LEMMA EdgesInvPostOta ==
    ASSUME TypeOK, EdgesInv, UNCHANGED <<state, ota_in_progress, overlap>>,
           NEW b \in BOOLEAN, NEW value, Post(Ota(b)),
           Settles(ui_queue, "ota", ota_in_progress, value), b # value
    PROVE  EdgesInv'
  <1> DEFINE e == Ota(b)
  <1>1. ui_queue \in Seq(Events) /\ ui_queue' = Append(ui_queue, e)
    BY DEF TypeOK, QueueTypeOK, Post
  <1>2. e \in Events /\ e.kind = "ota" /\ e.on = b
    BY EventsTyped DEF Ota
  <1> HIDE DEF e
  <1>3. Alternates(ui_queue', "ota", ota_in_progress)
    BY <1>1, <1>2, PostAlternates DEF EdgesInv
  <1>4. overlap = "none" => Alternates(ui_queue', "critical", state = "kError")
    BY <1>1, <1>2, PostOtherAlternates DEF EdgesInv
  <1> QED
    BY <1>3, <1>4 DEF EdgesInv

\* An edge of the battery joins the queue.
LEMMA EdgesInvPostCritical ==
    ASSUME TypeOK, EdgesInv, UNCHANGED <<state, ota_in_progress, overlap>>,
           NEW b \in BOOLEAN, NEW value, Post(Critical(b)),
           overlap = "none" =>
               Settles(ui_queue, "critical", state = "kError", value) /\ b # value
    PROVE  EdgesInv'
  <1> DEFINE e == Critical(b)
  <1>1. ui_queue \in Seq(Events) /\ ui_queue' = Append(ui_queue, e)
    BY DEF TypeOK, QueueTypeOK, Post
  <1>2. e \in Events /\ e.kind = "critical" /\ e.on = b
    BY EventsTyped DEF Critical
  <1> HIDE DEF e
  <1>3. ASSUME overlap = "none" PROVE Alternates(ui_queue', "critical", state = "kError")
    <2>1. /\ Alternates(ui_queue, "critical", state = "kError")
          /\ Settles(ui_queue, "critical", state = "kError", value) /\ b # value
      BY <1>3 DEF EdgesInv
    <2> QED
      BY <1>1, <1>2, <2>1, PostAlternates
  <1>4. Alternates(ui_queue', "ota", ota_in_progress)
    BY <1>1, <1>2, PostOtherAlternates DEF EdgesInv
  <1> QED
    BY <1>3, <1>4 DEF EdgesInv

\* A transition into a dimmed state does not brighten the display.
LEMMA TransitionDims ==
    ASSUME TypeOK, NEW s \in PowerStates, TransitionTo(s)
    PROVE  DimmingDims
  BY DEF TypeOK, ManagerTypeOK, TransitionTo, BrightnessOf, DimmingDims,
         kMinActiveBrightnessPercent, kDimBrightnessPercent,
         kSleepBrightnessPercent

\* PowerManager handles one event.
LEMMA DrainSteps ==
    ASSUME TypeOK, UploadInv, EdgesInv, DrainQueue
    PROVE  EdgesInv' /\ RealTransitions /\ DimmingDims
  <1> DEFINE event == Head(ui_queue)
             now == state = "kError"
  <1>1. ui_queue \in Seq(Events) /\ ui_queue # <<>>
        /\ ui_queue' = Tail(ui_queue)
    BY DEF TypeOK, QueueTypeOK, DrainQueue
  <1>2. state \in PowerStates /\ ota_in_progress \in BOOLEAN /\ event.on \in BOOLEAN
    BY <1>1, EventValue DEF TypeOK, ManagerTypeOK
  <1>0. overlap' = overlap
    BY DEF DrainQueue, tickVars
  <1>3. DimmingDims
    <2>1. Stay \/ \E s \in PowerStates : TransitionTo(s)
      BY DEF DrainQueue, OnTick, OnOtaUpdateStateChanged,
             OnCriticalBatteryStateChanged, RestingState,
             RecoveredState, PowerStates
    <2> QED
      BY <2>1, TransitionDims DEF Stay, DimmingDims
  <1>4. CASE event.kind = "tick" /\ OnTick
    <2>1. RealTransitions
      BY <1>2, <1>4 DEF OnTick, TransitionTo, Stay, Quiet, RealTransitions
    <2>2. ota_in_progress' = ota_in_progress /\ now' = now
      BY <1>4 DEF OnTick, TransitionTo, Stay
    <2>3. Alternates(ui_queue', "ota", ota_in_progress)
      BY <1>1, <1>4, TailOtherAlternates DEF EdgesInv
    <2>4. overlap = "none" => Alternates(ui_queue', "critical", now)
      BY <1>1, <1>4, TailOtherAlternates DEF EdgesInv
    <2> QED
      BY <1>0, <1>3, <2>1, <2>2, <2>3, <2>4 DEF EdgesInv
  <1>5. CASE event.kind = "ota" /\ OnOtaUpdateStateChanged(event.on)
    <2>1. /\ event.on # ota_in_progress
          /\ Alternates(ui_queue', "ota", event.on)
      BY <1>1, <1>5, TailAlternates DEF EdgesInv
    <2>2. RealTransitions
      BY <1>2, <1>5, <2>1
         DEF OnOtaUpdateStateChanged, TransitionTo, Stay, Quiet, RestingState,
             RealTransitions, UploadInv, UpdatingMirrorsUpload
    <2>3. ota_in_progress' = event.on /\ now' = now
      BY <1>5 DEF OnOtaUpdateStateChanged, TransitionTo, Stay, RestingState
    <2>4. overlap = "none" => Alternates(ui_queue', "critical", now)
      BY <1>1, <1>5, TailOtherAlternates DEF EdgesInv
    <2> QED
      BY <1>0, <1>3, <2>1, <2>2, <2>3, <2>4 DEF EdgesInv
  <1>6. CASE event.kind = "critical" /\ OnCriticalBatteryStateChanged(event.on)
    <2>1. ASSUME overlap = "none"
          PROVE  event.on # now /\ Alternates(ui_queue', "critical", event.on)
      BY <1>1, <1>6, <2>1, TailAlternates DEF EdgesInv
    <2>2. RealTransitions
      BY <1>2, <1>6, <2>1
         DEF OnCriticalBatteryStateChanged, TransitionTo, Stay, Quiet, RecoveredState,
             RealTransitions
    <2>3. now' = event.on /\ ota_in_progress' = ota_in_progress
      BY <1>2, <1>6 DEF OnCriticalBatteryStateChanged, TransitionTo, Stay,
                        RecoveredState
    <2>4. Alternates(ui_queue', "ota", ota_in_progress)
      BY <1>1, <1>6, TailOtherAlternates DEF EdgesInv
    <2> QED
      BY <1>0, <1>3, <2>1, <2>2, <2>3, <2>4 DEF EdgesInv
  <1> QED
    BY <1>4, <1>5, <1>6 DEF DrainQueue

\* Steps that are quiet and leave the state alone.
LEMMA QuietSteps ==
    ASSUME UNCHANGED state, Quiet
    PROVE  RealTransitions /\ DimmingDims
  BY DEF Quiet, RealTransitions, DimmingDims

\* The steps of the ticking threads.
LEMMA TickSteps ==
    ASSUME TypeOK, BatteryInv, EdgesInv, NEW t \in Tickers, TickStep(t)
    PROVE  EdgesInv' /\ RealTransitions /\ DimmingDims
  <1>1. UNCHANGED <<state, ota_in_progress>> /\ Quiet
    BY DEF TickStep, TickEvaluate, TickCheck, TickSet, TickPublish, TickPost, managerVars
  <1>2. overlap' = "none" => overlap = "none"
    BY OverlapStays DEF Next
  <1>3. CASE TickPublish(t)
    <2>1. /\ Post(Critical(bad[t])) /\ ticker[t] = "publish" /\ UNCHANGED overlap
          /\ bad[t] \in BOOLEAN /\ already_bad \in BOOLEAN
      BY <1>3 DEF TickPublish, TypeOK, TickTypeOK
    <2>2. ASSUME overlap = "none"
          PROVE  /\ Settles(ui_queue, "critical", state = "kError", LastEdge)
                 /\ bad[t] = already_bad /\ LastEdge = ~already_bad
      BY <2>1, <2>2 DEF BatteryInv, LatchInv, EdgeInv, LastEdge, Publishing
    <2>3. ASSUME overlap = "none" PROVE bad[t] # LastEdge
      BY <2>1, <2>2, <2>3
    <2> QED
      BY <1>1, <2>1, <2>2, <2>3, EdgesInvPostCritical, QuietSteps
  <1>4. CASE ~TickPublish(t)
    <2>1. UNCHANGED ui_queue \/ Post(Tick)
      BY <1>4 DEF TickStep, TickEvaluate, TickCheck, TickSet, TickPost
    <2> QED
      BY <1>1, <1>2, <2>1, EdgesInvFrame, QuietSteps
  <1> QED
    BY <1>3, <1>4

\* The steps of the uploads.
LEMMA UploadSteps ==
    ASSUME TypeOK, UploadInv, EdgesInv, NEW u \in Uploads, UploadStep(u)
    PROVE  EdgesInv' /\ RealTransitions /\ DimmingDims
  <1>1. UNCHANGED <<state, ota_in_progress, overlap>> /\ Quiet
    BY DEF UploadStep, UploadLock, UploadGate, UploadBegin, UploadWrite,
           UploadEnd, UploadUnlock, managerVars, tickVars
  <1>2. EdgesInv'
    <2>2. CASE UploadBegin(u)
      <3>1. Writing = FALSE
        BY <2>2 DEF UploadBegin, Writing, UploadInv
      <3>2. Settles(ui_queue, "ota", ota_in_progress, Writing)
        BY DEF UploadInv, UpdatingMirrorsUpload
      <3>3. TRUE # Writing /\ TRUE \in BOOLEAN
        BY <3>1
      <3>4. Post(Ota(TRUE))
        BY <2>2 DEF UploadBegin
      <3> HIDE DEF Writing
      <3> QED
        BY <1>1, <3>2, <3>3, <3>4, EdgesInvPostOta
    <2>3. CASE UploadEnd(u)
      <3>1. Writing = TRUE
        BY <2>3 DEF UploadEnd, Writing
      <3>2. Settles(ui_queue, "ota", ota_in_progress, Writing)
        BY DEF UploadInv, UpdatingMirrorsUpload
      <3>3. FALSE # Writing /\ FALSE \in BOOLEAN
        BY <3>1
      <3>4. Post(Ota(FALSE))
        BY <2>3 DEF UploadEnd
      <3> QED
        BY <1>1, <3>2, <3>3, <3>4, EdgesInvPostOta
    <2>4. UNCHANGED ui_queue \/ UploadBegin(u) \/ UploadEnd(u)
      BY DEF UploadStep, UploadLock, UploadGate, UploadWrite, UploadUnlock
    <2> QED
      BY <1>1, <2>2, <2>3, <2>4, EdgesInvFrame
  <1> QED
    BY <1>1, <1>2, QuietSteps

\* PowerSteps for every number of ticking threads and uploads, brightness and
\* length of the queue: until two threads' edges overlap a
\* PowerStateChangedEvent is published only by a step that changes the state,
\* and no step into kIdle or kSleeping ever brightens the display.
THEOREM PowerStepsHold == Spec => PowerSteps
  <1> DEFINE Inv == TypeOK /\ UploadInv /\ BatteryInv /\ EdgesInv
  <1>1. Init => Inv
    BY TypeOKInit, UploadInvInit, BatteryInvInit, EdgesInvInit
  <1>2. Inv /\ [Next]_vars => Inv' /\ [RealTransitions /\ DimmingDims]_vars
    <2> SUFFICES ASSUME Inv, [Next]_vars
                 PROVE  Inv' /\ [RealTransitions /\ DimmingDims]_vars
      OBVIOUS
    <2>1. TypeOK' /\ UploadInv' /\ BatteryInv'
      BY TypeOKStep, UploadInvStep, BatteryInvStep
    <2>2. CASE UNCHANGED vars
      <3>1. EdgesInv'
        BY <2>2, EdgesInvFrame DEF vars, managerVars, tickVars
      <3> QED
        BY <2>1, <2>2, <3>1
    <2>3. CASE \/ BatteryChanges \/ UserTouches \/ TimePasses
               \/ RequestSleepVeto
               \/ \E percent \in Percents : SetActiveBrightnessPercent(percent)
      <3>1. UNCHANGED <<state, ota_in_progress, ui_queue, overlap>> /\ Quiet
        BY <2>3 DEF managerVars, tickVars, BatteryChanges, UserTouches, TimePasses,
                    RequestSleepVeto, SetActiveBrightnessPercent
      <3> QED
        BY <2>1, <3>1, EdgesInvFrame, QuietSteps
    <2>4. CASE \/ \E t \in Tickers : TickStep(t)
               \/ \E u \in Uploads : UploadStep(u)
      BY <2>1, <2>4, TickSteps, UploadSteps
    <2>5. CASE DrainQueue
      BY <2>1, <2>5, DrainSteps
    <2> QED
      BY <2>2, <2>3, <2>4, <2>5 DEF Next
  <1> QED
    BY <1>1, <1>2, PTL DEF Spec, PowerSteps

-----------------------------------------------------------------------------
(* Wi-Fi setup and recovery *)

WifiEvents == {"sta_start", "disconnected", "got_ip", "ap_joined", "ap_left"}
Submissions == [kind : {"pending"}, id : Nat, creds : ValidCreds]
UiPosts == [kind : {"setup_needed", "connected", "failed"}] \cup Submissions
Applications == [kind : {"config", "submit", "connect"}, creds : ValidCreds, shown : ValidCreds]
HandlingKinds == {"none", "disconnected", "ap_joined", "ap_left", "got_ip"}

\* The types of what the tasks share.  A request needs a submission, which
\* the budget pays for.
WifiTypes ==
    /\ stored_creds \in ValidCreds \cup {NoCreds}
    /\ radio \in {"off", "sta", "apsta"} /\ station \in {"idle", "trying", "up"}
    /\ attempts \in 0..(RecoveryAttempts + 1) /\ ap_client_count \in Nat
    /\ setup_server \in {"none", "setup", "recovery"}
    /\ recovery \in {"idle", "stopped", "started"}
    /\ boot \in {"start", "serve", "done"}
    /\ pending \in ValidCreds \cup {NoCreds}

WifiFlags ==
    /\ ap_station \in BOOLEAN /\ initial_provisioning \in BOOLEAN
    /\ reconnect_timer \in BOOLEAN /\ recovery_timer \in BOOLEAN
    /\ connect_error \in BOOLEAN /\ wifi_screen \in BOOLEAN /\ unretried \in BOOLEAN

WifiQueues ==
    /\ wifi_events \in Seq(WifiEvents) /\ wifi_ui \in Seq(UiPosts)
    /\ handling.kind \in HandlingKinds /\ (handling.kind = "none" => handling = Nothing)
    /\ prompt \in {Nothing} \cup Submissions
    /\ applying = [t \in Tasks |-> applying[t]]
    /\ \A t \in Tasks : applying[t] \in {Nothing} \cup Applications

RequestsCounted ==
    /\ wifi_budget \in 0..MaxDisturbances /\ last_id \in Nat
    /\ last_id + wifi_budget + (IF applying["httpd"].kind = "submit" THEN 1 ELSE 0)
          <= MaxDisturbances
    /\ applying["ui"].kind # "submit"

\* A request that is shown, or about to be, is the pending one if it has its id.
Current(r, id, creds) == r.id <= id /\ (r.id = id /\ creds # NoCreds => r.creds = creds)

ShownInv ==
    /\ \A i \in 1..Len(wifi_ui) :
          wifi_ui[i].kind = "pending" => Current(wifi_ui[i], last_id, pending)
    /\ prompt # Nothing => Current(prompt, last_id, pending)
    /\ ApprovedAsShown

\* While a form is up, or OnEvent() is taking it down, requests may come; what
\* they leave is cleared by a "connected" that is posted behind them.
FormServed == setup_server # "none" \/ handling.kind = "got_ip"

OrphanInv ==
    /\ pending # NoCreds => FormServed
    /\ applying["httpd"] # Nothing =>
          setup_server # "none" \/ (handling.kind = "got_ip" /\ handling.stop)
    /\ prompt # Nothing =>
          FormServed \/ \E j \in 1..Len(wifi_ui) : wifi_ui[j].kind = "connected"
    /\ \A i \in 1..Len(wifi_ui) : wifi_ui[i].kind = "pending" =>
          FormServed \/ \E j \in 1..Len(wifi_ui) : j > i /\ wifi_ui[j].kind = "connected"

\* The phone: its events alternate, the last one tells whether it is joined,
\* and the count is at most what they lead to.
IsAp(e) == e \in {"ap_joined", "ap_left"}

PhoneOK(q, count, joined) ==
    /\ \A i, k \in 1..Len(q) :
          /\ i < k /\ IsAp(q[i]) /\ IsAp(q[k])
          /\ \A j \in 1..Len(q) : i < j /\ j < k => ~IsAp(q[j])
          => q[i] # q[k]
    /\ \A i \in 1..Len(q) :
          /\ q[i] = "ap_joined"
          /\ \A j \in 1..Len(q) : j < i => ~IsAp(q[j])
          => count = 0
    /\ count \in 0..1
    /\ \A i \in 1..Len(q) :
          /\ IsAp(q[i])
          /\ \A j \in 1..Len(q) : i < j => ~IsAp(q[j])
          => (joined <=> q[i] = "ap_joined")
    /\ (\A i \in 1..Len(q) : ~IsAp(q[i])) /\ count = 1 => joined

PhoneInv == PhoneOK(wifi_events, ap_client_count, ap_station)

\* Before ConnectToWifi() nothing of the radio runs.
RadioOffInv ==
    boot = "start" =>
        /\ radio = "off" /\ station = "idle" /\ ~ap_station
        /\ wifi_events = <<>> /\ handling = Nothing
        /\ recovery = "idle" /\ ~recovery_timer /\ setup_server = "none"

\* What OnEvent() decided under the lock is still so when it acts on it.
HandlingInv ==
    /\ handling.kind = "disconnected" /\ handling.give_up => initial_provisioning
    /\ handling.kind = "disconnected" /\ handling.delay = "hold" =>
          RecoveryRetriesAreSlowed /\ ap_client_count > 0
    /\ handling.kind = "ap_joined" => ap_client_count > 0

\* A link that is announced and gone again has its end announced behind it.
LinkInv ==
    \A i \in 1..Len(wifi_events) : wifi_events[i] = "got_ip" =>
        station = "up" \/ \E j \in 1..Len(wifi_events) : j > i /\ wifi_events[j] = "disconnected"

\* What will set an idle station going again, or says why it is idle.
Held == /\ RecoveryRetriesAreSlowed
        /\ ap_client_count > 0 \/ (handling.kind = "ap_left" /\ handling.resume)

GaveUp == /\ initial_provisioning
          /\ \/ connect_error \/ stored_creds = NoCreds
             \/ applying["ui"].kind = "config"
             \/ \E i \in 1..Len(wifi_ui) : wifi_ui[i].kind = "failed"

EventDue == \E i \in 1..Len(wifi_events) : wifi_events[i] \in {"sta_start", "disconnected"}

IdleInv ==
    station = "idle" =>
        \/ boot = "start" \/ EventDue \/ handling.kind = "disconnected"
        \/ reconnect_timer \/ unretried
        \/ applying["ui"].kind = "connect" \/ applying["httpd"].kind = "connect"
        \/ Held \/ GaveUp

WifiInv == /\ WifiTypes /\ WifiFlags /\ WifiQueues /\ RequestsCounted
           /\ ShownInv /\ OrphanInv
           /\ PhoneInv /\ RadioOffInv /\ HandlingInv /\ LinkInv /\ IdleInv

\* The actions of WifiNext.
LEMMA WifiActions ==
    ASSUME WifiNext
    PROVE  \/ AttemptSucceeds \/ AttemptFails \/ LinkLost \/ PhoneJoins \/ PhoneLeaves
           \/ OnStaStart \/ OnDisconnected \/ OnApJoined \/ OnApLeft \/ OnGotIp
           \/ AfterDisconnected \/ AfterApJoined \/ AfterApLeft \/ AfterGotIp
           \/ ReconnectTimerCallback \/ RecoveryStop \/ RecoveryStart \/ RecoveryServe
           \/ \E c \in FormCreds : HandlePostConnect(c)
           \/ HandleRecoveryRequest
           \/ \E t \in Tasks : ApplyConfig(t) \/ ApplyConnect(t)
           \/ UiRuns \/ \E c \in FormCreds : OnConnectClicked(c)
           \/ OnAllowClicked \/ OnDenyClicked
           \/ ConnectToWifi \/ StartSetupAccessPoint \/ WifiResetAndReboot
  BY Zenon DEF WifiNext, DriverStep, OnEvent, TimerStep, WifiUiTask, HttpdTask, BootStep,
               ApplyStep, Tasks

LEMMA ApplicationTyped ==
    ASSUME WifiQueues, NEW t \in Tasks
    PROVE  /\ applying[t] = Nothing \/ applying[t] \in Applications
           /\ applying[t] = Nothing <=> applying[t].kind = "none"
           /\ applying[t].kind \in {"config", "submit", "connect"} =>
                 applying[t] \in Applications /\ applying[t].creds \in ValidCreds
  BY DEF WifiQueues, Nothing, Applications

LEMMA WifiTypesStep ==
    ASSUME WifiTypes, WifiQueues, WifiNext
    PROVE  WifiTypes'
  <1> USE WifiSetupAssumption DEF driver, g_state, timers, requests, screen, WifiTypes
  <1>1. CASE AttemptSucceeds \/ AttemptFails \/ LinkLost \/ PhoneJoins \/ PhoneLeaves
    BY <1>1 DEF AttemptSucceeds, AttemptFails, LinkLost, PhoneJoins, PhoneLeaves
  <1>2. CASE OnStaStart
    BY <1>2 DEF OnStaStart, esp_wifi_connect_ok, esp_wifi_connect_fails
  <1>3. CASE OnDisconnected
    BY <1>3 DEF OnDisconnected, Counted
  <1>4. CASE OnApJoined \/ OnApLeft \/ OnGotIp
    BY <1>4 DEF OnApJoined, OnApLeft, OnGotIp
  <1>5. CASE AfterDisconnected \/ AfterApJoined \/ AfterApLeft \/ AfterGotIp
    BY <1>5 DEF AfterDisconnected, AfterApJoined, AfterApLeft, AfterGotIp
  <1>6. CASE ReconnectTimerCallback
    BY <1>6 DEF ReconnectTimerCallback, esp_wifi_connect_ok, esp_wifi_connect_fails
  <1>7. CASE RecoveryStop \/ RecoveryStart \/ RecoveryServe
    BY <1>7 DEF RecoveryStop, RecoveryStart, RecoveryServe
  <1>8. CASE \E c \in FormCreds : HandlePostConnect(c) \/ OnConnectClicked(c)
    BY <1>8 DEF HandlePostConnect, OnConnectClicked
  <1>9. CASE HandleRecoveryRequest
    <2>1. applying["httpd"].creds \in ValidCreds
      BY <1>9, ApplicationTyped DEF HandleRecoveryRequest, Tasks
    <2>. QED  BY <1>9, <2>1 DEF HandleRecoveryRequest
  <1>10. ASSUME NEW t \in Tasks, ApplyConfig(t) PROVE WifiTypes'
    <2>1. applying[t].creds \in ValidCreds
      BY <1>10, ApplicationTyped DEF ApplyConfig
    <2>. QED  BY <1>10, <2>1 DEF ApplyConfig
  <1>11. ASSUME NEW t \in Tasks, ApplyConnect(t) PROVE WifiTypes'
    BY <1>11 DEF ApplyConnect, esp_wifi_connect_ok, esp_wifi_connect_fails
  <1>12. CASE UiRuns \/ OnAllowClicked \/ OnDenyClicked
    BY <1>12 DEF UiRuns, OnAllowClicked, OnDenyClicked
  <1>13. CASE ConnectToWifi \/ StartSetupAccessPoint
    BY <1>13 DEF ConnectToWifi, StartSetupAccessPoint
  <1>14. CASE WifiResetAndReboot
    BY <1>14 DEF WifiResetAndReboot, Booted
  <1>. QED
    BY <1>1, <1>2, <1>3, <1>4, <1>5, <1>6, <1>7, <1>8, <1>9, <1>10, <1>11, <1>12, <1>13,
       <1>14, WifiActions, Zenon

LEMMA WifiFlagsStep ==
    ASSUME WifiFlags, WifiNext
    PROVE  WifiFlags'
  <1> USE DEF driver, g_state, timers, requests, screen, WifiFlags
  <1>1. CASE AttemptSucceeds \/ AttemptFails \/ LinkLost \/ PhoneJoins \/ PhoneLeaves
    BY <1>1, Zenon DEF AttemptSucceeds, AttemptFails, LinkLost, PhoneJoins, PhoneLeaves
  <1>2. CASE OnStaStart
    BY <1>2, Zenon DEF OnStaStart, esp_wifi_connect_ok, esp_wifi_connect_fails
  <1>3. CASE OnDisconnected \/ OnApJoined \/ OnApLeft
    BY <1>3 DEF OnDisconnected, OnApJoined, OnApLeft
  <1>4. CASE OnGotIp
    BY <1>4, Zenon DEF OnGotIp
  <1>5. CASE AfterDisconnected
    BY <1>5, Zenon DEF AfterDisconnected
  <1>6. CASE AfterApJoined \/ AfterApLeft
    BY <1>6, Zenon DEF AfterApJoined, AfterApLeft
  <1>7. CASE AfterGotIp
    BY <1>7, Zenon DEF AfterGotIp, DropPhone
  <1>8. CASE ReconnectTimerCallback
    BY <1>8, Zenon DEF ReconnectTimerCallback, esp_wifi_connect_ok, esp_wifi_connect_fails
  <1>9. CASE RecoveryStop \/ RecoveryStart \/ RecoveryServe
    BY <1>9, Zenon DEF RecoveryStop, RecoveryStart, RecoveryServe, DropPhone
  <1>10. CASE \E c \in FormCreds : HandlePostConnect(c) \/ OnConnectClicked(c)
    BY <1>10, Zenon DEF HandlePostConnect, OnConnectClicked
  <1>11. CASE HandleRecoveryRequest \/ OnAllowClicked \/ OnDenyClicked
    BY <1>11, Zenon DEF HandleRecoveryRequest, OnAllowClicked, OnDenyClicked
  <1>12. CASE \E t \in Tasks : ApplyConfig(t) \/ ApplyConnect(t)
    BY <1>12, Zenon DEF ApplyConfig, ApplyConnect, esp_wifi_connect_ok, esp_wifi_connect_fails
  <1>13. CASE UiRuns
    <2>1. wifi_screen' \in BOOLEAN
      BY <1>13, Zenon DEF UiRuns, ScreenAfter
    <2>. QED  BY <1>13, <2>1, Zenon DEF UiRuns
  <1>14. CASE ConnectToWifi \/ StartSetupAccessPoint
    BY <1>14, Zenon DEF ConnectToWifi, StartSetupAccessPoint
  <1>15. CASE WifiResetAndReboot
    BY <1>15, Zenon DEF WifiResetAndReboot, Booted
  <1>. QED
    BY <1>1, <1>2, <1>3, <1>4, <1>5, <1>6, <1>7, <1>8, <1>9, <1>10, <1>11, <1>12, <1>13,
       <1>14, <1>15, WifiActions, Zenon

LEMMA HeadAndTail ==
    ASSUME NEW S, NEW q \in Seq(S), q # <<>>
    PROVE  /\ Head(q) \in S /\ Head(q) = q[1] /\ Tail(q) \in Seq(S)
           /\ Len(Tail(q)) = Len(q) - 1 /\ Len(q) \in Nat \ {0}
           /\ \A i \in 1..Len(Tail(q)) : i + 1 \in 1..Len(q) /\ Tail(q)[i] = q[i + 1]
  OBVIOUS

LEMMA Appended ==
    ASSUME NEW S, NEW q \in Seq(S), NEW e \in S
    PROVE  /\ Append(q, e) \in Seq(S) /\ Len(Append(q, e)) = Len(q) + 1 /\ Len(q) \in Nat
           /\ Append(q, e)[Len(q) + 1] = e
           /\ \A i \in 1..Len(q) : Append(q, e)[i] = q[i]
  OBVIOUS

\* DropPhone() appends the end of the phone, and what follows it.
LEMMA PhoneDropped ==
    ASSUME wifi_events \in Seq(WifiEvents), NEW more \in {<<>>, <<"disconnected">>},
           DropPhone(more)
    PROVE  LET q == IF ap_station THEN Append(wifi_events, "ap_left") ELSE wifi_events
           IN  /\ q \in Seq(WifiEvents) /\ ~ap_station'
               /\ more = <<>> => wifi_events' = q
               /\ more = <<"disconnected">> => wifi_events' = Append(q, "disconnected")
  <1> DEFINE q == IF ap_station THEN Append(wifi_events, "ap_left") ELSE wifi_events
  <1>1. q \in Seq(WifiEvents)
    BY DEF WifiEvents
  <1>2. wifi_events' = q \o more /\ ~ap_station'
    BY DEF DropPhone
  <1> HIDE DEF q
  <1>3. q \o <<>> = q /\ q \o <<"disconnected">> = Append(q, "disconnected")
    BY <1>1 DEF WifiEvents
  <1>. QED  BY <1>1, <1>2, <1>3 DEF q

\* An application that begins, goes on or ends.
LEMMA ApplicationSet ==
    ASSUME WifiQueues, NEW t \in Tasks, NEW a \in {Nothing} \cup Applications,
           applying' = [applying EXCEPT ![t] = a]
    PROVE  /\ applying' = [u \in Tasks |-> applying'[u]]
           /\ \A u \in Tasks : applying'[u] \in {Nothing} \cup Applications
           /\ applying'[t] = a /\ \A u \in Tasks \ {t} : applying'[u] = applying[u]
  <1>1. applying'[t] = a /\ \A u \in Tasks \ {t} : applying'[u] = applying[u]
    BY DEF WifiQueues
  <1>2. applying' = [u \in Tasks |-> applying'[u]]
    BY DEF WifiQueues
  <1>3. \A u \in Tasks : applying'[u] \in {Nothing} \cup Applications
    BY <1>1, Zenon DEF WifiQueues
  <1>. QED  BY <1>1, <1>2, <1>3

\* The form's or the person's credentials start one; a configuration that was
\* written goes on to the connection.
LEMMA ApplicationsOf ==
    /\ \A c \in ValidCreds, d \in ValidCreds, kind \in {"config", "submit", "connect"} :
          [kind |-> kind, creds |-> c, shown |-> d] \in Applications
    /\ \A a \in Applications :
          /\ [a EXCEPT !.kind = "connect"] \in Applications
          /\ [a EXCEPT !.kind = "connect"].kind = "connect"
          /\ [a EXCEPT !.kind = "connect"].creds = a.creds
          /\ [a EXCEPT !.kind = "connect"].shown = a.shown
  BY DEF Applications

LEMMA TakenValid ==
    ASSUME WifiTypes, Taken # NoCreds
    PROVE  Taken \in ValidCreds /\ Taken = pending /\ prompt.id = last_id /\ pending # NoCreds
  BY DEF WifiTypes, Taken

LEMMA WifiQueuesStep ==
    ASSUME WifiTypes, WifiQueues, RequestsCounted, WifiNext
    PROVE  WifiQueues'
  <1> USE WifiSetupAssumption DEF driver, g_state, timers, requests, screen
  <1>0. /\ wifi_events \in Seq(WifiEvents) /\ wifi_ui \in Seq(UiPosts)
        /\ \A e \in WifiEvents : Append(wifi_events, e) \in Seq(WifiEvents)
        /\ \A p \in UiPosts : Append(wifi_ui, p) \in Seq(UiPosts)
        /\ wifi_events # <<>> => Tail(wifi_events) \in Seq(WifiEvents)
        /\ wifi_ui # <<>> => Tail(wifi_ui) \in Seq(UiPosts) /\ Head(wifi_ui) \in UiPosts
    BY DEF WifiQueues
  <1>1. CASE AttemptSucceeds \/ AttemptFails \/ LinkLost \/ PhoneJoins \/ PhoneLeaves
    <2>1. wifi_events' \in Seq(WifiEvents)
      BY <1>0, <1>1 DEF AttemptSucceeds, AttemptFails, LinkLost, PhoneJoins, PhoneLeaves,
                        WifiEvents
    <2>. QED
      BY <1>1, <2>1 DEF AttemptSucceeds, AttemptFails, LinkLost, PhoneJoins, PhoneLeaves,
                        WifiQueues
  <1>2. CASE OnStaStart
    BY <1>0, <1>2 DEF OnStaStart, NextEvent, WifiQueues
  <1>3. CASE OnDisconnected \/ OnApJoined \/ OnApLeft \/ OnGotIp
    <2>1. wifi_events' \in Seq(WifiEvents)
      BY <1>0, <1>3 DEF OnDisconnected, OnApJoined, OnApLeft, OnGotIp, NextEvent
    <2>2. handling'.kind \in HandlingKinds \ {"none"}
      BY <1>3 DEF OnDisconnected, OnApJoined, OnApLeft, OnGotIp, HandlingKinds
    <2>3. UNCHANGED <<wifi_ui, prompt, applying>>
      BY <1>3 DEF OnDisconnected, OnApJoined, OnApLeft, OnGotIp
    <2>. QED  BY <2>1, <2>2, <2>3 DEF WifiQueues
  <1>4. CASE AfterDisconnected \/ AfterApJoined \/ AfterApLeft
    <2>1. [kind |-> "failed"] \in UiPosts
      BY DEF UiPosts
    <2>2. wifi_ui' \in Seq(UiPosts)
      BY <1>0, <1>4, <2>1 DEF AfterDisconnected, AfterApJoined, AfterApLeft
    <2>3. handling' = Nothing /\ UNCHANGED <<wifi_events, prompt, applying>>
      BY <1>4 DEF AfterDisconnected, AfterApJoined, AfterApLeft
    <2>. QED  BY <2>2, <2>3 DEF WifiQueues, Nothing, HandlingKinds
  <1>5. CASE AfterGotIp
    <2>1. [kind |-> "connected"] \in UiPosts
      BY DEF UiPosts
    <2>2. wifi_ui' \in Seq(UiPosts) /\ handling' = Nothing /\ UNCHANGED <<prompt, applying>>
      BY <1>0, <1>5, <2>1 DEF AfterGotIp
    <2>3. wifi_events' \in Seq(WifiEvents)
      BY <1>0, <1>5, PhoneDropped DEF AfterGotIp
    <2>. QED  BY <2>2, <2>3 DEF WifiQueues, Nothing, HandlingKinds
  <1>6. CASE ReconnectTimerCallback
    BY <1>6 DEF ReconnectTimerCallback, WifiQueues
  <1>7. CASE RecoveryStop \/ RecoveryStart \/ RecoveryServe
    <2>1. [kind |-> "setup_needed"] \in UiPosts
      BY DEF UiPosts
    <2>2. wifi_ui' \in Seq(UiPosts)
      BY <1>0, <1>7, <2>1 DEF RecoveryStop, RecoveryStart, RecoveryServe
    <2>3. UNCHANGED <<handling, prompt, applying>>
      BY <1>7 DEF RecoveryStop, RecoveryStart, RecoveryServe
    <2>4. CASE RecoveryStart
      BY <1>0, <2>2, <2>3, <2>4 DEF RecoveryStart, WifiEvents, WifiQueues
    <2>5. CASE RecoveryStop \/ RecoveryServe
      <3>1. CASE UNCHANGED wifi_events
        BY <1>0, <2>2, <2>3, <3>1 DEF WifiQueues
      <3>2. CASE \E more \in {<<>>, <<"disconnected">>} : DropPhone(more)
        <4>1. wifi_events' \in Seq(WifiEvents)
          <5>1. PICK more \in {<<>>, <<"disconnected">>} : DropPhone(more)
            BY <3>2
          <5> DEFINE q == IF ap_station THEN Append(wifi_events, "ap_left") ELSE wifi_events
          <5>2. /\ q \in Seq(WifiEvents)
                /\ wifi_events' = q \/ wifi_events' = Append(q, "disconnected")
            BY <1>0, <5>1, PhoneDropped
          <5> HIDE DEF q
          <5>. QED  BY <5>2 DEF WifiEvents
        <4>. QED  BY <2>2, <2>3, <4>1 DEF WifiQueues
      <3>. QED  BY <2>5, <3>1, <3>2 DEF RecoveryStop, RecoveryServe
    <2>. QED  BY <1>7, <2>4, <2>5
  <1>8. ASSUME NEW c \in FormCreds, HandlePostConnect(c) PROVE WifiQueues'
    <2>1. \E a \in Applications : applying' = [applying EXCEPT !["httpd"] = a]
      BY <1>8, ApplicationsOf DEF HandlePostConnect, IsValidWifiCredentials
    <2>2. UNCHANGED <<wifi_events, wifi_ui, handling, prompt>>
      BY <1>8 DEF HandlePostConnect
    <2>. QED  BY <2>1, <2>2, ApplicationSet DEF WifiQueues, Tasks
  <1>9. CASE HandleRecoveryRequest
    <2>1. pending' \in ValidCreds /\ last_id + 1 \in Nat
      BY <1>9, ApplicationTyped DEF HandleRecoveryRequest, Tasks, RequestsCounted
    <2>2. [kind |-> "pending", id |-> last_id + 1, creds |-> pending'] \in UiPosts
      BY <2>1 DEF UiPosts, Submissions
    <2>3. wifi_ui' \in Seq(UiPosts)
      BY <1>0, <1>9, <2>2 DEF HandleRecoveryRequest
    <2>4. applying' = [applying EXCEPT !["httpd"] = Nothing]
          /\ UNCHANGED <<wifi_events, handling, prompt>>
      BY <1>9 DEF HandleRecoveryRequest
    <2>. QED  BY <2>3, <2>4, ApplicationSet DEF WifiQueues, Tasks
  <1>10. ASSUME NEW t \in Tasks, ApplyConfig(t) PROVE WifiQueues'
    <2>1. applying[t] \in Applications
      BY <1>10, ApplicationTyped DEF ApplyConfig
    <2>2. \E a \in {Nothing} \cup Applications : applying' = [applying EXCEPT ![t] = a]
      <3>1. applying' = [applying EXCEPT ![t] = Nothing]
            \/ applying' = [applying EXCEPT ![t] = [applying[t] EXCEPT !.kind = "connect"]]
        BY <1>10 DEF ApplyConfig
      <3>. QED  BY <2>1, <3>1, ApplicationsOf
    <2>3. UNCHANGED <<wifi_events, wifi_ui, handling, prompt>>
      BY <1>10 DEF ApplyConfig
    <2>. QED  BY <2>2, <2>3, ApplicationSet DEF WifiQueues
  <1>11. ASSUME NEW t \in Tasks, ApplyConnect(t) PROVE WifiQueues'
    <2>1. applying' = [applying EXCEPT ![t] = Nothing]
          /\ UNCHANGED <<wifi_events, wifi_ui, handling, prompt>>
      BY <1>11 DEF ApplyConnect
    <2>. QED  BY <2>1, ApplicationSet DEF WifiQueues
  <1>12. CASE UiRuns
    <2>1. Head(wifi_ui).kind = "pending" => Head(wifi_ui) \in Submissions
      BY <1>0, <1>12 DEF UiRuns, UiPosts, Submissions
    <2>2. prompt' \in {Nothing} \cup Submissions
      BY <1>12, <2>1 DEF UiRuns, PromptAfter, WifiQueues
    <2>3. wifi_ui' \in Seq(UiPosts) /\ UNCHANGED <<wifi_events, handling, applying>>
      BY <1>0, <1>12 DEF UiRuns
    <2>. QED  BY <2>2, <2>3 DEF WifiQueues
  <1>13. ASSUME NEW c \in FormCreds, OnConnectClicked(c) PROVE WifiQueues'
    <2>1. UNCHANGED applying
          \/ \E a \in Applications : applying' = [applying EXCEPT !["ui"] = a]
      BY <1>13, ApplicationsOf DEF OnConnectClicked, IsValidWifiCredentials
    <2>2. UNCHANGED <<wifi_events, wifi_ui, handling, prompt>>
      BY <1>13 DEF OnConnectClicked
    <2>. QED  BY <2>1, <2>2, ApplicationSet DEF WifiQueues, Tasks
  <1>14. CASE OnAllowClicked
    <2>1. prompt \in Submissions
      BY <1>14 DEF OnAllowClicked, WifiQueues
    <2>2. UNCHANGED applying
          \/ \E a \in Applications : applying' = [applying EXCEPT !["ui"] = a]
      <3>1. CASE Taken = NoCreds
        BY <1>14, <3>1 DEF OnAllowClicked
      <3>2. CASE Taken # NoCreds
        <4>1. Taken \in ValidCreds /\ prompt.creds \in ValidCreds
          BY <2>1, <3>2, TakenValid DEF Submissions
        <4>2. applying' = [applying EXCEPT !["ui"] = [kind |-> "config", creds |-> Taken,
                                                       shown |-> prompt.creds]]
          BY <1>14, <3>2 DEF OnAllowClicked
        <4>. QED  BY <4>1, <4>2, ApplicationsOf
      <3>. QED  BY <3>1, <3>2
    <2>3. prompt' = Nothing /\ UNCHANGED <<wifi_events, wifi_ui, handling>>
      BY <1>14 DEF OnAllowClicked
    <2>. QED  BY <2>2, <2>3, ApplicationSet DEF WifiQueues, Tasks
  <1>15. CASE OnDenyClicked
    BY <1>15 DEF OnDenyClicked, WifiQueues
  <1>16. CASE ConnectToWifi \/ StartSetupAccessPoint
    <2>1. "sta_start" \in WifiEvents /\ [kind |-> "setup_needed"] \in UiPosts
      BY DEF UiPosts, WifiEvents
    <2>. QED
      BY <1>0, <1>16, <2>1 DEF ConnectToWifi, StartSetupAccessPoint, WifiQueues
  <1>17. CASE WifiResetAndReboot
    <2>1. /\ wifi_events' = <<>> /\ wifi_ui' = <<>> /\ handling' = Nothing
          /\ prompt' = Nothing /\ applying' = [t \in Tasks |-> Nothing]
      BY <1>17 DEF WifiResetAndReboot, Booted
    <2>2. Nothing.kind = "none" /\ "none" \in HandlingKinds
      BY DEF Nothing, HandlingKinds
    <2>3. /\ applying' = [t \in Tasks |-> applying'[t]]
          /\ \A t \in Tasks : applying'[t] \in {Nothing} \cup Applications
      BY <2>1
    <2>. QED  BY <2>1, <2>2, <2>3 DEF WifiQueues
  <1>. QED
    BY <1>1, <1>2, <1>3, <1>4, <1>5, <1>6, <1>7, <1>8, <1>9, <1>10, <1>11, <1>12, <1>13,
       <1>14, <1>15, <1>16, <1>17, WifiActions, Zenon

\* A submission costs one, whether it is still on its way or has its id.
LEMMA RequestsCountedStep ==
    ASSUME WifiQueues, RequestsCounted, WifiNext
    PROVE  RequestsCounted'
  <1> USE WifiSetupAssumption DEF driver, g_state, timers, requests, screen
  <1>0. /\ wifi_budget \in 0..MaxDisturbances /\ last_id \in Nat /\ MaxDisturbances \in Nat
        /\ applying["ui"].kind # "submit"
        /\ \A t \in Tasks : applying[t] \in {Nothing} \cup Applications
        /\ Nothing.kind = "none" /\ "ui" \in Tasks /\ "httpd" \in Tasks /\ "ui" # "httpd"
    BY DEF RequestsCounted, WifiQueues, Nothing, Tasks
  <1>a. ASSUME UNCHANGED <<applying, last_id>>,
               UNCHANGED wifi_budget \/ Disturb
        PROVE  RequestsCounted'
    BY <1>0, <1>a DEF RequestsCounted, Disturb
  <1>1. CASE \/ AttemptSucceeds \/ AttemptFails \/ LinkLost \/ PhoneJoins \/ PhoneLeaves
             \/ OnStaStart \/ OnDisconnected \/ OnApJoined \/ OnApLeft \/ OnGotIp
    BY <1>1, <1>a DEF AttemptSucceeds, AttemptFails, LinkLost, PhoneJoins, PhoneLeaves,
       OnStaStart, OnDisconnected, OnApJoined, OnApLeft, OnGotIp, esp_wifi_connect_ok,
       esp_wifi_connect_fails
  <1>2. CASE AfterDisconnected \/ AfterApJoined \/ AfterApLeft \/ AfterGotIp
    BY <1>2, <1>a DEF AfterDisconnected, AfterApJoined, AfterApLeft, AfterGotIp
  <1>3. CASE ReconnectTimerCallback \/ RecoveryStop \/ RecoveryStart \/ RecoveryServe
    BY <1>3, <1>a DEF ReconnectTimerCallback, RecoveryStop, RecoveryStart, RecoveryServe,
       esp_wifi_connect_ok, esp_wifi_connect_fails
  <1>4. ASSUME NEW c \in FormCreds, HandlePostConnect(c) PROVE RequestsCounted'
    <2>1. /\ applying["httpd"].kind = "none" /\ Disturb /\ UNCHANGED last_id
          /\ applying'["ui"] = applying["ui"]
      BY <1>0, <1>4 DEF HandlePostConnect, WifiQueues
    <2>. QED  BY <1>0, <2>1 DEF RequestsCounted, Disturb
  <1>5. CASE HandleRecoveryRequest
    <2>1. /\ applying["httpd"].kind = "submit" /\ last_id' = last_id + 1
          /\ applying'["ui"] = applying["ui"] /\ applying'["httpd"] = Nothing
          /\ UNCHANGED wifi_budget
      BY <1>0, <1>5 DEF HandleRecoveryRequest, WifiQueues
    <2>. QED  BY <1>0, <2>1 DEF RequestsCounted
  <1>6. ASSUME NEW t \in Tasks, ApplyConfig(t) \/ ApplyConnect(t) PROVE RequestsCounted'
    <2>1. /\ applying[t].kind # "submit" /\ UNCHANGED last_id
          /\ UNCHANGED wifi_budget \/ Disturb
      BY <1>6 DEF ApplyConfig, ApplyConnect, esp_wifi_connect_ok, esp_wifi_connect_fails
    <2>2. applying'[t].kind \in {"none", "connect"} /\ \A u \in Tasks \ {t} : applying'[u] = applying[u]
      <3>1. applying[t] \in Applications
        BY <1>6, ApplicationTyped DEF ApplyConfig, ApplyConnect
      <3>2. applying' = [applying EXCEPT ![t] = Nothing]
            \/ applying' = [applying EXCEPT ![t] = [applying[t] EXCEPT !.kind = "connect"]]
        BY <1>6 DEF ApplyConfig, ApplyConnect
      <3>3. [applying[t] EXCEPT !.kind = "connect"].kind = "connect"
        BY <3>1, ApplicationsOf
      <3>. QED  BY <1>0, <3>2, <3>3 DEF WifiQueues
    <2>3. t = "ui" \/ t = "httpd"
      BY DEF Tasks
    <2>. QED  BY <1>0, <2>1, <2>2, <2>3 DEF RequestsCounted, Disturb
  <1>7. CASE UiRuns \/ OnDenyClicked \/ ConnectToWifi \/ StartSetupAccessPoint
    BY <1>7, <1>a DEF UiRuns, OnDenyClicked, ConnectToWifi, StartSetupAccessPoint
  <1>8. CASE OnAllowClicked \/ \E c \in FormCreds : OnConnectClicked(c)
    <2>1. UNCHANGED last_id /\ (UNCHANGED wifi_budget \/ Disturb)
      BY <1>8 DEF OnAllowClicked, OnConnectClicked
    <2>2. applying'["httpd"] = applying["httpd"]
          /\ (applying'["ui"] = applying["ui"] \/ applying'["ui"].kind = "config")
      BY <1>0, <1>8 DEF OnAllowClicked, OnConnectClicked, WifiQueues
    <2>. QED  BY <1>0, <2>1, <2>2 DEF RequestsCounted, Disturb
  <1>9. CASE WifiResetAndReboot
    <2>1. /\ applying' = [t \in Tasks |-> Nothing] /\ last_id' = 0 /\ Disturb
      BY <1>9 DEF WifiResetAndReboot, Booted
    <2>. QED  BY <1>0, <2>1 DEF RequestsCounted, Disturb
  <1>. QED
    BY <1>1, <1>2, <1>3, <1>4, <1>5, <1>6, <1>7, <1>8, <1>9, WifiActions, Zenon

\* A post that is not a request, and the prompt going, leave what is shown true.
LEMMA ShownKept ==
    ASSUME WifiQueues, ShownInv, UNCHANGED last_id, pending' \in {pending, NoCreds},
           prompt' \in {prompt, Nothing},
           applying'["ui"] = Nothing \/ applying'["ui"].creds = applying'["ui"].shown,
           \/ UNCHANGED wifi_ui
           \/ \E p \in UiPosts : p.kind # "pending" /\ wifi_ui' = Append(wifi_ui, p)
    PROVE  ShownInv'
  <1>1. \A r : Current(r, last_id, pending) => Current(r, last_id', pending')
    BY DEF Current
  <1>2. \A i \in 1..Len(wifi_ui)' : wifi_ui'[i].kind = "pending" =>
           i \in 1..Len(wifi_ui) /\ wifi_ui'[i] = wifi_ui[i]
    <2>1. CASE UNCHANGED wifi_ui
      BY <2>1
    <2>2. CASE \E p \in UiPosts : p.kind # "pending" /\ wifi_ui' = Append(wifi_ui, p)
      BY <2>2, Appended DEF WifiQueues
    <2>. QED  BY <2>1, <2>2
  <1>3. \A i \in 1..Len(wifi_ui)' : wifi_ui'[i].kind = "pending" =>
           Current(wifi_ui'[i], last_id', pending')
    BY <1>1, <1>2 DEF ShownInv
  <1>4. prompt' # Nothing => Current(prompt', last_id', pending')
    BY <1>1 DEF ShownInv
  <1>5. ApprovedAsShown'
    BY DEF ApprovedAsShown
  <1>. QED  BY <1>3, <1>4, <1>5 DEF ShownInv

LEMMA ShownInvStep ==
    ASSUME WifiTypes, WifiQueues, RequestsCounted, ShownInv, WifiNext
    PROVE  ShownInv'
  <1> USE DEF driver, g_state, timers, requests, screen
  <1>0. /\ "ui" \in Tasks /\ "httpd" \in Tasks /\ "ui" # "httpd"
        /\ applying["ui"] = Nothing \/ applying["ui"].creds = applying["ui"].shown
        /\ DOMAIN applying = Tasks
    BY DEF ShownInv, ApprovedAsShown, Tasks, WifiQueues
  <1>1. CASE \/ AttemptSucceeds \/ AttemptFails \/ LinkLost \/ PhoneJoins \/ PhoneLeaves
             \/ OnStaStart \/ OnDisconnected \/ OnApJoined \/ OnApLeft \/ OnGotIp
    BY <1>0, <1>1, ShownKept DEF AttemptSucceeds, AttemptFails, LinkLost, PhoneJoins,
       PhoneLeaves, OnStaStart, OnDisconnected, OnApJoined, OnApLeft, OnGotIp
  <1>2. CASE AfterDisconnected \/ AfterApJoined \/ AfterApLeft \/ AfterGotIp
    <2>1. [kind |-> "failed"] \in UiPosts /\ [kind |-> "connected"] \in UiPosts
      BY DEF UiPosts
    <2>2. \/ UNCHANGED wifi_ui
          \/ \E p \in UiPosts : p.kind # "pending" /\ wifi_ui' = Append(wifi_ui, p)
      BY <1>2, <2>1 DEF AfterDisconnected, AfterApJoined, AfterApLeft, AfterGotIp
    <2>3. /\ UNCHANGED <<last_id, prompt, applying>> /\ pending' \in {pending, NoCreds}
      BY <1>2 DEF AfterDisconnected, AfterApJoined, AfterApLeft, AfterGotIp
    <2>. QED  BY <1>0, <2>2, <2>3, ShownKept
  <1>3. CASE ReconnectTimerCallback \/ RecoveryStop \/ RecoveryStart \/ RecoveryServe
             \/ ConnectToWifi \/ StartSetupAccessPoint
    <2>1. [kind |-> "setup_needed"] \in UiPosts
      BY DEF UiPosts
    <2>2. \/ UNCHANGED wifi_ui
          \/ \E p \in UiPosts : p.kind # "pending" /\ wifi_ui' = Append(wifi_ui, p)
      BY <1>3, <2>1 DEF ReconnectTimerCallback, RecoveryStop, RecoveryStart, RecoveryServe,
                        ConnectToWifi, StartSetupAccessPoint
    <2>3. UNCHANGED <<last_id, prompt, applying, pending>>
      BY <1>3 DEF ReconnectTimerCallback, RecoveryStop, RecoveryStart, RecoveryServe,
                  ConnectToWifi, StartSetupAccessPoint
    <2>. QED  BY <1>0, <2>2, <2>3, ShownKept
  <1>4. CASE \E c \in FormCreds : HandlePostConnect(c)
    <2>1. UNCHANGED <<last_id, prompt, pending, wifi_ui>> /\ applying'["ui"] = applying["ui"]
      BY <1>0, <1>4 DEF HandlePostConnect
    <2>. QED  BY <1>0, <2>1, ShownKept
  <1>5. CASE HandleRecoveryRequest
    <2> DEFINE p == [kind |-> "pending", id |-> last_id + 1, creds |-> pending']
    <2>1. last_id \in Nat /\ last_id' = last_id + 1 /\ pending' \in ValidCreds
      BY <1>0, <1>5, ApplicationTyped DEF HandleRecoveryRequest, RequestsCounted
    <2>2. p \in UiPosts /\ Current(p, last_id', pending')
      BY <2>1 DEF UiPosts, Submissions, Current
    <2>3. wifi_ui' = Append(wifi_ui, p) /\ applying'["ui"] = applying["ui"] /\ UNCHANGED prompt
      BY <1>0, <1>5 DEF HandleRecoveryRequest
    <2> HIDE DEF p
    <2>4. \A r : r.id \in Nat /\ Current(r, last_id, pending) => Current(r, last_id', pending')
      BY <2>1 DEF Current
    <2>5. ASSUME NEW i \in 1..Len(wifi_ui'), wifi_ui'[i].kind = "pending"
          PROVE  Current(wifi_ui'[i], last_id', pending')
      <3>1. CASE i = Len(wifi_ui) + 1
        BY <2>2, <2>3, <3>1, Appended DEF WifiQueues
      <3>2. CASE i \in 1..Len(wifi_ui)
        <4>1. wifi_ui'[i] = wifi_ui[i] /\ wifi_ui[i] \in UiPosts
          BY <2>2, <2>3, <3>2, Appended DEF WifiQueues
        <4>2. wifi_ui[i].id \in Nat
          BY <2>5, <4>1 DEF UiPosts, Submissions
        <4>. QED  BY <2>4, <2>5, <3>2, <4>1, <4>2 DEF ShownInv
      <3>3. Len(wifi_ui') = Len(wifi_ui) + 1 /\ Len(wifi_ui) \in Nat
        BY <2>2, <2>3, Appended DEF WifiQueues
      <3>. QED  BY <3>1, <3>2, <3>3
    <2>6. prompt' # Nothing => Current(prompt', last_id', pending')
      BY <2>3, <2>4 DEF ShownInv, WifiQueues, Submissions
    <2>7. ApprovedAsShown'
      BY <1>0, <2>3 DEF ApprovedAsShown
    <2>. QED  BY <2>5, <2>6, <2>7 DEF ShownInv
  <1>6. ASSUME NEW t \in Tasks, ApplyConfig(t) \/ ApplyConnect(t) PROVE ShownInv'
    <2>1. UNCHANGED <<last_id, prompt, pending, wifi_ui>>
      BY <1>6 DEF ApplyConfig, ApplyConnect
    <2>2. applying[t] \in Applications
      BY <1>6, ApplicationTyped DEF ApplyConfig, ApplyConnect
    <2>3. applying' = [applying EXCEPT ![t] = Nothing]
          \/ applying' = [applying EXCEPT ![t] = [applying[t] EXCEPT !.kind = "connect"]]
      BY <1>6 DEF ApplyConfig, ApplyConnect
    <2>4. applying'["ui"] = Nothing \/ applying'["ui"].creds = applying'["ui"].shown
      <3>1. CASE t = "ui"
        BY <1>0, <2>2, <2>3, <3>1, ApplicationsOf DEF Nothing, Applications
      <3>2. CASE t # "ui"
        BY <1>0, <2>3, <3>2
      <3>. QED  BY <3>1, <3>2
    <2>. QED  BY <2>1, <2>4, ShownKept
  <1>7. CASE UiRuns
    <2>1. wifi_ui # <<>> /\ wifi_ui' = Tail(wifi_ui) /\ UNCHANGED <<last_id, pending, applying>>
      BY <1>7 DEF UiRuns
    <2>2. wifi_ui \in Seq(UiPosts)
      BY DEF WifiQueues
    <2>3. \A i \in 1..Len(wifi_ui') : i + 1 \in 1..Len(wifi_ui) /\ wifi_ui'[i] = wifi_ui[i + 1]
      BY <2>1, <2>2, HeadAndTail
    <2>4. Head(wifi_ui) = wifi_ui[1] /\ 1 \in 1..Len(wifi_ui)
      BY <2>1, <2>2, HeadAndTail
    <2>5. \A i \in 1..Len(wifi_ui') : wifi_ui'[i].kind = "pending" =>
             Current(wifi_ui'[i], last_id', pending')
      BY <2>1, <2>3 DEF ShownInv
    <2>6. prompt' # Nothing => Current(prompt', last_id', pending')
      BY <1>7, <2>1, <2>4 DEF UiRuns, PromptAfter, ShownInv
    <2>. QED  BY <1>0, <2>1, <2>5, <2>6 DEF ShownInv, ApprovedAsShown
  <1>8. CASE \E c \in FormCreds : OnConnectClicked(c)
    <2>1. UNCHANGED <<last_id, prompt, pending, wifi_ui>>
          /\ (applying'["ui"] = applying["ui"] \/ applying'["ui"].creds = applying'["ui"].shown)
      BY <1>0, <1>8 DEF OnConnectClicked
    <2>. QED  BY <1>0, <2>1, ShownKept
  <1>9. CASE OnAllowClicked
    <2>1. UNCHANGED <<last_id, wifi_ui>> /\ prompt' = Nothing /\ pending' \in {pending, NoCreds}
      BY <1>9 DEF OnAllowClicked
    <2>2. applying'["ui"] = applying["ui"] \/ applying'["ui"].creds = applying'["ui"].shown
      <3>1. CASE Taken = NoCreds
        BY <1>9, <3>1 DEF OnAllowClicked
      <3>2. CASE Taken # NoCreds
        <4>1. Taken = pending /\ prompt.id = last_id /\ pending # NoCreds
          BY <3>2, TakenValid
        <4>2. prompt.creds = pending
          BY <1>9, <4>1 DEF OnAllowClicked, ShownInv, Current
        <4>3. applying' = [applying EXCEPT !["ui"] = [kind |-> "config", creds |-> Taken,
                                                       shown |-> prompt.creds]]
          BY <1>9, <3>2 DEF OnAllowClicked
        <4>. QED  BY <1>0, <4>1, <4>2, <4>3
      <3>. QED  BY <3>1, <3>2
    <2>. QED  BY <1>0, <2>1, <2>2, ShownKept
  <1>10. CASE OnDenyClicked
    BY <1>0, <1>10, ShownKept DEF OnDenyClicked
  <1>11. CASE WifiResetAndReboot
    <2>1. /\ wifi_ui' = <<>> /\ prompt' = Nothing /\ applying' = [t \in Tasks |-> Nothing]
      BY <1>11 DEF WifiResetAndReboot, Booted
    <2>. QED  BY <1>0, <2>1 DEF ShownInv, ApprovedAsShown
  <1>. QED
    BY <1>1, <1>2, <1>3, <1>4, <1>5, <1>6, <1>7, <1>8, <1>9, <1>10, <1>11, WifiActions, Zenon

\* As long as a form stays up or is being taken down, nothing is orphaned; a
\* post that is not a request changes nothing either.
LEMMA OrphanKept ==
    ASSUME WifiQueues, OrphanInv,
           setup_server # "none" => setup_server' # "none",
           handling.kind = "got_ip" => handling' = handling,
           pending' \in {pending, NoCreds}, prompt' \in {prompt, Nothing},
           applying'["httpd"] = applying["httpd"] \/ applying'["httpd"] = Nothing
              \/ setup_server' # "none",
           \/ UNCHANGED wifi_ui
           \/ \E p \in UiPosts : p.kind # "pending" /\ wifi_ui' = Append(wifi_ui, p)
    PROVE  OrphanInv'
  <1>1. /\ Len(wifi_ui) \in Nat /\ Len(wifi_ui') \in Nat /\ Len(wifi_ui) <= Len(wifi_ui')
        /\ \A i \in 1..Len(wifi_ui) : wifi_ui'[i] = wifi_ui[i]
        /\ \A i \in 1..Len(wifi_ui') : wifi_ui'[i].kind = "pending" => i \in 1..Len(wifi_ui)
    <2>1. CASE UNCHANGED wifi_ui
      BY <2>1 DEF WifiQueues
    <2>2. CASE \E p \in UiPosts : p.kind # "pending" /\ wifi_ui' = Append(wifi_ui, p)
      BY <2>2, Appended DEF WifiQueues
    <2>. QED  BY <2>1, <2>2
  <1>2. FormServed => FormServed'
    BY DEF FormServed
  <1>3. pending' # NoCreds => FormServed'
    BY <1>2 DEF OrphanInv
  <1>4. applying'["httpd"] # Nothing =>
           setup_server' # "none" \/ (handling'.kind = "got_ip" /\ handling'.stop)
    BY DEF OrphanInv
  <1>5. prompt' # Nothing =>
           FormServed' \/ \E j \in 1..Len(wifi_ui') : wifi_ui'[j].kind = "connected"
    BY <1>1, <1>2 DEF OrphanInv
  <1>6. \A i \in 1..Len(wifi_ui') : wifi_ui'[i].kind = "pending" =>
           FormServed' \/ \E j \in 1..Len(wifi_ui') : j > i /\ wifi_ui'[j].kind = "connected"
    BY <1>1, <1>2 DEF OrphanInv
  <1>. QED  BY <1>3, <1>4, <1>5, <1>6 DEF OrphanInv

LEMMA OrphanInvStep ==
    ASSUME WifiTypes, WifiQueues, OrphanInv, WifiNext
    PROVE  OrphanInv'
  <1> USE DEF driver, g_state, timers, requests, screen
  <1>0. /\ "ui" \in Tasks /\ "httpd" \in Tasks /\ "ui" # "httpd" /\ DOMAIN applying = Tasks
        /\ Nothing.kind = "none"
        /\ [kind |-> "failed"] \in UiPosts /\ [kind |-> "connected"] \in UiPosts
        /\ [kind |-> "setup_needed"] \in UiPosts
        /\ wifi_ui \in Seq(UiPosts)
    BY DEF Tasks, WifiQueues, UiPosts, Nothing
  <1>1. CASE \/ AttemptSucceeds \/ AttemptFails \/ LinkLost \/ PhoneJoins \/ PhoneLeaves
             \/ OnStaStart \/ OnDisconnected \/ OnApJoined \/ OnApLeft
    <2>1. UNCHANGED <<wifi_ui, pending, prompt, applying, setup_server>>
      BY <1>1 DEF AttemptSucceeds, AttemptFails, LinkLost, PhoneJoins, PhoneLeaves,
         OnStaStart, OnDisconnected, OnApJoined, OnApLeft
    <2>2. UNCHANGED handling \/ handling = Nothing
      BY <1>1 DEF AttemptSucceeds, AttemptFails, LinkLost, PhoneJoins, PhoneLeaves,
         OnStaStart, OnDisconnected, OnApJoined, OnApLeft, NextEvent
    <2>. QED  BY <1>0, <2>1, <2>2, OrphanKept
  <1>2. CASE OnGotIp
    <2>1. /\ handling = Nothing /\ handling'.kind = "got_ip"
          /\ handling'.stop = (setup_server # "none")
          /\ UNCHANGED <<wifi_ui, pending, prompt, applying>>
      BY <1>2 DEF OnGotIp, NextEvent
    <2>2. FormServed' /\ (applying'["httpd"] # Nothing => handling'.stop)
      BY <1>0, <2>1 DEF FormServed, OrphanInv
    <2>. QED  BY <2>1, <2>2 DEF OrphanInv
  <1>3. CASE AfterDisconnected \/ AfterApJoined \/ AfterApLeft
    <2>1. UNCHANGED <<pending, prompt, applying, setup_server>> /\ handling.kind # "got_ip"
      BY <1>3 DEF AfterDisconnected, AfterApJoined, AfterApLeft
    <2>2. \/ UNCHANGED wifi_ui
          \/ \E p \in UiPosts : p.kind # "pending" /\ wifi_ui' = Append(wifi_ui, p)
      BY <1>0, <1>3 DEF AfterDisconnected, AfterApJoined, AfterApLeft
    <2>. QED  BY <2>1, <2>2, OrphanKept
  <1>4. CASE AfterGotIp
    <2> DEFINE p == [kind |-> "connected"]
    <2>1. /\ pending' = NoCreds /\ wifi_ui' = Append(wifi_ui, p) /\ handling' = Nothing
          /\ UNCHANGED <<prompt, applying, setup_server>>
          /\ handling.stop => applying["httpd"] = Nothing
      BY <1>4 DEF AfterGotIp
    <2>2. p \in UiPosts /\ p.kind = "connected"
      BY DEF UiPosts
    <2> HIDE DEF p
    <2>3. /\ Len(wifi_ui) \in Nat /\ Len(wifi_ui') = Len(wifi_ui) + 1
          /\ wifi_ui'[Len(wifi_ui) + 1].kind = "connected"
      BY <1>0, <2>1, <2>2, Appended
    <2>4. applying'["httpd"] # Nothing => setup_server' # "none"
      BY <2>1 DEF OrphanInv
    <2>5. \A i \in 1..Len(wifi_ui') : wifi_ui'[i].kind = "pending" =>
             \E j \in 1..Len(wifi_ui') : j > i /\ wifi_ui'[j].kind = "connected"
      BY <2>3
    <2>. QED  BY <2>1, <2>3, <2>4, <2>5 DEF OrphanInv
  <1>5. CASE ReconnectTimerCallback \/ RecoveryStop \/ RecoveryStart \/ RecoveryServe
             \/ ConnectToWifi \/ StartSetupAccessPoint
    <2>1. UNCHANGED <<handling, prompt, applying, pending>>
      BY <1>5 DEF ReconnectTimerCallback, RecoveryStop, RecoveryStart, RecoveryServe,
                  ConnectToWifi, StartSetupAccessPoint
    <2>2. setup_server' # "none" \/ UNCHANGED setup_server
      BY <1>5 DEF ReconnectTimerCallback, RecoveryStop, RecoveryStart, RecoveryServe,
                  ConnectToWifi, StartSetupAccessPoint
    <2>3. \/ UNCHANGED wifi_ui
          \/ \E p \in UiPosts : p.kind # "pending" /\ wifi_ui' = Append(wifi_ui, p)
      BY <1>0, <1>5 DEF ReconnectTimerCallback, RecoveryStop, RecoveryStart, RecoveryServe,
                        ConnectToWifi, StartSetupAccessPoint
    <2>. QED  BY <2>1, <2>2, <2>3, OrphanKept
  <1>6. CASE \E c \in FormCreds : HandlePostConnect(c)
    <2>1. UNCHANGED <<handling, prompt, pending, wifi_ui, setup_server>> /\ setup_server # "none"
      BY <1>6 DEF HandlePostConnect
    <2>. QED  BY <2>1, OrphanKept
  <1>7. CASE HandleRecoveryRequest
    <2>1. /\ UNCHANGED <<setup_server, handling>> /\ applying["httpd"].kind = "submit"
          /\ applying'["httpd"] = Nothing
      BY <1>0, <1>7 DEF HandleRecoveryRequest
    <2>2. FormServed'
      BY <1>0, <2>1 DEF OrphanInv, FormServed
    <2>. QED  BY <2>1, <2>2 DEF OrphanInv
  <1>8. ASSUME NEW t \in Tasks, ApplyConfig(t) \/ ApplyConnect(t) PROVE OrphanInv'
    <2>1. UNCHANGED <<handling, prompt, pending, wifi_ui, setup_server>>
          /\ applying[t].kind # "none"
      BY <1>8 DEF ApplyConfig, ApplyConnect
    <2>2. \A u \in Tasks \ {t} : applying'[u] = applying[u]
      BY <1>0, <1>8 DEF ApplyConfig, ApplyConnect
    <2>3. applying["httpd"] = Nothing => applying'["httpd"] = Nothing
      BY <1>0, <2>1, <2>2
    <2>4. applying'["httpd"] # Nothing =>
             setup_server' # "none" \/ (handling'.kind = "got_ip" /\ handling'.stop)
      BY <2>1, <2>3 DEF OrphanInv
    <2>. QED  BY <2>1, <2>4 DEF OrphanInv, FormServed
  <1>9. CASE UiRuns
    <2>1. wifi_ui # <<>> /\ wifi_ui' = Tail(wifi_ui)
          /\ UNCHANGED <<handling, pending, applying, setup_server>>
      BY <1>9 DEF UiRuns
    <2>2. /\ \A i \in 1..Len(wifi_ui') : i + 1 \in 1..Len(wifi_ui) /\ wifi_ui'[i] = wifi_ui[i + 1]
          /\ Head(wifi_ui) = wifi_ui[1] /\ Len(wifi_ui) \in Nat \ {0}
          /\ Len(wifi_ui') = Len(wifi_ui) - 1
      BY <1>0, <2>1, HeadAndTail
    <2>3. \A j \in 1..Len(wifi_ui) : j > 1 => j - 1 \in 1..Len(wifi_ui') /\ wifi_ui'[j - 1] = wifi_ui[j]
      BY <2>2
    <2>4. FormServed' = FormServed
      BY <2>1 DEF FormServed
    <2>5. ASSUME NEW i \in 1..Len(wifi_ui'), wifi_ui'[i].kind = "pending", ~FormServed
          PROVE  \E j \in 1..Len(wifi_ui') : j > i /\ wifi_ui'[j].kind = "connected"
      <3>1. PICK j \in 1..Len(wifi_ui) : j > i + 1 /\ wifi_ui[j].kind = "connected"
        BY <2>2, <2>5 DEF OrphanInv
      <3>2. j - 1 \in 1..Len(wifi_ui') /\ wifi_ui'[j - 1] = wifi_ui[j] /\ j - 1 > i
        BY <2>2, <2>3, <3>1
      <3>. QED  BY <3>1, <3>2
    <2>6. ASSUME prompt' # Nothing, ~FormServed
          PROVE  \E j \in 1..Len(wifi_ui') : wifi_ui'[j].kind = "connected"
      <3>1. wifi_ui[1].kind # "connected"
        BY <1>9, <2>2, <2>6 DEF UiRuns, PromptAfter
      <3>2. \E j \in 1..Len(wifi_ui) : wifi_ui[j].kind = "connected"
        <4>1. CASE wifi_ui[1].kind = "pending"
          BY <2>2, <2>6, <4>1 DEF OrphanInv
        <4>2. CASE wifi_ui[1].kind # "pending"
          BY <1>9, <2>2, <2>6, <3>1, <4>2 DEF OrphanInv, UiRuns, PromptAfter
        <4>. QED  BY <4>1, <4>2
      <3>3. PICK j \in 1..Len(wifi_ui) : wifi_ui[j].kind = "connected"
        BY <3>2
      <3>4. j > 1
        BY <3>1, <3>3
      <3>. QED  BY <2>3, <3>3, <3>4
    <2>. QED  BY <2>1, <2>4, <2>5, <2>6 DEF OrphanInv
  <1>10. CASE OnAllowClicked \/ OnDenyClicked \/ \E c \in FormCreds : OnConnectClicked(c)
    <2>1. /\ UNCHANGED <<handling, wifi_ui, setup_server>>
          /\ prompt' \in {prompt, Nothing} /\ pending' \in {pending, NoCreds}
      BY <1>10 DEF OnAllowClicked, OnDenyClicked, OnConnectClicked
    <2>2. applying'["httpd"] = applying["httpd"]
      BY <1>0, <1>10 DEF OnAllowClicked, OnDenyClicked, OnConnectClicked
    <2>. QED  BY <2>1, <2>2, OrphanKept
  <1>11. CASE WifiResetAndReboot
    <2>1. /\ wifi_ui' = <<>> /\ prompt' = Nothing /\ applying' = [t \in Tasks |-> Nothing]
          /\ pending' = NoCreds
      BY <1>11 DEF WifiResetAndReboot, Booted
    <2>. QED  BY <1>0, <2>1 DEF OrphanInv
  <1>. QED
    BY <1>1, <1>2, <1>3, <1>4, <1>5, <1>6, <1>7, <1>8, <1>9, <1>10, <1>11, WifiActions, Zenon

-----------------------------------------------------------------------------
\* The phone's events: what appending one and taking the first does.

LEMMA PhoneAppendsOther ==
    ASSUME NEW q \in Seq(WifiEvents), NEW n, NEW joined, PhoneOK(q, n, joined),
           NEW e \in WifiEvents, ~IsAp(e)
    PROVE  PhoneOK(Append(q, e), n, joined)
  <1> DEFINE r == Append(q, e)
  <1>1. /\ Len(q) \in Nat /\ Len(r) = Len(q) + 1 /\ r[Len(q) + 1] = e
        /\ \A i \in 1..Len(q) : r[i] = q[i]
    BY Appended
  <1> HIDE DEF r
  <1>2. \A i \in 1..Len(r) : i \in 1..Len(q) \/ (i = Len(q) + 1 /\ ~IsAp(r[i]))
    BY <1>1
  <1>3. \A i \in 1..Len(q) : i \in 1..Len(r)
    BY <1>1
  <1>4. \A i \in 1..Len(r) : IsAp(r[i]) => i \in 1..Len(q) /\ r[i] = q[i]
    BY <1>1, <1>2
  <1>5. "ap_joined" \in WifiEvents /\ IsAp("ap_joined")
    BY DEF IsAp, WifiEvents
  <1>6. \A i, k \in 1..Len(r) :
          /\ i < k /\ IsAp(r[i]) /\ IsAp(r[k])
          /\ \A j \in 1..Len(r) : i < j /\ j < k => ~IsAp(r[j])
          => r[i] # r[k]
    BY <1>1, <1>3, <1>4 DEF PhoneOK
  <1>7. \A i \in 1..Len(r) :
          /\ r[i] = "ap_joined"
          /\ \A j \in 1..Len(r) : j < i => ~IsAp(r[j])
          => n = 0
    BY <1>1, <1>3, <1>4, <1>5 DEF PhoneOK
  <1>8. \A i \in 1..Len(r) :
          /\ IsAp(r[i])
          /\ \A j \in 1..Len(r) : i < j => ~IsAp(r[j])
          => (joined <=> r[i] = "ap_joined")
    BY <1>1, <1>3, <1>4 DEF PhoneOK
  <1>9. (\A i \in 1..Len(r) : ~IsAp(r[i])) /\ n = 1 => joined
    BY <1>1, <1>3 DEF PhoneOK
  <1>10. n \in 0..1
    BY DEF PhoneOK
  <1>11. PhoneOK(r, n, joined)
    BY <1>6, <1>7, <1>8, <1>9, <1>10 DEF PhoneOK
  <1>. QED  BY <1>11 DEF r

LEMMA PhoneAppendsAp ==
    ASSUME NEW q \in Seq(WifiEvents), NEW n, NEW joined \in BOOLEAN, PhoneOK(q, n, joined)
    PROVE  PhoneOK(Append(q, IF joined THEN "ap_left" ELSE "ap_joined"), n, ~joined)
  <1> DEFINE e == IF joined THEN "ap_left" ELSE "ap_joined"
             r == Append(q, e)
  <1>0. e \in WifiEvents /\ IsAp(e) /\ (e = "ap_joined" <=> ~joined)
    BY DEF WifiEvents, IsAp
  <1> HIDE DEF e
  <1>1. /\ Len(q) \in Nat /\ Len(r) = Len(q) + 1 /\ r[Len(q) + 1] = e
        /\ \A i \in 1..Len(q) : r[i] = q[i]
    BY <1>0, Appended
  <1> HIDE DEF r
  <1>2. \A i \in 1..Len(r) : (i \in 1..Len(q) /\ r[i] = q[i]) \/ (i = Len(q) + 1 /\ r[i] = e)
    BY <1>1
  <1>3. Len(q) + 1 \in 1..Len(r) /\ \A i \in 1..Len(q) : i \in 1..Len(r) /\ i < Len(q) + 1
    BY <1>1
  <1>4. ASSUME NEW i \in 1..Len(r), NEW k \in 1..Len(r), i < k, IsAp(r[i]), IsAp(r[k]),
               \A j \in 1..Len(r) : i < j /\ j < k => ~IsAp(r[j])
        PROVE  r[i] # r[k]
    <2>1. i \in 1..Len(q) /\ r[i] = q[i]
      BY <1>1, <1>4
    <2>2. CASE k \in 1..Len(q)
      <3>1. \A j \in 1..Len(q) : i < j /\ j < k => ~IsAp(q[j])
        BY <1>1, <1>3, <1>4
      <3>. QED  BY <1>1, <1>4, <2>1, <2>2, <3>1 DEF PhoneOK
    <2>3. CASE k = Len(q) + 1
      <3>1. \A j \in 1..Len(q) : i < j => ~IsAp(q[j])
        BY <1>1, <1>3, <1>4, <2>3
      <3>2. joined <=> q[i] = "ap_joined"
        BY <1>4, <2>1, <3>1 DEF PhoneOK
      <3>. QED  BY <1>0, <1>1, <2>1, <2>3, <3>2
    <2>. QED  BY <1>2, <2>2, <2>3
  <1>5. ASSUME NEW i \in 1..Len(r), r[i] = "ap_joined",
               \A j \in 1..Len(r) : j < i => ~IsAp(r[j])
        PROVE  n = 0
    <2>1. CASE i \in 1..Len(q)
      <3>1. \A j \in 1..Len(q) : j < i => ~IsAp(q[j])
        BY <1>1, <1>3, <1>5
      <3>. QED  BY <1>1, <1>5, <2>1, <3>1 DEF PhoneOK
    <2>2. CASE i = Len(q) + 1
      <3>1. \A j \in 1..Len(q) : ~IsAp(q[j])
        BY <1>1, <1>3, <1>5, <2>2
      <3>2. ~joined
        BY <1>0, <1>1, <1>5, <2>2
      <3>. QED  BY <3>1, <3>2 DEF PhoneOK
    <2>. QED  BY <1>2, <2>1, <2>2
  <1>6. ASSUME NEW i \in 1..Len(r), IsAp(r[i]), \A j \in 1..Len(r) : i < j => ~IsAp(r[j])
        PROVE  ~joined <=> r[i] = "ap_joined"
    <2>1. i = Len(q) + 1
      BY <1>0, <1>1, <1>2, <1>3, <1>6
    <2>. QED  BY <1>0, <1>1, <2>1
  <1>7. ~(\A i \in 1..Len(r) : ~IsAp(r[i]))
    BY <1>0, <1>1, <1>3
  <1>8. n \in 0..1
    BY DEF PhoneOK
  <1>9. PhoneOK(r, n, ~joined)
    BY <1>4, <1>5, <1>6, <1>7, <1>8, Zenon DEF PhoneOK
  <1>. QED  BY <1>9 DEF r, e

LEMMA PhoneTail ==
    ASSUME NEW q \in Seq(WifiEvents), q # <<>>, NEW n, NEW joined \in BOOLEAN,
           PhoneOK(q, n, joined), NEW m,
           Head(q) = "ap_joined" => m = n + 1,
           Head(q) = "ap_left" => m = IF n = 0 THEN 0 ELSE n - 1,
           ~IsAp(Head(q)) => m = n
    PROVE  PhoneOK(Tail(q), m, joined)
  <1> DEFINE r == Tail(q)
  <1>1. /\ Head(q) = q[1] /\ Len(q) \in Nat \ {0} /\ Len(r) = Len(q) - 1
        /\ \A i \in 1..Len(r) : i + 1 \in 1..Len(q) /\ r[i] = q[i + 1]
    BY HeadAndTail
  <1> HIDE DEF r
  <1>2. 1 \in 1..Len(q)
        /\ \A j \in 1..Len(q) : j = 1 \/ (j - 1 \in 1..Len(r) /\ r[j - 1] = q[j])
    BY <1>1
  <1>3. n \in 0..1
    BY DEF PhoneOK
  <1>4. Head(q) = "ap_joined" => n = 0 /\ m = 1
    BY <1>1, <1>2 DEF PhoneOK
  <1>5. Head(q) = "ap_left" => m = 0
    BY <1>3
  <1>6. IsAp(Head(q)) <=> Head(q) \in {"ap_joined", "ap_left"}
    BY DEF IsAp
  <1>7. ASSUME NEW i \in 1..Len(r), NEW k \in 1..Len(r), i < k, IsAp(r[i]), IsAp(r[k]),
               \A j \in 1..Len(r) : i < j /\ j < k => ~IsAp(r[j])
        PROVE  r[i] # r[k]
    <2>1. \A j \in 1..Len(q) : i + 1 < j /\ j < k + 1 => ~IsAp(q[j])
      BY <1>1, <1>2, <1>7
    <2>2. i + 1 \in 1..Len(q) /\ k + 1 \in 1..Len(q) /\ i + 1 < k + 1
          /\ IsAp(q[i + 1]) /\ IsAp(q[k + 1])
      BY <1>1, <1>7
    <2>3. q[i + 1] # q[k + 1]
      BY <2>1, <2>2 DEF PhoneOK
    <2>. QED  BY <1>1, <2>3
  <1>8. ASSUME NEW i \in 1..Len(r), r[i] = "ap_joined",
               \A j \in 1..Len(r) : j < i => ~IsAp(r[j])
        PROVE  m = 0
    <2>1. i + 1 \in 1..Len(q) /\ q[i + 1] = "ap_joined"
          /\ \A j \in 1..Len(q) : 1 < j /\ j < i + 1 => ~IsAp(q[j])
      BY <1>1, <1>2, <1>8
    <2>2. CASE IsAp(Head(q))
      <3>1. IsAp(q[1]) /\ IsAp(q[i + 1]) /\ 1 < i + 1
        BY <1>1, <2>1, <2>2 DEF IsAp
      <3>2. q[1] # q[i + 1]
        BY <1>2, <2>1, <3>1 DEF PhoneOK
      <3>. QED  BY <1>1, <1>5, <1>6, <2>1, <2>2, <3>2
    <2>3. CASE ~IsAp(Head(q))
      <3>1. \A j \in 1..Len(q) : j < i + 1 => ~IsAp(q[j])
        BY <1>1, <2>1, <2>3
      <3>. QED  BY <2>1, <2>3, <3>1 DEF PhoneOK
    <2>. QED  BY <2>2, <2>3
  <1>9. ASSUME NEW i \in 1..Len(r), IsAp(r[i]), \A j \in 1..Len(r) : i < j => ~IsAp(r[j])
        PROVE  joined <=> r[i] = "ap_joined"
    <2>1. i + 1 \in 1..Len(q) /\ q[i + 1] = r[i] /\ \A j \in 1..Len(q) : i + 1 < j => ~IsAp(q[j])
      BY <1>1, <1>2, <1>9
    <2>. QED  BY <1>9, <2>1 DEF PhoneOK
  <1>10. ASSUME \A i \in 1..Len(r) : ~IsAp(r[i]), m = 1 PROVE joined
    <2>1. \A j \in 1..Len(q) : 1 < j => ~IsAp(q[j])
      BY <1>2, <1>10
    <2>2. CASE Head(q) = "ap_joined"
      <3>1. IsAp(q[1]) /\ q[1] = "ap_joined"
        BY <1>1, <2>2 DEF IsAp
      <3>. QED  BY <1>2, <2>1, <3>1 DEF PhoneOK
    <2>3. CASE ~IsAp(Head(q))
      <3>1. \A j \in 1..Len(q) : ~IsAp(q[j])
        BY <1>1, <2>1, <2>3
      <3>. QED  BY <1>10, <2>3, <3>1 DEF PhoneOK
    <2>. QED  BY <1>5, <1>6, <1>10, <2>2, <2>3
  <1>11. m \in 0..1
    BY <1>3, <1>4, <1>5, <1>6
  <1>12. PhoneOK(r, m, joined)
    BY <1>7, <1>8, <1>9, <1>10, <1>11 DEF PhoneOK
  <1>. QED  BY <1>12 DEF r

\* OnGotIp() forgets the count.
LEMMA PhoneForgets ==
    ASSUME NEW q, NEW n, NEW joined, PhoneOK(q, n, joined)
    PROVE  PhoneOK(q, 0, joined)
  BY DEF PhoneOK

LEMMA PhoneDrops ==
    ASSUME WifiFlags, PhoneInv, wifi_events \in Seq(WifiEvents),
           NEW more \in {<<>>, <<"disconnected">>}, DropPhone(more), UNCHANGED ap_client_count
    PROVE  PhoneInv'
  <1> DEFINE q == IF ap_station THEN Append(wifi_events, "ap_left") ELSE wifi_events
  <1>1. /\ q \in Seq(WifiEvents) /\ ~ap_station'
        /\ wifi_events' = q \/ wifi_events' = Append(q, "disconnected")
    BY PhoneDropped
  <1>2. PhoneOK(q, ap_client_count, FALSE)
    <2>1. CASE ap_station
      <3>1. PhoneOK(Append(wifi_events, IF TRUE THEN "ap_left" ELSE "ap_joined"),
                    ap_client_count, ~TRUE)
        BY <2>1, PhoneAppendsAp DEF PhoneInv, WifiFlags
      <3>. QED  BY <2>1, <3>1
    <2>2. CASE ~ap_station
      BY <2>2 DEF PhoneInv, WifiFlags
    <2>. QED  BY <2>1, <2>2
  <1> HIDE DEF q
  <1>3. PhoneOK(wifi_events', ap_client_count, FALSE)
    <2>1. "disconnected" \in WifiEvents /\ ~IsAp("disconnected")
      BY DEF WifiEvents, IsAp
    <2>. QED  BY <1>1, <1>2, <2>1, PhoneAppendsOther
  <1>4. ap_station' = FALSE
    BY DEF DropPhone
  <1>. QED  BY <1>3, <1>4 DEF PhoneInv

LEMMA PhoneInvStep ==
    ASSUME WifiTypes, WifiFlags, WifiQueues, PhoneInv, WifiNext
    PROVE  PhoneInv'
  <1> USE DEF driver, g_state, timers, requests, screen
  <1>0. /\ wifi_events \in Seq(WifiEvents) /\ ap_station \in BOOLEAN
        /\ PhoneOK(wifi_events, ap_client_count, ap_station)
    BY DEF WifiQueues, WifiFlags, PhoneInv
  <1>a. ASSUME NEW e \in {"sta_start", "disconnected", "got_ip"},
               wifi_events' = Append(wifi_events, e), UNCHANGED <<ap_client_count, ap_station>>
        PROVE  PhoneInv'
    <2>1. e \in WifiEvents /\ ~IsAp(e)
      BY DEF WifiEvents, IsAp
    <2>. QED  BY <1>0, <1>a, <2>1, PhoneAppendsOther DEF PhoneInv
  <1>1. CASE AttemptSucceeds \/ AttemptFails \/ LinkLost
    <2>1. UNCHANGED <<ap_client_count, ap_station>>
      BY <1>1 DEF AttemptSucceeds, AttemptFails, LinkLost
    <2>2. wifi_events' = Append(wifi_events, "got_ip")
          \/ wifi_events' = Append(wifi_events, "disconnected")
      BY <1>1 DEF AttemptSucceeds, AttemptFails, LinkLost
    <2>. QED  BY <1>a, <2>1, <2>2
  <1>2. CASE PhoneJoins
    <2>1. /\ ap_station = FALSE /\ ap_station' = TRUE /\ UNCHANGED ap_client_count
          /\ wifi_events' = Append(wifi_events, "ap_joined")
      BY <1>0, <1>2 DEF PhoneJoins
    <2>2. PhoneOK(Append(wifi_events, IF FALSE THEN "ap_left" ELSE "ap_joined"),
                  ap_client_count, ~FALSE)
      BY <1>0, <2>1, PhoneAppendsAp
    <2>. QED  BY <2>1, <2>2 DEF PhoneInv
  <1>3. CASE PhoneLeaves
    <2>1. /\ ap_station = TRUE /\ ap_station' = FALSE /\ UNCHANGED ap_client_count
          /\ wifi_events' = Append(wifi_events, "ap_left")
      BY <1>0, <1>3 DEF PhoneLeaves
    <2>2. PhoneOK(Append(wifi_events, IF TRUE THEN "ap_left" ELSE "ap_joined"),
                  ap_client_count, ~TRUE)
      BY <1>0, <2>1, PhoneAppendsAp
    <2>. QED  BY <2>1, <2>2 DEF PhoneInv
  <1>4. CASE OnStaStart \/ OnDisconnected \/ OnApJoined \/ OnApLeft
    <2>1. wifi_events # <<>> /\ wifi_events' = Tail(wifi_events) /\ UNCHANGED ap_station
      BY <1>4 DEF OnStaStart, OnDisconnected, OnApJoined, OnApLeft, NextEvent
    <2>2. /\ Head(wifi_events) = "ap_joined" => ap_client_count' = ap_client_count + 1
          /\ Head(wifi_events) = "ap_left" =>
                ap_client_count' = IF ap_client_count = 0 THEN 0 ELSE ap_client_count - 1
          /\ ~IsAp(Head(wifi_events)) => ap_client_count' = ap_client_count
      BY <1>4 DEF OnStaStart, OnDisconnected, OnApJoined, OnApLeft, NextEvent, IsAp
    <2>. QED  BY <1>0, <2>1, <2>2, PhoneTail DEF PhoneInv
  <1>5. CASE OnGotIp
    <2>1. /\ wifi_events # <<>> /\ wifi_events' = Tail(wifi_events) /\ UNCHANGED ap_station
          /\ Head(wifi_events) = "got_ip" /\ ap_client_count' = 0
      BY <1>5 DEF OnGotIp, NextEvent
    <2>2. PhoneOK(wifi_events', ap_client_count, ap_station)
      BY <1>0, <2>1, PhoneTail DEF IsAp
    <2>. QED  BY <2>1, <2>2, PhoneForgets DEF PhoneInv
  <1>6. CASE \/ AfterDisconnected \/ AfterApJoined \/ AfterApLeft \/ ReconnectTimerCallback
             \/ HandleRecoveryRequest \/ UiRuns \/ OnAllowClicked \/ OnDenyClicked
             \/ StartSetupAccessPoint
    BY <1>6 DEF AfterDisconnected, AfterApJoined, AfterApLeft, ReconnectTimerCallback,
       HandleRecoveryRequest, UiRuns, OnAllowClicked, OnDenyClicked, StartSetupAccessPoint,
       PhoneInv
  <1>7. CASE \/ \E c \in FormCreds : HandlePostConnect(c) \/ OnConnectClicked(c)
             \/ \E t \in Tasks : ApplyConfig(t) \/ ApplyConnect(t)
    BY <1>7 DEF HandlePostConnect, OnConnectClicked, ApplyConfig, ApplyConnect, PhoneInv
  <1>8. CASE AfterGotIp \/ RecoveryStop \/ RecoveryServe
    <2>1. UNCHANGED ap_client_count
      BY <1>8 DEF AfterGotIp, RecoveryStop, RecoveryServe
    <2>2. UNCHANGED <<ap_station, wifi_events>>
          \/ DropPhone(<<>>) \/ DropPhone(<<"disconnected">>)
      BY <1>8 DEF AfterGotIp, RecoveryStop, RecoveryServe
    <2>3. CASE UNCHANGED <<ap_station, wifi_events>>
      BY <2>1, <2>3 DEF PhoneInv
    <2>4. CASE DropPhone(<<>>) \/ DropPhone(<<"disconnected">>)
      BY <1>0, <2>1, <2>4, PhoneDrops
    <2>. QED  BY <2>2, <2>3, <2>4
  <1>9. CASE RecoveryStart
    BY <1>9, <1>a DEF RecoveryStart, PhoneInv
  <1>10. CASE ConnectToWifi
    BY <1>10, <1>a DEF ConnectToWifi
  <1>11. CASE WifiResetAndReboot
    BY <1>11 DEF WifiResetAndReboot, Booted, PhoneInv, PhoneOK
  <1>. QED
    BY <1>1, <1>2, <1>3, <1>4, <1>5, <1>6, <1>7, <1>8, <1>9, <1>10, <1>11, WifiActions, Zenon

-----------------------------------------------------------------------------
\* Until ConnectToWifi() starts the driver, nothing happens on the radio's side.
LEMMA RadioOffInvStep ==
    ASSUME WifiFlags, RadioOffInv, WifiNext
    PROVE  RadioOffInv'
  <1> USE DEF driver, g_state, timers, requests, screen
  <1>1. CASE WifiResetAndReboot
    BY <1>1 DEF WifiResetAndReboot, Booted, RadioOffInv
  <1>2. CASE ConnectToWifi \/ StartSetupAccessPoint
    BY <1>2 DEF ConnectToWifi, StartSetupAccessPoint, RadioOffInv
  <1>3. CASE \/ AttemptSucceeds \/ AttemptFails \/ LinkLost \/ PhoneJoins \/ PhoneLeaves
             \/ OnStaStart \/ OnDisconnected \/ OnApJoined \/ OnApLeft \/ OnGotIp
    BY <1>3 DEF AttemptSucceeds, AttemptFails, LinkLost, PhoneJoins, PhoneLeaves, RadioOffInv,
       OnStaStart, OnDisconnected, OnApJoined, OnApLeft, OnGotIp, NextEvent
  <1>4. CASE AfterDisconnected \/ AfterApJoined \/ AfterApLeft \/ AfterGotIp
    <2>1. handling.kind # "none"
      BY <1>4 DEF AfterDisconnected, AfterApJoined, AfterApLeft, AfterGotIp
    <2>2. UNCHANGED boot
      BY <1>4, Zenon DEF AfterDisconnected, AfterApJoined, AfterApLeft, AfterGotIp
    <2>3. handling # Nothing
      BY <2>1 DEF Nothing
    <2>. QED  BY <2>2, <2>3 DEF RadioOffInv
  <1>5. CASE ReconnectTimerCallback
    BY <1>5 DEF ReconnectTimerCallback, esp_wifi_connect_ok, esp_wifi_connect_fails, RadioOffInv
  <1>6. CASE RecoveryStop \/ RecoveryStart \/ RecoveryServe
    BY <1>6 DEF RecoveryStop, RecoveryStart, RecoveryServe, RadioOffInv
  <1>7. CASE \/ HandleRecoveryRequest \/ UiRuns \/ OnAllowClicked \/ OnDenyClicked
             \/ \E c \in FormCreds : HandlePostConnect(c) \/ OnConnectClicked(c)
    BY <1>7 DEF HandleRecoveryRequest, UiRuns, OnAllowClicked, OnDenyClicked,
       HandlePostConnect, OnConnectClicked, RadioOffInv
  <1>8. CASE \E t \in Tasks : ApplyConfig(t) \/ ApplyConnect(t)
    BY <1>8 DEF ApplyConfig, ApplyConnect, esp_wifi_connect_ok, esp_wifi_connect_fails,
       RadioOffInv
  <1>. QED
    BY <1>1, <1>2, <1>3, <1>4, <1>5, <1>6, <1>7, <1>8, WifiActions, Zenon

\* HandlingInv only reads what the event loop itself writes, and the form,
\* which comes up while OnEvent() waits but is only taken down by it.
LEMMA HandlingKept ==
    ASSUME HandlingInv, UNCHANGED <<handling, ap_client_count, initial_provisioning>>,
           setup_server' = setup_server \/ setup_server' # "none"
    PROVE  HandlingInv'
  BY DEF HandlingInv, RecoveryRetriesAreSlowed

LEMMA HandlingInvStep ==
    ASSUME WifiTypes, WifiFlags, RadioOffInv, HandlingInv, WifiNext
    PROVE  HandlingInv'
  <1> USE DEF driver, g_state, timers, requests, screen
  <1>1. CASE \/ AttemptSucceeds \/ AttemptFails \/ LinkLost \/ PhoneJoins \/ PhoneLeaves
             \/ OnStaStart
    BY <1>1, HandlingKept DEF AttemptSucceeds, AttemptFails, LinkLost, PhoneJoins,
       PhoneLeaves, OnStaStart
  <1>2. CASE OnDisconnected
    <2>1. /\ handling'.kind = "disconnected" /\ handling'.give_up = GivesUp
          /\ \E n : handling'.delay = RetryDelay(n, ap_client_count)
          /\ UNCHANGED <<ap_client_count, initial_provisioning, setup_server>>
      BY <1>2 DEF OnDisconnected
    <2>2. handling'.delay = "hold" => RecoveryRetriesAreSlowed /\ ap_client_count > 0
      BY <2>1 DEF RetryDelay
    <2>. QED  BY <2>1, <2>2 DEF HandlingInv, GivesUp, RecoveryRetriesAreSlowed
  <1>3. CASE OnApJoined
    BY <1>3 DEF OnApJoined, HandlingInv, WifiTypes
  <1>4. CASE OnApLeft
    BY <1>4 DEF OnApLeft, HandlingInv
  <1>5. CASE OnGotIp
    BY <1>5 DEF OnGotIp, HandlingInv
  <1>6. CASE AfterDisconnected \/ AfterApJoined \/ AfterApLeft \/ AfterGotIp
    <2>1. handling' = Nothing
      BY <1>6, Zenon DEF AfterDisconnected, AfterApJoined, AfterApLeft, AfterGotIp
    <2>. QED  BY <2>1 DEF HandlingInv, Nothing
  <1>7. CASE ReconnectTimerCallback \/ RecoveryStop \/ RecoveryStart \/ RecoveryServe
    BY <1>7, HandlingKept DEF ReconnectTimerCallback, RecoveryStop, RecoveryStart, RecoveryServe
  <1>8. CASE \/ HandleRecoveryRequest \/ UiRuns \/ OnAllowClicked \/ OnDenyClicked
             \/ \E c \in FormCreds : HandlePostConnect(c) \/ OnConnectClicked(c)
    BY <1>8, HandlingKept DEF HandleRecoveryRequest, UiRuns, OnAllowClicked, OnDenyClicked,
       HandlePostConnect, OnConnectClicked
  <1>9. CASE \E t \in Tasks : ApplyConfig(t) \/ ApplyConnect(t)
    BY <1>9, HandlingKept DEF ApplyConfig, ApplyConnect
  <1>10. CASE ConnectToWifi
    <2>1. handling'.kind = "none"
      BY <1>10 DEF ConnectToWifi, RadioOffInv, Nothing
    <2>. QED  BY <2>1 DEF HandlingInv
  <1>11. CASE StartSetupAccessPoint
    BY <1>11, HandlingKept DEF StartSetupAccessPoint
  <1>12. CASE WifiResetAndReboot
    <2>1. handling'.kind = "none"
      BY <1>12 DEF WifiResetAndReboot, Booted, Nothing
    <2>. QED  BY <2>1 DEF HandlingInv
  <1>. QED
    BY <1>1, <1>2, <1>3, <1>4, <1>5, <1>6, <1>7, <1>8, <1>9, <1>10, <1>11, <1>12,
       WifiActions, Zenon

-----------------------------------------------------------------------------
LEMMA LinkAppend ==
    ASSUME WifiQueues, LinkInv, NEW e \in WifiEvents, wifi_events' = Append(wifi_events, e),
           station = "up" => station' = "up" \/ e = "disconnected",
           e = "got_ip" => station' = "up"
    PROVE  LinkInv'
  <1> DEFINE q == wifi_events
             r == wifi_events'
  <1>1. /\ Len(q) \in Nat /\ Len(r) = Len(q) + 1 /\ r[Len(q) + 1] = e
        /\ \A i \in 1..Len(q) : r[i] = q[i]
    BY Appended DEF WifiQueues
  <1> HIDE DEF r
  <1>2. SUFFICES ASSUME NEW i \in 1..Len(r), r[i] = "got_ip", station' # "up"
                 PROVE  \E j \in 1..Len(r) : j > i /\ r[j] = "disconnected"
    BY DEF LinkInv, r
  <1>3. i \in 1..Len(q) /\ q[i] = "got_ip"
    BY <1>1, <1>2
  <1>4. CASE station = "up"
    BY <1>1, <1>2, <1>3, <1>4
  <1>5. CASE station # "up"
    <2>1. PICK j \in 1..Len(q) : j > i /\ q[j] = "disconnected"
      BY <1>3, <1>5 DEF LinkInv
    <2>. QED  BY <1>1, <2>1
  <1>. QED  BY <1>4, <1>5

LEMMA LinkTail ==
    ASSUME WifiQueues, LinkInv, wifi_events # <<>>, wifi_events' = Tail(wifi_events),
           station = "up" => station' = "up"
    PROVE  LinkInv'
  <1> DEFINE q == wifi_events
             r == wifi_events'
  <1>1. /\ Len(q) \in Nat \ {0} /\ Len(r) = Len(q) - 1
        /\ \A i \in 1..Len(r) : i + 1 \in 1..Len(q) /\ r[i] = q[i + 1]
    BY HeadAndTail DEF WifiQueues
  <1> HIDE DEF r
  <1>2. SUFFICES ASSUME NEW i \in 1..Len(r), r[i] = "got_ip", station' # "up"
                 PROVE  \E j \in 1..Len(r) : j > i /\ r[j] = "disconnected"
    BY DEF LinkInv, r
  <1>3. PICK j \in 1..Len(q) : j > i + 1 /\ q[j] = "disconnected"
    BY <1>1, <1>2 DEF LinkInv
  <1>4. j - 1 \in 1..Len(r) /\ r[j - 1] = q[j] /\ j - 1 > i
    BY <1>1, <1>3
  <1>. QED  BY <1>3, <1>4

LEMMA LinkKept ==
    ASSUME LinkInv, UNCHANGED wifi_events, station = "up" => station' = "up"
    PROVE  LinkInv'
  BY DEF LinkInv

LEMMA LinkInvStep ==
    ASSUME WifiTypes, WifiFlags, WifiQueues, LinkInv, WifiNext
    PROVE  LinkInv'
  <1> USE DEF driver, g_state, timers, requests, screen
  <1>1. CASE AttemptSucceeds \/ AttemptFails \/ LinkLost
    BY <1>1, LinkAppend DEF AttemptSucceeds, AttemptFails, LinkLost, WifiEvents
  <1>2. CASE PhoneJoins \/ PhoneLeaves
    BY <1>2, LinkAppend DEF PhoneJoins, PhoneLeaves, WifiEvents
  <1>3. CASE OnStaStart
    BY <1>3, LinkTail DEF OnStaStart, NextEvent, esp_wifi_connect_ok, esp_wifi_connect_fails
  <1>4. CASE OnDisconnected \/ OnApJoined \/ OnApLeft \/ OnGotIp
    BY <1>4, LinkTail DEF OnDisconnected, OnApJoined, OnApLeft, OnGotIp, NextEvent
  <1>5. CASE \/ AfterDisconnected \/ AfterApJoined \/ AfterApLeft
             \/ HandleRecoveryRequest \/ UiRuns \/ OnAllowClicked \/ OnDenyClicked
             \/ StartSetupAccessPoint
             \/ \E c \in FormCreds : HandlePostConnect(c) \/ OnConnectClicked(c)
    BY <1>5, LinkKept DEF AfterDisconnected, AfterApJoined, AfterApLeft,
       HandleRecoveryRequest, UiRuns, OnAllowClicked, OnDenyClicked, StartSetupAccessPoint,
       HandlePostConnect, OnConnectClicked
  <1>6. CASE ReconnectTimerCallback \/ \E t \in Tasks : ApplyConfig(t) \/ ApplyConnect(t)
    BY <1>6, LinkKept DEF ReconnectTimerCallback, ApplyConfig, ApplyConnect,
       esp_wifi_connect_ok, esp_wifi_connect_fails
  <1>7. ASSUME DropPhone(<<>>), UNCHANGED station PROVE LinkInv'
    <2>1. wifi_events' = IF ap_station THEN Append(wifi_events, "ap_left") ELSE wifi_events
      BY <1>7, PhoneDropped DEF WifiQueues
    <2>2. CASE ap_station
      BY <1>7, <2>1, <2>2, LinkAppend DEF WifiEvents
    <2>3. CASE ~ap_station
      BY <1>7, <2>1, <2>3, LinkKept
    <2>. QED  BY <2>2, <2>3
  <1>8. CASE AfterGotIp \/ RecoveryServe
    BY <1>8, <1>7, LinkKept DEF AfterGotIp, RecoveryServe
  <1>9. CASE RecoveryStop
    <2>1. CASE UNCHANGED <<station, wifi_events>>
      BY <2>1, LinkKept
    <2>2. CASE /\ station' = "idle"
               /\ DropPhone(IF station = "idle" THEN <<>> ELSE <<"disconnected">>)
      <3>1. CASE station = "idle"
        BY <1>7, <2>2, <3>1
      <3>2. CASE station # "idle"
        <4> DEFINE q == IF ap_station THEN Append(wifi_events, "ap_left") ELSE wifi_events
        <4>1. q \in Seq(WifiEvents) /\ wifi_events' = Append(q, "disconnected")
          BY <2>2, <3>2, PhoneDropped DEF WifiQueues
        <4> HIDE DEF q
        <4>2. /\ Len(wifi_events') = Len(q) + 1 /\ Len(q) \in Nat
              /\ wifi_events'[Len(q) + 1] = "disconnected"
          BY <4>1, Appended DEF WifiEvents
        <4>3. \A i \in 1..Len(wifi_events') : wifi_events'[i] = "got_ip" =>
                 \E j \in 1..Len(wifi_events') : j > i /\ wifi_events'[j] = "disconnected"
          BY <4>2
        <4>. QED  BY <4>3 DEF LinkInv
      <3>. QED  BY <3>1, <3>2
    <2>. QED  BY <1>9, <2>1, <2>2, Zenon DEF RecoveryStop
  <1>10. CASE RecoveryStart \/ ConnectToWifi
    BY <1>10, LinkAppend, LinkKept DEF RecoveryStart, ConnectToWifi, WifiEvents
  <1>11. CASE WifiResetAndReboot
    BY <1>11 DEF WifiResetAndReboot, Booted, LinkInv
  <1>. QED
    BY <1>1, <1>2, <1>3, <1>4, <1>5, <1>6, <1>8, <1>9, <1>10, <1>11, WifiActions, Zenon

-----------------------------------------------------------------------------
LEMMA DueAppended ==
    ASSUME WifiQueues, NEW e \in WifiEvents, wifi_events' = Append(wifi_events, e),
           EventDue \/ e \in {"sta_start", "disconnected"}
    PROVE  EventDue'
  <1>1. /\ Len(wifi_events) \in Nat /\ Len(wifi_events') = Len(wifi_events) + 1
        /\ wifi_events'[Len(wifi_events) + 1] = e
        /\ \A i \in 1..Len(wifi_events) : wifi_events'[i] = wifi_events[i]
    BY Appended DEF WifiQueues
  <1>2. CASE e \in {"sta_start", "disconnected"}
    BY <1>1, <1>2 DEF EventDue
  <1>3. CASE EventDue
    <2>1. PICK i \in 1..Len(wifi_events) : wifi_events[i] \in {"sta_start", "disconnected"}
      BY <1>3 DEF EventDue
    <2>2. i \in 1..Len(wifi_events') /\ wifi_events'[i] = wifi_events[i]
      BY <1>1
    <2>. QED  BY <2>1, <2>2 DEF EventDue
  <1>. QED  BY <1>2, <1>3

LEMMA DueKept ==
    ASSUME WifiQueues, EventDue, wifi_events # <<>>, wifi_events' = Tail(wifi_events),
           Head(wifi_events) \notin {"sta_start", "disconnected"}
    PROVE  EventDue'
  <1>1. /\ Head(wifi_events) = wifi_events[1] /\ Len(wifi_events) \in Nat \ {0}
        /\ Len(wifi_events') = Len(wifi_events) - 1
        /\ \A i \in 1..Len(wifi_events') : wifi_events'[i] = wifi_events[i + 1]
    BY HeadAndTail DEF WifiQueues
  <1>2. PICK i \in 1..Len(wifi_events) : wifi_events[i] \in {"sta_start", "disconnected"}
    BY DEF EventDue
  <1>3. i # 1
    BY <1>1, <1>2
  <1>4. i - 1 \in 1..Len(wifi_events') /\ wifi_events'[i - 1] = wifi_events[i]
    BY <1>1, <1>2, <1>3
  <1>. QED  BY <1>2, <1>4 DEF EventDue

LEMMA DueDropped ==
    ASSUME WifiQueues, NEW more \in {<<>>, <<"disconnected">>}, DropPhone(more),
           EventDue \/ more = <<"disconnected">>
    PROVE  EventDue'
  <1> DEFINE q == IF ap_station THEN Append(wifi_events, "ap_left") ELSE wifi_events
  <1>1. /\ q \in Seq(WifiEvents)
        /\ more = <<>> => wifi_events' = q
        /\ more = <<"disconnected">> => wifi_events' = Append(q, "disconnected")
    BY PhoneDropped DEF WifiQueues
  <1>2. CASE more = <<"disconnected">>
    <2> HIDE DEF q
    <2>1. /\ Len(q) \in Nat /\ Len(wifi_events') = Len(q) + 1
          /\ wifi_events'[Len(q) + 1] = "disconnected"
      BY <1>1, <1>2, Appended DEF WifiEvents
    <2>. QED  BY <2>1 DEF EventDue
  <1>3. CASE more = <<>>
    <2>1. <<"disconnected">> # <<>>
      OBVIOUS
    <2>2. EventDue
      BY <1>3, <2>1
    <2>3. CASE ap_station
      BY <1>1, <1>3, <2>2, <2>3, DueAppended DEF WifiEvents
    <2>4. CASE ~ap_station
      BY <1>1, <1>3, <2>2, <2>4 DEF EventDue
    <2>. QED  BY <2>3, <2>4
  <1>. QED  BY <1>2, <1>3

\* OnEvent()'s report that setup gave up is on its way to the screen.
FailurePosted == \E i \in 1..Len(wifi_ui) : wifi_ui[i].kind = "failed"

LEMMA FailureAppended ==
    ASSUME WifiQueues, NEW p \in UiPosts, wifi_ui' = Append(wifi_ui, p),
           FailurePosted \/ p.kind = "failed"
    PROVE  FailurePosted'
  <1>1. /\ Len(wifi_ui) \in Nat /\ Len(wifi_ui') = Len(wifi_ui) + 1
        /\ wifi_ui'[Len(wifi_ui) + 1] = p
        /\ \A i \in 1..Len(wifi_ui) : wifi_ui'[i] = wifi_ui[i]
    BY Appended DEF WifiQueues
  <1>2. CASE p.kind = "failed"
    BY <1>1, <1>2 DEF FailurePosted
  <1>3. CASE FailurePosted
    <2>1. PICK i \in 1..Len(wifi_ui) : wifi_ui[i].kind = "failed"
      BY <1>3 DEF FailurePosted
    <2>2. i \in 1..Len(wifi_ui') /\ wifi_ui'[i] = wifi_ui[i]
      BY <1>1
    <2>. QED  BY <2>1, <2>2 DEF FailurePosted
  <1>. QED  BY <1>2, <1>3

LEMMA FailureReported ==
    ASSUME WifiQueues, FailurePosted, wifi_ui # <<>>, wifi_ui' = Tail(wifi_ui)
    PROVE  FailurePosted' \/ Head(wifi_ui).kind = "failed"
  <1>1. /\ Head(wifi_ui) = wifi_ui[1] /\ Len(wifi_ui) \in Nat \ {0}
        /\ Len(wifi_ui') = Len(wifi_ui) - 1
        /\ \A i \in 1..Len(wifi_ui') : wifi_ui'[i] = wifi_ui[i + 1]
    BY HeadAndTail DEF WifiQueues
  <1>2. PICK i \in 1..Len(wifi_ui) : wifi_ui[i].kind = "failed"
    BY DEF FailurePosted
  <1>3. CASE i = 1
    BY <1>1, <1>2, <1>3
  <1>4. CASE i # 1
    <2>1. i - 1 \in 1..Len(wifi_ui') /\ wifi_ui'[i - 1] = wifi_ui[i]
      BY <1>1, <1>2, <1>4
    <2>. QED  BY <1>2, <2>1 DEF FailurePosted
  <1>. QED  BY <1>3, <1>4

\* A reason of IdleInv that a step leaves alone, or replaces by another, stays one.
HeldKept == Held => Held' \/ reconnect_timer'
ReasonsKept ==
    /\ boot = "start" => boot' = "start"
    /\ EventDue => EventDue'
    /\ handling.kind = "disconnected" => handling'.kind = "disconnected"
    /\ reconnect_timer => reconnect_timer' \/ Held'
    /\ unretried => unretried'
    /\ applying["ui"].kind = "connect" => applying'["ui"].kind = "connect"
    /\ applying["httpd"].kind = "connect" => applying'["httpd"].kind = "connect"
    /\ GaveUp => GaveUp'

LEMMA IdleKept ==
    ASSUME IdleInv, station' = "idle" => station = "idle", HeldKept, ReasonsKept
    PROVE  IdleInv'
  BY Zenon DEF IdleInv, HeldKept, ReasonsKept

LEMMA GaveUpKept ==
    ASSUME UNCHANGED <<initial_provisioning, connect_error, stored_creds>>,
           applying["ui"].kind = "config" => applying'["ui"].kind = "config",
           FailurePosted => FailurePosted'
    PROVE  GaveUp => GaveUp'
  BY Zenon DEF GaveUp, FailurePosted

\* The station's own steps, and those that leave it to a retry.
LEMMA IdleDriver ==
    ASSUME WifiTypes, WifiQueues, LinkInv, IdleInv,
           \/ AttemptSucceeds \/ AttemptFails \/ LinkLost \/ PhoneJoins \/ PhoneLeaves
           \/ OnStaStart \/ OnDisconnected \/ OnGotIp \/ ReconnectTimerCallback
           \/ \E t \in Tasks : ApplyConnect(t)
    PROVE  IdleInv'
  <1> USE DEF driver, g_state, timers, requests, screen
  <1>1. CASE AttemptSucceeds
    BY <1>1 DEF AttemptSucceeds, IdleInv
  <1>2. CASE AttemptFails \/ LinkLost
    <2>1. EventDue'
      BY <1>2, DueAppended DEF AttemptFails, LinkLost, WifiEvents
    <2>. QED  BY <2>1 DEF IdleInv
  <1>3. CASE PhoneJoins \/ PhoneLeaves
    <2>1. /\ EventDue => EventDue'
          /\ UNCHANGED <<station, boot, handling, reconnect_timer, unretried, applying, wifi_ui,
                         stored_creds, connect_error, initial_provisioning, setup_server,
                         ap_client_count>>
      BY <1>3, DueAppended DEF PhoneJoins, PhoneLeaves, WifiEvents
    <2>2. (Held => Held') /\ (GaveUp => GaveUp')
      BY <2>1 DEF Held, GaveUp, RecoveryRetriesAreSlowed
    <2>. QED  BY <2>1, <2>2, IdleKept DEF HeldKept, ReasonsKept
  <1>4. CASE OnStaStart \/ \E t \in Tasks : ApplyConnect(t)
    <2>1. station' # "idle" \/ unretried'
      BY <1>4 DEF OnStaStart, ApplyConnect, esp_wifi_connect_ok, esp_wifi_connect_fails
    <2>. QED  BY <2>1 DEF IdleInv
  <1>5. CASE OnDisconnected
    <2>1. handling'.kind = "disconnected"
      BY <1>5 DEF OnDisconnected
    <2>. QED  BY <2>1 DEF IdleInv
  <1>6. CASE OnGotIp
    <2>1. /\ wifi_events # <<>> /\ wifi_events' = Tail(wifi_events) /\ UNCHANGED station
          /\ Head(wifi_events) = "got_ip"
      BY <1>6 DEF OnGotIp, NextEvent
    <2>2. Head(wifi_events) = wifi_events[1] /\ Len(wifi_events) \in Nat \ {0}
      BY <2>1, HeadAndTail DEF WifiQueues
    <2>3. station = "idle" => EventDue
      BY <2>1, <2>2 DEF LinkInv, EventDue
    <2>4. station' = "idle" => EventDue'
      BY <2>1, <2>3, DueKept
    <2>. QED  BY <2>4 DEF IdleInv
  <1>7. CASE ReconnectTimerCallback
    <2>1. station' # "idle" \/ reconnect_timer'
      BY <1>7 DEF ReconnectTimerCallback, esp_wifi_connect_ok, esp_wifi_connect_fails
    <2>. QED  BY <2>1 DEF IdleInv
  <1>. QED  BY <1>1, <1>2, <1>3, <1>4, <1>5, <1>6, <1>7, Zenon

\* The phone's side of the event loop, and what OnEvent() does after the unlock.
LEMMA IdleEvents ==
    ASSUME WifiTypes, WifiFlags, WifiQueues, HandlingInv, IdleInv,
           OnApJoined \/ OnApLeft
           \/ AfterDisconnected \/ AfterApJoined \/ AfterApLeft \/ AfterGotIp
    PROVE  IdleInv'
  <1> USE DEF driver, g_state, timers, requests, screen
  <1>1. CASE OnApJoined \/ OnApLeft
    <2>1. /\ UNCHANGED <<station, boot, reconnect_timer, unretried, applying, wifi_ui,
                         stored_creds, connect_error, initial_provisioning, setup_server>>
          /\ wifi_events # <<>> /\ wifi_events' = Tail(wifi_events)
          /\ Head(wifi_events) \notin {"sta_start", "disconnected"}
          /\ handling = Nothing
      BY <1>1 DEF OnApJoined, OnApLeft, NextEvent
    <2>2. EventDue => EventDue'
      BY <2>1, DueKept
    <2>3. GaveUp => GaveUp'
      BY <2>1 DEF GaveUp
    <2>4. handling.kind = "none"
      BY <2>1 DEF Nothing
    <2>5. /\ ap_client_count \in Nat
          /\ \/ ap_client_count' = ap_client_count + 1
             \/ ap_client_count > 1 /\ ap_client_count' = ap_client_count - 1
             \/ ap_client_count < 2 /\ handling'.kind = "ap_left" /\ handling'.resume
      <3>1. ap_client_count \in Nat
        BY DEF WifiTypes
      <3>2. CASE OnApJoined
        BY <3>1, <3>2 DEF OnApJoined
      <3>3. CASE OnApLeft
        <4>1. PICK n : /\ n = IF ap_client_count = 0 THEN 0 ELSE ap_client_count - 1
                       /\ ap_client_count' = n
                       /\ handling' = [kind |-> "ap_left", resume |-> n = 0]
          BY <3>3 DEF OnApLeft
        <4>2. CASE n = 0
          <5>1. ap_client_count < 2
            BY <3>1, <4>1, <4>2
          <5>2. handling'.kind = "ap_left" /\ handling'.resume = (n = 0)
            BY <4>1, Zenon
          <5>3. handling'.resume
            BY <4>2, <5>2, Zenon
          <5>. QED  BY <3>1, <5>1, <5>2, <5>3, Zenon
        <4>3. CASE n # 0
          BY <3>1, <4>1, <4>3
        <4>. QED  BY <4>2, <4>3
      <3>. QED  BY <1>1, <3>1, <3>2, <3>3
    <2>6. Held => Held'
      BY <2>1, <2>4, <2>5 DEF Held, RecoveryRetriesAreSlowed
    <2>. QED  BY <2>1, <2>2, <2>3, <2>4, <2>6, IdleKept DEF HeldKept, ReasonsKept
  <1>2. CASE AfterDisconnected
    <2>1. CASE handling.give_up
      <3>1. /\ wifi_ui' = Append(wifi_ui, [kind |-> "failed"])
            /\ UNCHANGED initial_provisioning /\ handling.kind = "disconnected"
        BY <1>2, <2>1 DEF AfterDisconnected
      <3>2. [kind |-> "failed"] \in UiPosts /\ [kind |-> "failed"].kind = "failed"
        BY DEF UiPosts
      <3>3. FailurePosted' /\ initial_provisioning'
        BY <2>1, <3>1, <3>2, FailureAppended DEF HandlingInv
      <3>4. GaveUp'
        BY <3>3 DEF GaveUp, FailurePosted
      <3>. QED  BY <3>4 DEF IdleInv
    <2>2. CASE ~handling.give_up
      <3>1. /\ reconnect_timer' = (handling.delay # "hold") /\ handling.kind = "disconnected"
            /\ UNCHANGED <<setup_server, ap_client_count, initial_provisioning>>
        BY <1>2, <2>2, Zenon DEF AfterDisconnected
      <3>2. handling.delay = "hold" => Held'
        BY <3>1 DEF HandlingInv, Held, RecoveryRetriesAreSlowed
      <3>. QED  BY <3>1, <3>2 DEF IdleInv
    <2>. QED  BY <2>1, <2>2
  <1>3. CASE AfterApJoined
    <2>1. /\ UNCHANGED <<station, boot, unretried, applying, wifi_ui, wifi_events, stored_creds,
                         connect_error, initial_provisioning, setup_server, ap_client_count>>
          /\ handling.kind = "ap_joined"
          /\ reconnect_timer' = (reconnect_timer /\ ~RecoveryRetriesAreSlowed)
      BY <1>3, Zenon DEF AfterApJoined
    <2>2. RecoveryRetriesAreSlowed => Held'
      BY <2>1 DEF HandlingInv, Held, RecoveryRetriesAreSlowed
    <2>3. Held => Held'
      BY <2>2 DEF Held
    <2>4. reconnect_timer => reconnect_timer' \/ Held'
      BY <2>1, <2>2, Zenon
    <2>5. (EventDue => EventDue') /\ (GaveUp => GaveUp')
      BY <2>1 DEF EventDue, GaveUp
    <2>. QED  BY <2>1, <2>3, <2>4, <2>5, IdleKept DEF HeldKept, ReasonsKept
  <1>4. CASE AfterApLeft
    <2>1. /\ UNCHANGED <<station, boot, unretried, applying, wifi_ui, wifi_events, stored_creds,
                         connect_error, initial_provisioning, setup_server, ap_client_count>>
          /\ handling.kind = "ap_left"
          /\ reconnect_timer' = (\/ reconnect_timer
                                 \/ handling.resume /\ RecoveryRetriesAreSlowed)
      BY <1>4, Zenon DEF AfterApLeft
    <2>2. CASE Held
      <3>1. CASE ap_client_count > 0
        <4>1. Held'
          BY <2>1, <2>2, <3>1 DEF Held, RecoveryRetriesAreSlowed
        <4>. QED  BY <4>1 DEF IdleInv
      <3>2. CASE ~(ap_client_count > 0)
        <4>1. reconnect_timer'
          BY <2>1, <2>2, <3>2, Zenon DEF Held
        <4>. QED  BY <4>1 DEF IdleInv
      <3>. QED  BY <3>1, <3>2
    <2>3. CASE ~Held
      <3>1. reconnect_timer => reconnect_timer'
        BY <2>1, Zenon
      <3>2. (EventDue => EventDue') /\ (GaveUp => GaveUp')
        BY <2>1 DEF EventDue, GaveUp
      <3>. QED  BY <2>1, <2>3, <3>1, <3>2, IdleKept DEF HeldKept, ReasonsKept
    <2>. QED  BY <2>2, <2>3
  <1>5. CASE AfterGotIp
    <2>1. /\ UNCHANGED <<station, boot, reconnect_timer, unretried, applying, stored_creds,
                         connect_error, initial_provisioning, setup_server, ap_client_count>>
          /\ handling.kind = "got_ip"
          /\ wifi_ui' = Append(wifi_ui, [kind |-> "connected"])
      BY <1>5, Zenon DEF AfterGotIp
    <2>2. UNCHANGED wifi_events \/ DropPhone(<<>>)
      BY <1>5, Zenon DEF AfterGotIp
    <2>3. EventDue => EventDue'
      <3>1. CASE UNCHANGED wifi_events
        BY <3>1 DEF EventDue
      <3>2. CASE DropPhone(<<>>)
        BY <3>2, DueDropped
      <3>. QED  BY <2>2, <3>1, <3>2
    <2>4. Held => Held'
      BY <2>1 DEF Held, RecoveryRetriesAreSlowed
    <2>5. [kind |-> "connected"] \in UiPosts
      BY DEF UiPosts
    <2>6. GaveUp => GaveUp'
      BY <2>1, <2>5, FailureAppended, GaveUpKept
    <2>. QED  BY <2>1, <2>3, <2>4, <2>6, IdleKept DEF HeldKept, ReasonsKept
  <1>. QED  BY <1>1, <1>2, <1>3, <1>4, <1>5, Zenon

\* The recovery timer's steps and the boot.
LEMMA IdleRecovery ==
    ASSUME WifiTypes, WifiFlags, WifiQueues, IdleInv,
           \/ RecoveryStop \/ RecoveryStart \/ RecoveryServe
           \/ ConnectToWifi \/ StartSetupAccessPoint \/ WifiResetAndReboot
    PROVE  IdleInv'
  <1> USE DEF driver, g_state, timers, requests, screen
  <1>1. CASE RecoveryStop \/ RecoveryStart
    <2>1. UNCHANGED <<boot, handling, reconnect_timer, unretried, applying, wifi_ui, stored_creds,
                      connect_error, initial_provisioning, setup_server, ap_client_count>>
      BY <1>1, Zenon DEF RecoveryStop, RecoveryStart
    <2>2. (Held => Held') /\ (GaveUp => GaveUp')
      BY <2>1 DEF Held, GaveUp, RecoveryRetriesAreSlowed
    <2>3. \/ UNCHANGED <<station, wifi_events>>
          \/ UNCHANGED station /\ wifi_events' = Append(wifi_events, "sta_start")
          \/ DropPhone(IF station = "idle" THEN <<>> ELSE <<"disconnected">>)
      BY <1>1, Zenon DEF RecoveryStop, RecoveryStart
    <2>4. CASE EventDue'
      BY <2>4 DEF IdleInv
    <2>5. CASE ~EventDue'
      <3>1. (station = "idle" /\ ~EventDue) \/ UNCHANGED <<station, wifi_events>>
        <4>1. CASE UNCHANGED <<station, wifi_events>>
          BY <4>1
        <4>2. CASE wifi_events' = Append(wifi_events, "sta_start")
          BY <2>5, <4>2, DueAppended DEF WifiEvents
        <4>3. CASE DropPhone(IF station = "idle" THEN <<>> ELSE <<"disconnected">>)
          <5>1. station = "idle"
            BY <2>5, <4>3, DueDropped
          <5>2. ~EventDue
            BY <2>5, <4>3, <5>1, DueDropped
          <5>. QED  BY <5>1, <5>2
        <4>. QED  BY <2>3, <4>1, <4>2, <4>3
      <3>2. EventDue => EventDue'
        BY <3>1 DEF EventDue
      <3>3. station' = "idle" => station = "idle"
        BY <3>1
      <3>. QED  BY <2>1, <2>2, <3>2, <3>3, IdleKept DEF HeldKept, ReasonsKept
    <2>. QED  BY <2>4, <2>5
  <1>2. CASE RecoveryServe \/ StartSetupAccessPoint
    <2>1. /\ UNCHANGED <<station, handling, reconnect_timer, unretried, applying, stored_creds,
                         connect_error, initial_provisioning, ap_client_count>>
          /\ boot = "start" => boot' = "start"
      BY <1>2 DEF RecoveryServe, StartSetupAccessPoint
    <2>2. setup_server' # "none" \/ UNCHANGED setup_server
      BY <1>2 DEF RecoveryServe, StartSetupAccessPoint
    <2>3. UNCHANGED wifi_events \/ DropPhone(<<>>)
      BY <1>2, Zenon DEF RecoveryServe, StartSetupAccessPoint
    <2>4. UNCHANGED wifi_ui \/ wifi_ui' = Append(wifi_ui, [kind |-> "setup_needed"])
      BY <1>2, Zenon DEF RecoveryServe, StartSetupAccessPoint
    <2>5. EventDue => EventDue'
      <3>1. CASE UNCHANGED wifi_events
        BY <3>1 DEF EventDue
      <3>2. CASE DropPhone(<<>>)
        BY <3>2, DueDropped
      <3>. QED  BY <2>3, <3>1, <3>2
    <2>6. Held => Held'
      BY <2>1, <2>2 DEF Held, RecoveryRetriesAreSlowed
    <2>7. FailurePosted => FailurePosted'
      <3>1. [kind |-> "setup_needed"] \in UiPosts
        BY DEF UiPosts
      <3>2. CASE UNCHANGED wifi_ui
        BY <3>2 DEF FailurePosted
      <3>3. CASE wifi_ui' = Append(wifi_ui, [kind |-> "setup_needed"])
        BY <3>1, <3>3, FailureAppended
      <3>. QED  BY <2>4, <3>2, <3>3
    <2>8. GaveUp => GaveUp'
      BY <2>1, <2>7, GaveUpKept
    <2>. QED  BY <2>1, <2>5, <2>6, <2>8, IdleKept DEF HeldKept, ReasonsKept
  <1>3. CASE ConnectToWifi
    <2>1. EventDue'
      BY <1>3, DueAppended DEF ConnectToWifi, WifiEvents
    <2>. QED  BY <2>1 DEF IdleInv
  <1>4. CASE WifiResetAndReboot
    BY <1>4 DEF WifiResetAndReboot, Booted, IdleInv
  <1>. QED  BY <1>1, <1>2, <1>3, <1>4, Zenon

\* The form's worker and the UI task.
LEMMA IdleRequests ==
    ASSUME WifiTypes, WifiFlags, WifiQueues, RequestsCounted, IdleInv,
           \/ \E c \in FormCreds : HandlePostConnect(c) \/ OnConnectClicked(c)
           \/ HandleRecoveryRequest \/ \E t \in Tasks : ApplyConfig(t)
           \/ UiRuns \/ OnAllowClicked \/ OnDenyClicked
    PROVE  IdleInv'
  <1> USE DEF driver, g_state, timers, requests, screen
  <1>0. UNCHANGED <<station, boot, wifi_events, handling, reconnect_timer, unretried,
                    initial_provisioning, setup_server, ap_client_count>>
    BY DEF HandlePostConnect, OnConnectClicked, HandleRecoveryRequest, ApplyConfig, UiRuns,
           OnAllowClicked, OnDenyClicked
  <1>a. (EventDue => EventDue') /\ (Held => Held')
    BY <1>0 DEF EventDue, Held, RecoveryRetriesAreSlowed
  <1>b. "ui" \in Tasks /\ "httpd" \in Tasks /\ Nothing.kind = "none" /\ "ui" # "httpd"
    BY DEF Tasks, Nothing
  <1>c. SUFFICES ASSUME ~\E t \in Tasks : applying'[t].kind = "connect"
                 PROVE  /\ applying["ui"].kind # "connect" /\ applying["httpd"].kind # "connect"
                        /\ GaveUp => GaveUp'
    <2>1. CASE \E t \in Tasks : applying'[t].kind = "connect"
      BY <2>1 DEF IdleInv, Tasks
    <2>2. CASE ~\E t \in Tasks : applying'[t].kind = "connect"
      BY <1>0, <1>a, <1>c, <2>2, IdleKept DEF HeldKept, ReasonsKept
    <2>. QED  BY <2>1, <2>2
  <1>1. CASE \E c \in FormCreds : HandlePostConnect(c)
    <2>1. /\ applying["httpd"] = Nothing /\ applying'["ui"] = applying["ui"]
          /\ UNCHANGED <<initial_provisioning, connect_error, stored_creds, wifi_ui>>
      BY <1>1, <1>b DEF HandlePostConnect, WifiQueues
    <2>. QED  BY <1>b, <1>c, <2>1, GaveUpKept DEF FailurePosted
  <1>2. CASE \E c \in FormCreds : OnConnectClicked(c)
    <2>1. PICK c \in FormCreds : OnConnectClicked(c)
      BY <1>2
    <2>2. /\ applying["ui"] = Nothing /\ applying'["httpd"] = applying["httpd"]
          /\ UNCHANGED initial_provisioning
          /\ connect_error' = ~IsValidWifiCredentials(c)
      BY <2>1, <1>b DEF OnConnectClicked, UiIdle, WifiQueues
    <2>3. IsValidWifiCredentials(c) => applying'["ui"].kind = "config"
      BY <2>1, <1>b DEF OnConnectClicked, WifiQueues
    <2>4. GaveUp => GaveUp'
      BY <2>2, <2>3, Zenon DEF GaveUp
    <2>. QED  BY <1>b, <1>c, <2>2, <2>4
  <1>3. CASE HandleRecoveryRequest
    <2>1. /\ applying["httpd"].kind = "submit" /\ applying'["ui"] = applying["ui"]
          /\ UNCHANGED <<initial_provisioning, connect_error, stored_creds>>
      BY <1>3, <1>b DEF HandleRecoveryRequest, WifiQueues
    <2>2. applying["httpd"].creds \in ValidCreds /\ last_id + 1 \in Nat
      BY <1>b, <2>1, ApplicationTyped DEF RequestsCounted
    <2>3. [kind |-> "pending", id |-> last_id + 1, creds |-> applying["httpd"].creds] \in UiPosts
      BY <2>2 DEF UiPosts, Submissions
    <2>4. wifi_ui' = Append(wifi_ui, [kind |-> "pending", id |-> last_id + 1,
                                      creds |-> applying["httpd"].creds])
      BY <1>3 DEF HandleRecoveryRequest
    <2>5. FailurePosted => FailurePosted'
      BY <2>3, <2>4, FailureAppended
    <2>. QED  BY <1>b, <1>c, <2>1, <2>5, GaveUpKept
  <1>4. ASSUME NEW t \in Tasks, ApplyConfig(t)
        PROVE  /\ applying["ui"].kind # "connect" /\ applying["httpd"].kind # "connect"
               /\ GaveUp => GaveUp'
    <2>1. \A u \in Tasks \ {t} : applying'[u] = applying[u]
      BY <1>4 DEF ApplyConfig, WifiQueues
    <2>2. applying[t].kind = "config" /\ UNCHANGED <<initial_provisioning, wifi_ui>>
      BY <1>4 DEF ApplyConfig
    <2>3. ~(applying' = [applying EXCEPT ![t].kind = "connect"])
      <3>1. applying[t] \in Applications
        BY <2>2, ApplicationTyped
      <3>2. [applying EXCEPT ![t].kind = "connect"][t].kind = "connect"
        BY <3>1 DEF WifiQueues, Applications
      <3>. QED  BY <1>c, <3>2
    <2>4. UNCHANGED stored_creds /\ connect_error' = (connect_error \/ t = "ui")
      BY <1>4, <2>3, Zenon DEF ApplyConfig
    <2>5. GaveUp => GaveUp'
      <3>1. CASE t = "ui"
        BY <2>2, <2>4, <3>1, Zenon DEF GaveUp
      <3>2. CASE t # "ui"
        <4>1. applying'["ui"] = applying["ui"]
          BY <1>b, <2>1, <3>2
        <4>. QED  BY <2>2, <2>4, <4>1, Zenon DEF GaveUp
      <3>. QED  BY <3>1, <3>2
    <2>. QED  BY <1>b, <1>c, <2>1, <2>2, <2>5
  <1>5. CASE UiRuns
    <2>1. /\ UNCHANGED <<applying, initial_provisioning, stored_creds>>
          /\ wifi_ui # <<>> /\ wifi_ui' = Tail(wifi_ui)
          /\ connect_error' = (connect_error \/ Head(wifi_ui).kind = "failed")
      BY <1>5, Zenon DEF UiRuns
    <2>2. FailurePosted => FailurePosted' \/ Head(wifi_ui).kind = "failed"
      BY <2>1, FailureReported
    <2>3. GaveUp => GaveUp'
      BY <2>1, <2>2, Zenon DEF GaveUp, FailurePosted
    <2>. QED  BY <1>b, <1>c, <2>1, <2>3
  <1>6. CASE OnAllowClicked \/ OnDenyClicked
    <2>1. /\ applying["ui"] = Nothing /\ applying'["httpd"] = applying["httpd"]
          /\ UNCHANGED <<initial_provisioning, connect_error, stored_creds, wifi_ui>>
      BY <1>6, <1>b DEF OnAllowClicked, OnDenyClicked, UiIdle, WifiQueues
    <2>. QED  BY <1>b, <1>c, <2>1, GaveUpKept DEF FailurePosted
  <1>. QED  BY <1>1, <1>2, <1>3, <1>4, <1>5, <1>6, Zenon

LEMMA IdleInvStep ==
    ASSUME WifiTypes, WifiFlags, WifiQueues, RequestsCounted, HandlingInv, LinkInv, IdleInv,
           WifiNext
    PROVE  IdleInv'
  BY WifiActions, IdleDriver, IdleEvents, IdleRecovery, IdleRequests, Zenon

-----------------------------------------------------------------------------
LEMMA WifiInvInit ==
    ASSUME WifiInit
    PROVE  WifiInv
  <1> USE WifiSetupAssumption DEF WifiInit
  <1>0. Nothing.kind = "none"
    BY DEF Nothing
  <1>1. WifiTypes /\ RadioOffInv
    BY DEF WifiTypes, RadioOffInv
  <1>2. WifiFlags
    BY Zenon DEF WifiFlags
  <1>3. applying = [t \in Tasks |-> applying[t]] /\ \A t \in Tasks : applying[t] = Nothing
    OBVIOUS
  <1>4. applying["ui"] = Nothing /\ applying["httpd"] = Nothing
    BY <1>3 DEF Tasks
  <1>5. WifiQueues
    BY <1>0, <1>3 DEF WifiQueues, HandlingKinds
  <1>6. RequestsCounted
    BY <1>0, <1>4 DEF RequestsCounted
  <1>7. ShownInv /\ OrphanInv
    BY <1>4 DEF ShownInv, OrphanInv, ApprovedAsShown
  <1>8. PhoneInv /\ LinkInv
    BY DEF PhoneInv, PhoneOK, LinkInv
  <1>9. HandlingInv /\ IdleInv
    BY <1>0 DEF HandlingInv, IdleInv
  <1>. QED  BY <1>1, <1>2, <1>5, <1>6, <1>7, <1>8, <1>9 DEF WifiInv

LEMMA WifiInvStutters ==
    ASSUME WifiInv, UNCHANGED wifi_vars
    PROVE  WifiInv'
  <1> USE DEF wifi_vars, driver, g_state, timers, requests, screen
  <1>1. WifiTypes' /\ WifiFlags' /\ WifiQueues' /\ RequestsCounted'
    BY DEF WifiInv, WifiTypes, WifiFlags, WifiQueues, RequestsCounted
  <1>2. ShownInv' /\ OrphanInv' /\ PhoneInv' /\ RadioOffInv'
    BY DEF WifiInv, ShownInv, ApprovedAsShown, OrphanInv, FormServed, PhoneInv, RadioOffInv
  <1>3. HandlingInv' /\ LinkInv' /\ IdleInv'
    BY DEF WifiInv, HandlingInv, RecoveryRetriesAreSlowed, LinkInv, IdleInv, EventDue, Held,
           GaveUp
  <1>. QED  BY <1>1, <1>2, <1>3 DEF WifiInv

\* With nothing in progress, what is left of IdleInv is NeverSilentlyIdle: a
\* count with no event to come is a phone that is joined.
LEMMA WifiInvSafe ==
    ASSUME WifiInv
    PROVE  WifiSafe
  <1> USE WifiSetupAssumption
  <1>1. WifiTypeOK
    <2>1. {ap_station, initial_provisioning, reconnect_timer, recovery_timer, connect_error,
           wifi_screen, unretried} \subseteq BOOLEAN
      BY Zenon DEF WifiInv, WifiFlags
    <2>2. last_id \in 0..MaxDisturbances
      BY DEF WifiInv, RequestsCounted
    <2>3. \A i \in DOMAIN wifi_ui : wifi_ui[i].kind \in UiCallbacks
      <3>1. wifi_ui \in Seq(UiPosts)
        BY DEF WifiInv, WifiQueues
      <3>2. \A p \in UiPosts : p.kind \in UiCallbacks
        BY DEF UiPosts, Submissions, UiCallbacks
      <3>. QED  BY <3>1, <3>2
    <2>4. WifiTypes
      BY DEF WifiInv
    <2>. QED  BY <2>1, <2>2, <2>3, <2>4 DEF WifiTypeOK, WifiTypes
  <1>2. ApprovedAsShown
    BY DEF WifiInv, ShownInv
  <1>3. ASSUME WifiQuiet
        PROVE  /\ Len(wifi_ui) = 0 /\ Len(wifi_events) = 0 /\ handling.kind = "none"
               /\ applying["ui"].kind = "none" /\ applying["httpd"].kind = "none"
    BY <1>3 DEF WifiQuiet, Nothing, Tasks
  <1>4. NoOrphanRequest
    BY <1>3 DEF WifiInv, OrphanInv, FormServed, NoOrphanRequest
  <1>5. NeverSilentlyIdle
    <2>1. SUFFICES ASSUME WifiQuiet, station = "idle", ~reconnect_timer, ~unretried,
                          ~(initial_provisioning /\ (connect_error \/ stored_creds = NoCreds))
                   PROVE  ap_station /\ setup_server # "none"
      BY DEF NeverSilentlyIdle
    <2>2. ~EventDue /\ boot # "start" /\ ~GaveUp
      BY <1>3, <2>1 DEF EventDue, WifiQuiet, GaveUp
    <2>3. Held
      BY <1>3, <2>1, <2>2 DEF WifiInv, IdleInv
    <2>4. ap_client_count > 0 /\ setup_server # "none"
      BY <1>3, <2>1, <2>3 DEF Held, RecoveryRetriesAreSlowed
    <2>5. ap_client_count = 1
      BY <2>4 DEF WifiInv, PhoneInv, PhoneOK
    <2>6. ap_station
      BY <1>3, <2>1, <2>5 DEF WifiInv, PhoneInv, PhoneOK
    <2>. QED  BY <2>4, <2>6
  <1>. QED  BY <1>1, <1>2, <1>4, <1>5 DEF WifiSafe

\* What is applied is what the person was shown, no request or prompt outlives
\* the form it came from, and a station that is not connected is never silently
\* idle, whatever the five tasks of wifi_setup.cpp interleave: a retry is armed,
\* a phone that is joined holds it, first-run setup says it gave up, or the one
\* esp_wifi_connect() failed that nothing retries.
THEOREM WifiSafeHolds == WifiSpec => []WifiSafe
  <1>1. WifiInit => WifiInv
    BY WifiInvInit
  <1>2. WifiInv /\ [WifiNext]_wifi_vars => WifiInv'
    <2>1. ASSUME WifiInv, WifiNext PROVE WifiInv'
      <3>1. WifiTypes' /\ WifiFlags' /\ WifiQueues' /\ RequestsCounted'
        BY <2>1, WifiTypesStep, WifiFlagsStep, WifiQueuesStep, RequestsCountedStep DEF WifiInv
      <3>2. ShownInv' /\ OrphanInv' /\ PhoneInv'
        BY <2>1, ShownInvStep, OrphanInvStep, PhoneInvStep DEF WifiInv
      <3>3. RadioOffInv' /\ HandlingInv' /\ LinkInv' /\ IdleInv'
        BY <2>1, RadioOffInvStep, HandlingInvStep, LinkInvStep, IdleInvStep DEF WifiInv
      <3>. QED  BY <3>1, <3>2, <3>3 DEF WifiInv
    <2>. QED  BY <2>1, WifiInvStutters
  <1>3. WifiInv => WifiSafe
    BY WifiInvSafe
  <1>. QED  BY <1>1, <1>2, <1>3, PTL DEF WifiSpec

-----------------------------------------------------------------------------
(* The application's lifetime and its event bus *)

\* The subscribers of type t among AppCore's first n members.
ListOf(t, n) ==
    IF t = "tick" THEN IF n >= 6 THEN <<"monitor", "power">>
                       ELSE IF n >= 4 THEN <<"monitor">> ELSE <<>>
    ELSE IF t = "state" THEN IF n >= 5 THEN <<"bridge">> ELSE <<>>
    ELSE IF n >= 3 THEN <<"banner", "sound">>
    ELSE IF n >= 2 THEN <<"banner">> ELSE <<>>

\* A PublishImpl() call under way.
Frames == [event : BusEvents, dispatcher : BOOLEAN, todo : Seq(Subscribers)]

\* A PublishImpl() call of a thread, of the p events published: what it has
\* still to call are distinct subscribers of its event's type.
Framed(th, f, p) ==
    /\ f \in Frames /\ f.event.by = th /\ f.event.n <= p /\ f.dispatcher = TRUE
    /\ f.todo # <<>>
    /\ \A i, j \in 1..Len(f.todo) : f.todo[i] = f.todo[j] => i = j
    /\ \A i \in 1..Len(f.todo) : SubscribesTo[f.todo[i]] = f.event.type

\* The calls of one thread: a second one only from a callback of the first,
\* with a notification.
Stacked(th, st, p) ==
    /\ st \in Seq(Frames) /\ Len(st) <= 2
    /\ \A i \in 1..Len(st) : Framed(th, st[i], p)
    /\ Len(st) = 2 => st[1].event.type = "notification" /\ st[2].event.type # "notification"

\* The call has still to reach s.
Awaits(f, s) == \E i \in 1..Len(f.todo) : f.todo[i] = s

\* Some call of a thread has still to reach s.
Reaches(st, s) == \E i \in 1..Len(st) : Awaits(st[i], s)

\* The types, the bounds, and the lists as a function of the members built.
LifeTypes ==
    /\ life_target \in {"firmware", "simulator"}
    /\ life_main \in {"boot", "building", "built", "starting", "running", "destroying", "down"}
    /\ life_built \in 0..7
    /\ life_timer \in {"none", "armed", "stopping", "stopped"}
    /\ life_task \in {"none", "running", "stopping", "stopped"}
    /\ bus_subscribers = [t \in BusTypes |-> ListOf(t, life_built)]
    /\ bus_frames \in [BusThreads -> Seq(Frames)]
    /\ \A th \in BusThreads : Stacked(th, bus_frames[th], bus_published)
    /\ bus_queue \in Seq([to : UiSubscribers, event : BusEvents])
    /\ \A i \in 1..Len(bus_queue) : bus_queue[i].event.n <= bus_published
    /\ bus_delivered \in [Subscribers -> Seq(BusEvents)]
    /\ \A s \in Subscribers : \A i \in 1..Len(bus_delivered[s]) :
          bus_delivered[s][i].n <= bus_published
    /\ bus_published \in 0..MaxPublishes

\* What exists and runs at each point of the main thread: everything from the
\* end of construction on, and as long as the timer is armed or a tick of it
\* is in flight.
Lifetimes ==
    /\ life_main = "boot" =>
          /\ life_built = 0 /\ life_task = "none"
          /\ \A th \in BusThreads : bus_frames[th] = <<>>
    /\ life_main = "building" => life_built < 7
    /\ life_main \in {"built", "starting", "running"} => life_built = 7
    /\ life_timer \in {"armed", "stopping"} => life_built = 7
    /\ bus_frames["timer"] # <<>> => life_timer \in {"armed", "stopping"}

\* The dispatcher is set before anything is built.
DispatcherSet == bus_dispatcher \in BOOLEAN /\ (life_main # "boot" => bus_dispatcher = TRUE)

\* The tick of Start() has been handed to s.
TickHeard(s) ==
    \/ \E i \in 1..Len(bus_delivered[s]) : bus_delivered[s][i].by = "main"
    \/ \E i \in 1..Len(bus_queue) : bus_queue[i].to = s /\ bus_queue[i].event.by = "main"

\* While Start() publishes it, the tick was handed to s or the call has still to
\* reach s; after that it was handed over.
FirstTick ==
    \A s \in {"monitor", "power"} :
        /\ life_main = "starting" =>
              TickHeard(s) \/ Reaches(bus_frames["main"], s)
        /\ life_main = "running" => TickHeard(s)

\* One thread's events to one UI subscriber s: what it was called with, d, is in
\* order and older than what is queued for it, and that than what is still to
\* be posted by the calls under way.
OrderedFor(s, d, q, fr) ==
    /\ \A i, j \in 1..Len(d) : i < j /\ d[i].by = d[j].by => d[i].n < d[j].n
    /\ \A i \in 1..Len(d), j \in 1..Len(q) :
          q[j].to = s /\ q[j].event.by = d[i].by => d[i].n < q[j].event.n
    /\ \A i, j \in 1..Len(q) :
          /\ i < j /\ q[i].to = s /\ q[j].to = s /\ q[i].event.by = q[j].event.by
          => q[i].event.n < q[j].event.n
    /\ \A th \in BusThreads : \A i \in 1..Len(fr[th]) : Awaits(fr[th][i], s) =>
          /\ \A j \in 1..Len(d) : d[j].by = th => d[j].n < fr[th][i].event.n
          /\ \A j \in 1..Len(q) :
                q[j].to = s /\ q[j].event.by = th => q[j].event.n < fr[th][i].event.n

Ordered == \A s \in UiSubscribers : OrderedFor(s, bus_delivered[s], bus_queue, bus_frames)

\* What makes LifeSafe inductive.
LifeInv ==
    /\ LifeTypes /\ Lifetimes /\ DispatcherSet /\ FirstTick /\ Ordered
    /\ UiNeverLate /\ TimerNeverLate

-----------------------------------------------------------------------------
\* The tables.
LEMMA LifeTables ==
    /\ Subscribers = {"banner", "sound", "monitor", "bridge", "power"}
    /\ SubscribesTo["banner"] = "notification" /\ SubscribesTo["sound"] = "notification"
    /\ SubscribesTo["monitor"] = "tick" /\ SubscribesTo["power"] = "tick"
    /\ SubscribesTo["bridge"] = "state"
    /\ Len(AppMembers) = 7
    /\ AppMembers[1] = "harmony" /\ AppMembers[2] = "banner" /\ AppMembers[3] = "sound"
    /\ AppMembers[4] = "monitor" /\ AppMembers[5] = "bridge" /\ AppMembers[6] = "power"
    /\ AppMembers[7] = "clock"
  BY DEF Subscribers, SubscribesTo, AppMembers

\* The lists hold distinct subscribers of their type.
LEMMA ListFacts ==
    ASSUME NEW t \in BusTypes, NEW n \in 0..7
    PROVE  LET l == ListOf(t, n)
           IN  /\ l \in Seq(Subscribers)
               /\ \A i, j \in 1..Len(l) : l[i] = l[j] => i = j
               /\ \A i \in 1..Len(l) : SubscribesTo[l[i]] = t
  <1>. DEFINE l == ListOf(t, n)
  <1>1. CASE l = <<>>
    BY <1>1
  <1>2. CASE l = <<"monitor", "power">> /\ t = "tick"
    BY <1>2, LifeTables
  <1>3. CASE l = <<"monitor">> /\ t = "tick"
    BY <1>3, LifeTables
  <1>4. CASE l = <<"bridge">> /\ t = "state"
    BY <1>4, LifeTables
  <1>5. CASE l = <<"banner", "sound">> /\ t = "notification"
    BY <1>5, LifeTables
  <1>6. CASE l = <<"banner">> /\ t = "notification"
    BY <1>6, LifeTables
  <1>. QED  BY <1>1, <1>2, <1>3, <1>4, <1>5, <1>6 DEF ListOf, BusTypes

\* A list holds exactly the subscribers of its type among the members built.
LEMMA ListMembers ==
    ASSUME NEW t \in BusTypes, NEW n \in 0..7, NEW s \in Subscribers
    PROVE  Contains(ListOf(t, n), s) <=>
              SubscribesTo[s] = t /\ \E i \in 1..n : AppMembers[i] = s
  <1>1. (\E i \in 1..n : AppMembers[i] = s) <=>
           \/ (s = "banner" /\ n >= 2) \/ (s = "sound" /\ n >= 3) \/ (s = "monitor" /\ n >= 4)
           \/ (s = "bridge" /\ n >= 5) \/ (s = "power" /\ n >= 6)
    <2>1. \A i \in 1..7 : i = 1 \/ i = 2 \/ i = 3 \/ i = 4 \/ i = 5 \/ i = 6 \/ i = 7
      OBVIOUS
    <2>2. ASSUME NEW i \in 1..n PROVE i \in 1..7 /\ i <= n
      OBVIOUS
    <2>3. ASSUME NEW i \in 1..n, AppMembers[i] = s
          PROVE  \/ (s = "banner" /\ n >= 2) \/ (s = "sound" /\ n >= 3) \/ (s = "monitor" /\ n >= 4)
                 \/ (s = "bridge" /\ n >= 5) \/ (s = "power" /\ n >= 6)
      <3>1. i \in 1..7 /\ i <= n /\ n \in Nat
        BY <2>2
      <3>2. s # "harmony" /\ s # "clock"
        BY LifeTables
      <3>3. (i = 2 /\ s = "banner") \/ (i = 3 /\ s = "sound") \/ (i = 4 /\ s = "monitor")
            \/ (i = 5 /\ s = "bridge") \/ (i = 6 /\ s = "power")
        BY <2>1, <2>3, <3>1, <3>2, LifeTables, Zenon
      <3>4. /\ (i = 2 => n >= 2) /\ (i = 3 => n >= 3) /\ (i = 4 => n >= 4)
            /\ (i = 5 => n >= 5) /\ (i = 6 => n >= 6)
        BY ONLY <3>1
      <3>. QED  BY <3>3, <3>4, Zenon
    <2>4. /\ (n >= 2 => 2 \in 1..n) /\ (n >= 3 => 3 \in 1..n) /\ (n >= 4 => 4 \in 1..n)
          /\ (n >= 5 => 5 \in 1..n) /\ (n >= 6 => 6 \in 1..n)
      OBVIOUS
    <2>. QED  BY <2>3, <2>4, LifeTables
  <1>2. Contains(ListOf(t, n), s) <=>
           \/ s = "banner" /\ t = "notification" /\ n >= 2
           \/ s = "sound" /\ t = "notification" /\ n >= 3
           \/ s = "monitor" /\ t = "tick" /\ n >= 4
           \/ s = "bridge" /\ t = "state" /\ n >= 5
           \/ s = "power" /\ t = "tick" /\ n >= 6
    <2>1. /\ \A x, y : Contains(<<x, y>>, s) <=> s = x \/ s = y
          /\ \A x : Contains(<<x>>, s) <=> s = x
          /\ ~Contains(<<>>, s)
      BY DEF Contains
    <2>2. CASE t = "tick"
      BY <2>1, <2>2 DEF ListOf
    <2>3. CASE t = "state"
      BY <2>1, <2>3 DEF ListOf
    <2>4. CASE t = "notification"
      BY <2>1, <2>4 DEF ListOf
    <2>. QED  BY <2>2, <2>3, <2>4 DEF BusTypes
  <1>. QED  BY <1>1, <1>2, LifeTables DEF BusTypes

\* A list is in the order of AppCore's members.
LEMMA ListOrder ==
    ASSUME NEW t \in BusTypes, NEW n \in 0..7,
           NEW i \in 1..Len(ListOf(t, n)), NEW j \in 1..Len(ListOf(t, n)), i < j
    PROVE  \E a, b \in 1..7 : /\ a < b /\ AppMembers[a] = ListOf(t, n)[i]
                              /\ AppMembers[b] = ListOf(t, n)[j]
  <1>1. CASE ListOf(t, n) = <<"monitor", "power">>
    <2>1. i = 1 /\ j = 2
      BY <1>1
    <2>. QED  BY <1>1, <2>1, LifeTables
  <1>2. CASE ListOf(t, n) = <<"banner", "sound">>
    <2>1. i = 1 /\ j = 2
      BY <1>2
    <2>. QED  BY <1>2, <2>1, LifeTables
  <1>3. CASE Len(ListOf(t, n)) < 2
    BY <1>3
  <1>. QED  BY <1>1, <1>2, <1>3 DEF ListOf

-----------------------------------------------------------------------------
(* The calls of PublishImpl() under way *)

\* The call left after s, the next of f, has been served.
LEMMA ServedFacts ==
    ASSUME NEW th, NEW f, NEW p, Framed(th, f, p)
    PROVE  /\ Head(f.todo) \in Subscribers /\ Awaits(f, Head(f.todo))
           /\ SubscribesTo[Head(f.todo)] = f.event.type
           /\ Served(f) = <<>> \/ \E g : /\ Served(f) = <<g>> /\ Framed(th, g, p) /\ g.event = f.event
                                         /\ ~Awaits(g, Head(f.todo))
                                         /\ \A x : Awaits(g, x) => Awaits(f, x)
           /\ \A x : Awaits(f, x) /\ x # Head(f.todo) =>
                 Served(f) # <<>> /\ Awaits(Served(f)[1], x)
  <1>1. /\ f \in Frames /\ f.todo \in Seq(Subscribers) /\ f.todo # <<>>
        /\ Len(f.todo) \in Nat /\ Len(f.todo) >= 1
    BY EmptySeq DEF Framed, Frames
  <1>2. Head(f.todo) = f.todo[1] /\ 1 \in 1..Len(f.todo) /\ f.todo[1] \in Subscribers
    BY <1>1, ElementOfSeq
  <1>3. Awaits(f, Head(f.todo)) /\ SubscribesTo[Head(f.todo)] = f.event.type
    BY <1>2 DEF Awaits, Framed
  <1>4. CASE Len(f.todo) = 1
    <2>1. Served(f) = <<>>
      BY <1>4 DEF Served
    <2>2. \A x : Awaits(f, x) => x = Head(f.todo)
      BY <1>2, <1>4 DEF Awaits
    <2>. QED  BY <1>2, <1>3, <2>1, <2>2
  <1>5. CASE Len(f.todo) # 1
    <2>. DEFINE g == [f EXCEPT !.todo = Tail(@)]
    <2>1. Served(f) = <<g>>
      BY <1>5 DEF Served
    <2>2. /\ Tail(f.todo) \in Seq(Subscribers) /\ Len(Tail(f.todo)) = Len(f.todo) - 1
          /\ \A i \in 1..(Len(f.todo) - 1) : Tail(f.todo)[i] = f.todo[i + 1]
      BY <1>1
    <2>3. g.todo = Tail(f.todo) /\ g.event = f.event /\ g.dispatcher = f.dispatcher
      BY <1>1 DEF Frames
    <2>4. g \in Frames
      BY <1>1, <2>2 DEF Frames
    <2>. HIDE DEF g
    <2>5. Len(g.todo) = Len(f.todo) - 1 /\ g.todo # <<>>
      <3>1. Len(g.todo) = Len(f.todo) - 1
        BY <2>2, <2>3
      <3>2. Len(g.todo) # 0
        BY <1>1, <1>5, <3>1
      <3>3. Len(<<>>) = 0
        OBVIOUS
      <3>4. g.todo # <<>>
        BY <3>2, <3>3, Zenon
      <3>. QED  BY <3>1, <3>4
    <2>6. \A i \in 1..Len(g.todo) : i + 1 \in 1..Len(f.todo) /\ g.todo[i] = f.todo[i + 1]
      BY <1>1, <2>2, <2>3, <2>5
    <2>7. \A i, j \in 1..Len(g.todo) : g.todo[i] = g.todo[j] => i = j
      BY <2>6 DEF Framed
    <2>8. \A i \in 1..Len(g.todo) : SubscribesTo[g.todo[i]] = g.event.type
      BY <2>3, <2>6 DEF Framed
    <2>9. Framed(th, g, p)
      BY <2>3, <2>4, <2>5, <2>7, <2>8 DEF Framed
    <2>10. ~Awaits(g, Head(f.todo))
      BY <1>2, <2>6 DEF Awaits, Framed
    <2>11. \A x : Awaits(g, x) => Awaits(f, x)
      BY <2>6 DEF Awaits
    <2>12. ASSUME NEW x, Awaits(f, x), x # Head(f.todo) PROVE Awaits(g, x)
      <3>1. PICK i \in 1..Len(f.todo) : f.todo[i] = x
        BY <2>12 DEF Awaits
      <3>2. i # 1
        BY <1>2, <2>12, <3>1
      <3>3. i - 1 \in 1..Len(g.todo) /\ (i - 1) + 1 = i
        BY <1>1, <2>5, <3>2
      <3>4. g.todo[i - 1] = x
        BY <2>6, <3>1, <3>3
      <3>. QED  BY <3>3, <3>4 DEF Awaits
    <2>13. Served(f)[1] = g /\ Served(f) # <<>>
      BY <2>1
    <2>. QED  BY <1>2, <1>3, <2>1, <2>3, <2>9, <2>10, <2>11, <2>12, <2>13
  <1>. QED  BY <1>4, <1>5

\* Arithmetic.
LEMMA OneOrTwo == ASSUME NEW n \in Nat, n >= 1, n <= 2 PROVE n = 1 \/ n = 2
  OBVIOUS

\* Arithmetic.
LEMMA OneIn == \A n : n = 1 => 1 \in 1..n
  OBVIOUS

\* Arithmetic.
LEMMA LessByOne == ASSUME NEW n \in Nat, n + 1 = 2 PROVE n = 1
  OBVIOUS

\* The calls of b are calls of st that have gone on, or publish event p + 1.
GoesOn(st, b, p) ==
    \A i \in 1..Len(b) :
        \/ b[i].event.n = p + 1
        \/ \E k \in 1..Len(st) : /\ b[i].event = st[k].event
                                 /\ \A x : Awaits(b[i], x) => Awaits(st[k], x)

\* The calls left after the innermost one has served its next subscriber: none
\* of them still has to reach that one, all others are still to be reached.
LEMMA BelowFacts ==
    ASSUME NEW th, NEW st, NEW p, Stacked(th, st, p), st # <<>>
    PROVE  LET f == Head(st)
               b == Served(f) \o Tail(st)
           IN  /\ f = st[1] /\ 1 \in 1..Len(st) /\ Framed(th, f, p)
               /\ Stacked(th, b, p)
               /\ f.event.type # "notification" =>
                     /\ Len(b) <= 1
                     /\ \A i \in 1..Len(b) : b[i].event.type # "notification"
               /\ GoesOn(st, b, p) /\ ~Reaches(b, Head(f.todo))
               /\ \A x : Reaches(st, x) /\ x # Head(f.todo) => Reaches(b, x)
  <1>. DEFINE f == Head(st)
              t == Tail(st)
              a == Served(f)
              b == a \o t
              s == Head(f.todo)
  <1>1. /\ st \in Seq(Frames) /\ Len(st) \in Nat /\ Len(st) >= 1 /\ Len(st) <= 2
        /\ \A i \in 1..Len(st) : Framed(th, st[i], p)
    BY EmptySeq DEF Stacked
  <1>2. f = st[1] /\ 1 \in 1..Len(st) /\ Framed(th, f, p)
    BY <1>1
  <1>3. t \in Seq(Frames) /\ Len(t) = Len(st) - 1 /\ (Len(st) = 2 => t[1] = st[2])
    BY <1>1
  <1>4. f.event.type = SubscribesTo[s]
    BY <1>2, ServedFacts
  <1>5. CASE a = <<>>
    <2>1. b = t
      <3>. HIDE DEF a, t
      <3>. QED  BY <1>3, <1>5, ConcatEmptySeq
    <2>2. \A x : Awaits(f, x) => x = s
      BY <1>2, <1>5, ServedFacts
    <2>. HIDE DEF a, b, f, t, s
    <2>3. CASE Len(st) = 1
      <3>1. Len(b) = 0 /\ b \in Seq(Frames)
        BY <1>3, <2>1, <2>3
      <3>2. \A i \in 1..Len(b) : FALSE
        BY <3>1
      <3>3. Stacked(th, b, p)
        BY <3>1, <3>2 DEF Stacked
      <3>4. \A k \in 1..Len(st) : k = 1
        BY <2>3
      <3>. QED  BY <1>2, <2>2, <3>1, <3>2, <3>3, <3>4 DEF f, t, a, b, s, GoesOn, Reaches
    <2>4. CASE Len(st) = 2
      <3>1. Len(b) = 1 /\ b \in Seq(Frames) /\ b[1] = st[2] /\ 2 \in 1..Len(st)
        BY <1>3, <2>1, <2>4
      <3>2. \A i \in 1..Len(b) : i = 1
        BY <3>1
      <3>3. st[1].event.type = "notification" /\ st[2].event.type # "notification"
        BY <2>4 DEF Stacked
      <3>4. Stacked(th, b, p)
        BY <1>1, <3>1, <3>2 DEF Stacked
      <3>5. ~Awaits(st[2], s)
        BY <1>1, <1>2, <1>4, <3>1, <3>3 DEF Awaits, Framed
      <3>6. \A k \in 1..Len(st) : k = 1 \/ k = 2
        BY <2>4
      <3>7. 1 \in 1..Len(b)
        BY <3>1
      <3>. QED  BY <1>2, <2>2, <3>1, <3>2, <3>3, <3>4, <3>5, <3>6, <3>7 DEF f, t, a, b, s, GoesOn, Reaches
    <2>5. Len(st) = 1 \/ Len(st) = 2
      BY <1>1, OneOrTwo
    <2>. QED  BY <2>3, <2>4, <2>5
  <1>6. CASE a # <<>>
    <2>1. PICK g : /\ a = <<g>> /\ Framed(th, g, p) /\ g.event = f.event /\ ~Awaits(g, s)
                   /\ \A x : Awaits(g, x) => Awaits(f, x)
      BY <1>2, <1>6, ServedFacts
    <2>2. \A x : Awaits(f, x) /\ x # s => Awaits(g, x)
      <3>1. \A x : Awaits(f, x) /\ x # s => Awaits(a[1], x)
        BY <1>2, ServedFacts
      <3>2. a[1] = g
        BY <2>1
      <3>. QED  BY <3>1, <3>2
    <2>3. g \in Frames
      BY <2>1 DEF Framed
    <2>4. /\ b \in Seq(Frames) /\ Len(b) = Len(st) /\ b[1] = g
          /\ (Len(st) = 2 => b[2] = st[2])
      <3>. HIDE DEF a, t
      <3>1. b = <<g>> \o t /\ <<g>> \in Seq(Frames) /\ Len(<<g>>) = 1 /\ <<g>>[1] = g
        BY <2>1, <2>3
      <3>. HIDE DEF b
      <3>2. b \in Seq(Frames) /\ Len(b) = Len(st) /\ b[1] = g
        BY <1>1, <1>3, <3>1
      <3>3. Len(st) = 2 => b[2] = t[1]
        BY <1>1, <1>3, <3>1
      <3>. QED  BY <1>3, <3>2, <3>3
    <2>. HIDE DEF a, b, f, t, s
    <2>5. CASE Len(st) = 1
      <3>1. Len(b) = 1 /\ 1 \in 1..Len(b) /\ \A i \in 1..Len(b) : i = 1
        BY <2>4, <2>5
      <3>2. Stacked(th, b, p)
        BY <2>1, <2>4, <3>1 DEF Stacked
      <3>3. \A k \in 1..Len(st) : k = 1
        BY <2>5
      <3>. QED  BY <1>2, <2>1, <2>2, <2>4, <3>1, <3>2, <3>3 DEF f, t, a, b, s, GoesOn, Reaches
    <2>6. CASE Len(st) = 2
      <3>1. /\ Len(b) = 2 /\ 1 \in 1..Len(b) /\ 2 \in 1..Len(b) /\ 2 \in 1..Len(st)
            /\ b[2] = st[2] /\ \A i \in 1..Len(b) : i = 1 \/ i = 2
        BY <2>4, <2>6
      <3>2. \A k \in 1..Len(st) : k = 1 \/ k = 2
        BY <2>6
      <3>3. st[1].event.type = "notification" /\ st[2].event.type # "notification"
        BY <2>6 DEF Stacked
      <3>4. Stacked(th, b, p)
        BY <1>1, <1>2, <2>1, <2>4, <3>1, <3>3 DEF Stacked
      <3>5. ~Awaits(st[2], s)
        BY <1>1, <1>2, <1>4, <3>1, <3>3 DEF Awaits, Framed
      <3>. QED  BY <1>2, <2>1, <2>2, <2>4, <3>1, <3>2, <3>3, <3>4, <3>5 DEF f, t, a, b, s, GoesOn, Reaches
    <2>7. Len(st) = 1 \/ Len(st) = 2
      BY <1>1, OneOrTwo
    <2>. QED  BY <2>5, <2>6, <2>7
  <1>. QED  BY <1>5, <1>6

\* A call of PublishImpl() with the list l begins.
Pushed(st, e, l) == IF l = <<>> THEN st ELSE <<[event |-> e, dispatcher |-> TRUE, todo |-> l]>> \o st

\* Thread th begins to publish, of the given type, when n members exist.
Begun(th, st, type, n, p) == Pushed(st, [n |-> p + 1, by |-> th, type |-> type], ListOf(type, n))

\* A call that begins is a second one at most, and reaches its whole list.
LEMMA PushedFacts ==
    ASSUME NEW th \in BusThreads, NEW st, NEW p \in Nat, NEW n \in 0..7, NEW type \in BusTypes,
           p < MaxPublishes, Stacked(th, st, p), Len(st) <= 1,
           Len(st) = 1 => type = "notification" /\ st[1].event.type # "notification"
    PROVE  /\ Stacked(th, Begun(th, st, type, n, p), p + 1)
           /\ GoesOn(st, Begun(th, st, type, n, p), p)
           /\ \A x : Reaches(st, x) => Reaches(Begun(th, st, type, n, p), x)
           /\ \A x : Contains(ListOf(type, n), x) => Reaches(Begun(th, st, type, n, p), x)
  <1>. DEFINE e == [n |-> p + 1, by |-> th, type |-> type]
              l == ListOf(type, n)
              b == Begun(th, st, type, n, p)
              f == [event |-> e, dispatcher |-> TRUE, todo |-> l]
  <1>1. /\ l \in Seq(Subscribers) /\ \A i, j \in 1..Len(l) : l[i] = l[j] => i = j
        /\ \A i \in 1..Len(l) : SubscribesTo[l[i]] = type
    BY ListFacts
  <1>2. st \in Seq(Frames) /\ Len(st) \in Nat /\ \A i \in 1..Len(st) : Framed(th, st[i], p)
    BY DEF Stacked
  <1>3. \A g : Framed(th, g, p) => Framed(th, g, p + 1)
    <2>. TAKE g
    <2>. HAVE Framed(th, g, p)
    <2>1. g.event.n \in Nat /\ g.event.n <= p
      BY DEF Framed, Frames, BusEvents
    <2>2. g.event.n <= p + 1
      BY <2>1
    <2>. QED  BY <2>2 DEF Framed
  <1>4. CASE l = <<>>
    <2>1. b = st
      BY <1>4 DEF Begun, Pushed
    <2>2. Stacked(th, b, p + 1)
      BY <1>2, <1>3, <2>1 DEF Stacked
    <2>3. \A x : ~Contains(l, x)
      BY <1>4 DEF Contains
    <2>. HIDE DEF b, l
    <2>. QED  BY <2>1, <2>2, <2>3 DEF b, l, GoesOn
  <1>5. CASE l # <<>>
    <2>1. b = <<f>> \o st
      BY <1>5 DEF Begun, Pushed
    <2>. HIDE DEF l
    <2>2. e \in BusEvents /\ e.n = p + 1 /\ e.by = th /\ e.type = type
      BY LifecycleAssumption DEF BusEvents
    <2>. HIDE DEF e
    <2>3. f \in Frames /\ f.event = e /\ f.dispatcher = TRUE /\ f.todo = l
      BY <1>1, <2>2 DEF Frames
    <2>. HIDE DEF f
    <2>4. f.event.n <= p + 1
      BY <2>2, <2>3
    <2>5. Framed(th, f, p + 1)
      BY <1>1, <1>5, <2>2, <2>3, <2>4 DEF Framed
    <2>6. b \in Seq(Frames) /\ Len(b) = Len(st) + 1 /\ b[1] = f
          /\ \A k \in 1..Len(st) : b[k + 1] = st[k]
      BY <1>2, <2>1, <2>3
    <2>. HIDE DEF b
    <2>7. \A i \in 1..Len(b) : i = 1 \/ (i - 1 \in 1..Len(st) /\ b[i] = st[i - 1])
      BY <1>2, <2>6
    <2>8. /\ 1 \in 1..Len(b) /\ Len(b) <= 2
          /\ \A k \in 1..Len(st) : k + 1 \in 1..Len(b) /\ b[k + 1] = st[k]
      BY <1>2, <2>6
    <2>9. Len(b) = 2 => b[1].event.type = "notification" /\ b[2].event.type # "notification"
      <3>. HAVE Len(b) = 2
      <3>0. Len(st) = 1
        BY <1>2, <2>6, LessByOne
      <3>1. Len(st) = 1 /\ 1 \in 1..Len(st) /\ 1 + 1 = 2
        BY <3>0
      <3>2. b[2] = st[1]
        BY <2>6, <3>1
      <3>. QED  BY <2>2, <2>3, <2>6, <3>1, <3>2
    <2>10. \A i \in 1..Len(b) : Framed(th, b[i], p + 1)
      BY <1>2, <1>3, <2>5, <2>6, <2>7
    <2>11. Stacked(th, b, p + 1)
      BY <2>6, <2>8, <2>9, <2>10 DEF Stacked
    <2>12. \A x : Contains(l, x) => Awaits(b[1], x)
      BY <2>3, <2>6 DEF Contains, Awaits
    <2>13. \A i \in 1..Len(b) : (\E k \in 1..Len(st) : b[i] = st[k]) \/ b[i].event.n = p + 1
      BY <2>2, <2>3, <2>6, <2>7
    <2>14. \A k \in 1..Len(st) : \E i \in 1..Len(b) : b[i] = st[k]
      BY <2>8
    <2>15. GoesOn(st, b, p)
      BY <2>13 DEF GoesOn
    <2>16. \A x : Reaches(st, x) => Reaches(b, x)
      BY <2>14 DEF Reaches
    <2>17. \A x : Contains(l, x) => Reaches(b, x)
      BY <2>8, <2>12 DEF Reaches
    <2>. QED  BY <2>11, <2>15, <2>16, <2>17 DEF b, l
  <1>. QED  BY <1>4, <1>5

-----------------------------------------------------------------------------
(* The order of one thread's events *)

\* What the UI queue holds.
Posts == [to : UiSubscribers, event : BusEvents]

\* The calls of every thread go on, or publish event p + 1.
Continued(fr, fr2, p) == \A th \in BusThreads : GoesOn(fr[th], fr2[th], p)

\* Calls that begin or go on do not disturb what was posted before.
LEMMA OrderedContinues ==
    ASSUME NEW s, NEW d \in Seq(BusEvents), NEW q \in Seq(Posts), NEW fr, NEW fr2, NEW p \in Nat,
           \A i \in 1..Len(d) : d[i].n <= p, \A i \in 1..Len(q) : q[i].event.n <= p,
           OrderedFor(s, d, q, fr), Continued(fr, fr2, p)
    PROVE  OrderedFor(s, d, q, fr2)
  <1>1. ASSUME NEW th \in BusThreads, NEW i \in 1..Len(fr2[th]), Awaits(fr2[th][i], s)
        PROVE  /\ \A j \in 1..Len(d) : d[j].by = th => d[j].n < fr2[th][i].event.n
               /\ \A j \in 1..Len(q) :
                     q[j].to = s /\ q[j].event.by = th => q[j].event.n < fr2[th][i].event.n
    <2>1. CASE fr2[th][i].event.n = p + 1
      <3>1. ASSUME NEW j \in 1..Len(d) PROVE d[j].n < p + 1
        <4>1. d[j] \in BusEvents
          BY ElementOfSeq
        <4>2. d[j].n \in Nat /\ d[j].n <= p
          BY <4>1 DEF BusEvents
        <4>. QED  BY ONLY <4>2, p \in Nat
      <3>2. ASSUME NEW j \in 1..Len(q) PROVE q[j].event.n < p + 1
        <4>1. q[j] \in Posts
          BY ElementOfSeq
        <4>2. q[j].event.n \in Nat /\ q[j].event.n <= p
          BY <4>1 DEF Posts, BusEvents
        <4>. QED  BY ONLY <4>2, p \in Nat
      <3>. QED  BY <2>1, <3>1, <3>2
    <2>2. CASE \E k \in 1..Len(fr[th]) : /\ fr2[th][i].event = fr[th][k].event
                                         /\ \A x : Awaits(fr2[th][i], x) => Awaits(fr[th][k], x)
      <3>1. PICK k \in 1..Len(fr[th]) : fr2[th][i].event = fr[th][k].event /\ Awaits(fr[th][k], s)
        BY <1>1, <2>2
      <3>. QED  BY <3>1 DEF OrderedFor
    <2>. QED  BY <2>1, <2>2 DEF Continued, GoesOn
  <1>. QED  BY <1>1 DEF OrderedFor

\* The innermost call of a thread posts its event to subscriber x.
LEMMA OrderedPosts ==
    ASSUME NEW s, NEW d \in Seq(BusEvents), NEW q \in Seq(Posts), NEW fr, NEW fr2, NEW x \in UiSubscribers,
           NEW th \in BusThreads, NEW e \in BusEvents, NEW k \in 1..Len(fr[th]),
           e = fr[th][k].event, e.by = th, Awaits(fr[th][k], x),
           OrderedFor(s, d, q, fr), OrderedFor(s, d, q, fr2),
           \A i \in 1..Len(fr2[th]) : ~Awaits(fr2[th][i], x)
    PROVE  OrderedFor(s, d, Append(q, [to |-> x, event |-> e]), fr2)
  <1>. DEFINE post == [to |-> x, event |-> e]
              r == Append(q, post)
              m == Len(q) + 1
  <1>1. post \in Posts /\ post.to = x /\ post.event = e
    BY DEF Posts
  <1>. HIDE DEF post
  <1>2. Len(q) \in Nat /\ Len(r) = m /\ r[m] = post /\ \A i \in 1..Len(q) : r[i] = q[i]
    BY <1>1
  <1>3. \A i \in 1..Len(r) : i \in 1..Len(q) \/ i = m
    BY <1>2
  <1>4. CASE s # x
    <2>. HIDE DEF r, m
    <2>1. \A i \in 1..Len(r) : r[i].to = s => i \in 1..Len(q) /\ r[i] = q[i]
      BY <1>1, <1>2, <1>3, <1>4
    <2>2. \A i, j \in 1..Len(d) : i < j /\ d[i].by = d[j].by => d[i].n < d[j].n
      BY DEF OrderedFor
    <2>3. \A i \in 1..Len(d), j \in 1..Len(r) :
             r[j].to = s /\ r[j].event.by = d[i].by => d[i].n < r[j].event.n
      BY <2>1 DEF OrderedFor
    <2>4. \A i, j \in 1..Len(r) :
             /\ i < j /\ r[i].to = s /\ r[j].to = s /\ r[i].event.by = r[j].event.by
             => r[i].event.n < r[j].event.n
      BY <2>1 DEF OrderedFor
    <2>5. \A h \in BusThreads : \A i \in 1..Len(fr2[h]) : Awaits(fr2[h][i], s) =>
             /\ \A j \in 1..Len(d) : d[j].by = h => d[j].n < fr2[h][i].event.n
             /\ \A j \in 1..Len(r) :
                   r[j].to = s /\ r[j].event.by = h => r[j].event.n < fr2[h][i].event.n
      BY <2>1 DEF OrderedFor
    <2>6. OrderedFor(s, d, r, fr2)
      BY <2>2, <2>3, <2>4, <2>5 DEF OrderedFor
    <2>. QED  BY <2>6 DEF r, post
  <1>5. CASE s = x
    <2>1. /\ \A j \in 1..Len(d) : d[j].by = th => d[j].n < e.n
          /\ \A j \in 1..Len(q) : q[j].to = s /\ q[j].event.by = th => q[j].event.n < e.n
      BY <1>5 DEF OrderedFor
    <2>0. m \in Nat /\ \A i \in 1..Len(q) : i < m
      BY <1>2
    <2>. HIDE DEF r, m
    <2>2. \A i, j \in 1..Len(d) : i < j /\ d[i].by = d[j].by => d[i].n < d[j].n
      BY DEF OrderedFor
    <2>3. ASSUME NEW i \in 1..Len(d), NEW j \in 1..Len(r), r[j].to = s, r[j].event.by = d[i].by
          PROVE  d[i].n < r[j].event.n
      <3>1. CASE j = m
        BY <1>1, <1>2, <2>1, <2>3, <3>1
      <3>2. CASE j \in 1..Len(q)
        BY <1>2, <2>3, <3>2 DEF OrderedFor
      <3>. QED  BY <1>3, <3>1, <3>2
    <2>4. ASSUME NEW i \in 1..Len(r), NEW j \in 1..Len(r), i < j, r[i].to = s, r[j].to = s,
                 r[i].event.by = r[j].event.by
          PROVE  r[i].event.n < r[j].event.n
      <3>1. i \in 1..Len(q)
        <4>1. CASE i = m
          <5>1. j <= m
            BY <1>2
          <5>. QED  BY <2>0, <2>4, <4>1, <5>1
        <4>. QED  BY <1>3, <4>1
      <3>2. CASE j = m
        BY <1>1, <1>2, <2>1, <2>4, <3>1, <3>2
      <3>3. CASE j \in 1..Len(q)
        BY <1>2, <2>4, <3>1, <3>3 DEF OrderedFor
      <3>. QED  BY <1>3, <3>2, <3>3
    <2>5. ASSUME NEW h \in BusThreads, NEW i \in 1..Len(fr2[h]), Awaits(fr2[h][i], s)
          PROVE  /\ \A j \in 1..Len(d) : d[j].by = h => d[j].n < fr2[h][i].event.n
                 /\ \A j \in 1..Len(r) :
                       r[j].to = s /\ r[j].event.by = h => r[j].event.n < fr2[h][i].event.n
      <3>1. h # th
        BY <1>5, <2>5
      <3>2. \A j \in 1..Len(r) : r[j].event.by = h => j \in 1..Len(q) /\ r[j] = q[j]
        BY <1>1, <1>2, <1>3, <3>1
      <3>. QED  BY <2>5, <3>2 DEF OrderedFor
    <2>6. OrderedFor(s, d, r, fr2)
      BY <2>2, <2>3, <2>4, <2>5 DEF OrderedFor
    <2>. QED  BY <2>6 DEF r, post
  <1>. QED  BY <1>4, <1>5

\* The oldest closure leaves the queue, and is called or not.
LEMMA OrderedDrains ==
    ASSUME NEW s, NEW d \in Seq(BusEvents), NEW q \in Seq(Posts), q # <<>>, NEW fr,
           OrderedFor(s, d, q, fr)
    PROVE  /\ OrderedFor(s, d, Tail(q), fr)
           /\ Head(q).to = s => OrderedFor(s, Append(d, Head(q).event), Tail(q), fr)
  <1>. DEFINE r == Tail(q)
              e == Head(q).event
              c == Append(d, e)
              m == Len(d) + 1
  <1>1. /\ Len(q) \in Nat /\ 1 \in 1..Len(q) /\ Head(q) = q[1] /\ q[1] \in Posts /\ Len(r) = Len(q) - 1
        /\ \A i \in 1..Len(r) : i + 1 \in 1..Len(q) /\ r[i] = q[i + 1] /\ 1 < i + 1
    <2>1. Len(q) \in Nat /\ Len(q) # 0
      BY EmptySeq
    <2>2. Len(q) >= 1
      BY <2>1
    <2>. QED  BY <2>2, ElementOfSeq
  <1>2. e \in BusEvents
    BY <1>1 DEF Posts
  <1>3. Len(d) \in Nat /\ Len(c) = m /\ c[m] = e /\ \A i \in 1..Len(d) : c[i] = d[i]
    BY <1>2
  <1>4. /\ \A i \in 1..Len(c) : i \in 1..Len(d) \/ i = m
        /\ \A i \in 1..Len(d) : i < m
    BY <1>3
  <1>. HIDE DEF r, c, m
  <1>5. OrderedFor(s, d, r, fr)
    <2>1. \A i, j \in 1..Len(r) :
             /\ i < j /\ r[i].to = s /\ r[j].to = s /\ r[i].event.by = r[j].event.by
             => r[i].event.n < r[j].event.n
      <3>1. ASSUME NEW i \in 1..Len(r), NEW j \in 1..Len(r), i < j PROVE i + 1 < j + 1
        BY <3>1
      <3>2. ASSUME NEW i \in 1..Len(r), NEW j \in 1..Len(r), i < j, r[i].to = s, r[j].to = s,
                   r[i].event.by = r[j].event.by
            PROVE  r[i].event.n < r[j].event.n
        <4>1. /\ i + 1 \in 1..Len(q) /\ j + 1 \in 1..Len(q) /\ i + 1 < j + 1
              /\ r[i] = q[i + 1] /\ r[j] = q[j + 1]
          BY <1>1, <3>1, <3>2
        <4>. HIDE DEF e
        <4>. QED  BY <3>2, <4>1 DEF OrderedFor
      <3>. QED  BY <3>2
    <2>2. \A i \in 1..Len(d), j \in 1..Len(r) :
             r[j].to = s /\ r[j].event.by = d[i].by => d[i].n < r[j].event.n
      BY <1>1 DEF OrderedFor
    <2>3. \A th \in BusThreads : \A i \in 1..Len(fr[th]) : Awaits(fr[th][i], s) =>
             /\ \A j \in 1..Len(d) : d[j].by = th => d[j].n < fr[th][i].event.n
             /\ \A j \in 1..Len(r) :
                   r[j].to = s /\ r[j].event.by = th => r[j].event.n < fr[th][i].event.n
      <3>1. \A j \in 1..Len(r) : \E k \in 1..Len(q) : r[j] = q[k]
        BY <1>1
      <3>2. ASSUME NEW th \in BusThreads, NEW i \in 1..Len(fr[th]), Awaits(fr[th][i], s)
            PROVE  /\ \A j \in 1..Len(d) : d[j].by = th => d[j].n < fr[th][i].event.n
                   /\ \A j \in 1..Len(q) :
                         q[j].to = s /\ q[j].event.by = th => q[j].event.n < fr[th][i].event.n
        BY <3>2 DEF OrderedFor
      <3>. QED  BY ONLY <3>1, <3>2
    <2>4. \A i, j \in 1..Len(d) : i < j /\ d[i].by = d[j].by => d[i].n < d[j].n
      BY DEF OrderedFor
    <2>. QED  BY <2>1, <2>2, <2>3, <2>4 DEF OrderedFor
  <1>6. ASSUME Head(q).to = s PROVE OrderedFor(s, c, r, fr)
    <2>0. q[1].to = s /\ q[1].event = e
      BY <1>1, <1>6
    <2>. HIDE DEF e
    <2>1. ASSUME NEW i \in 1..Len(c), NEW j \in 1..Len(c), i < j, c[i].by = c[j].by
          PROVE  c[i].n < c[j].n
      <3>1. i \in 1..Len(d)
        <4>1. CASE i = m
          <5>1. j <= m /\ m \in Nat
            BY <1>3
          <5>. QED  BY <2>1, <4>1, <5>1
        <4>. QED  BY <1>4, <4>1
      <3>2. CASE j = m
        BY <1>1, <1>3, <2>0, <2>1, <3>1, <3>2 DEF OrderedFor
      <3>3. CASE j \in 1..Len(d)
        BY <1>3, <2>1, <3>1, <3>3 DEF OrderedFor
      <3>. QED  BY <1>4, <3>2, <3>3
    <2>2. ASSUME NEW i \in 1..Len(c), NEW j \in 1..Len(r), r[j].to = s, r[j].event.by = c[i].by
          PROVE  c[i].n < r[j].event.n
      <3>1. CASE i = m
        <4>1. /\ j + 1 \in 1..Len(q) /\ 1 < j + 1 /\ 1 \in 1..Len(q) /\ r[j] = q[j + 1]
              /\ c[i] = e
          BY <1>1, <1>3, <3>1
        <4>. QED  BY <2>0, <2>2, <4>1 DEF OrderedFor
      <3>2. CASE i \in 1..Len(d)
        BY <1>3, <1>5, <2>2, <3>2 DEF OrderedFor
      <3>. QED  BY <1>4, <3>1, <3>2
    <2>3. ASSUME NEW th \in BusThreads, NEW i \in 1..Len(fr[th]), Awaits(fr[th][i], s)
          PROVE  /\ \A j \in 1..Len(c) : c[j].by = th => c[j].n < fr[th][i].event.n
                 /\ \A j \in 1..Len(r) :
                       r[j].to = s /\ r[j].event.by = th => r[j].event.n < fr[th][i].event.n
      <3>1. e.by = th => e.n < fr[th][i].event.n
        BY <1>1, <2>0, <2>3 DEF OrderedFor
      <3>2. \A j \in 1..Len(d) : d[j].by = th => d[j].n < fr[th][i].event.n
        BY <2>3 DEF OrderedFor
      <3>3. \A j \in 1..Len(c) : c[j].by = th => c[j].n < fr[th][i].event.n
        BY <1>3, <1>4, <3>1, <3>2
      <3>. QED  BY <1>5, <2>3, <3>3 DEF OrderedFor
    <2>4. \A i, j \in 1..Len(r) :
             /\ i < j /\ r[i].to = s /\ r[j].to = s /\ r[i].event.by = r[j].event.by
             => r[i].event.n < r[j].event.n
      BY <1>5 DEF OrderedFor
    <2>. QED  BY <2>1, <2>2, <2>3, <2>4 DEF OrderedFor
  <1>. QED  BY <1>5, <1>6 DEF r, c

-----------------------------------------------------------------------------
(* The steps *)

\* The calls of a thread are also calls of a later count.
LEMMA StackedLater ==
    ASSUME NEW th, NEW st, NEW p \in Nat, Stacked(th, st, p)
    PROVE  Stacked(th, st, p + 1)
  <1>1. ASSUME NEW g, Framed(th, g, p) PROVE Framed(th, g, p + 1)
    <2>1. g.event.n \in Nat /\ g.event.n <= p
      BY <1>1 DEF Framed, Frames, BusEvents
    <2>2. g.event.n <= p + 1
      BY <2>1
    <2>. QED  BY <1>1, <2>2 DEF Framed
  <1>. QED  BY <1>1 DEF Stacked

\* Everything that subscribes exists once AppCore is complete, and a list is
\* never out of step with the members.
LEMMA ExistsFacts ==
    ASSUME LifeInv
    PROVE  /\ life_built = 7 => \A s \in Subscribers : Exists(s) /\ FindCallback(s)
           /\ \A s \in Subscribers : FindCallback(s) => Exists(s)
  <1>1. life_built \in 0..7 /\ bus_subscribers = [t \in BusTypes |-> ListOf(t, life_built)]
    BY DEF LifeInv, LifeTypes
  <1>2. ASSUME NEW s \in Subscribers
        PROVE  FindCallback(s) <=> Exists(s)
    <2>1. SubscribesTo[s] \in BusTypes
      BY LifeTables DEF BusTypes
    <2>2. bus_subscribers[SubscribesTo[s]] = ListOf(SubscribesTo[s], life_built)
      BY <1>1, <2>1
    <2>. QED  BY <1>1, <2>1, <2>2, ListMembers DEF FindCallback, Exists
  <1>3. ASSUME life_built = 7, NEW s \in Subscribers PROVE Exists(s)
    <2>1. 2 \in 1..7 /\ 3 \in 1..7 /\ 4 \in 1..7 /\ 5 \in 1..7 /\ 6 \in 1..7
      OBVIOUS
    <2>. QED  BY <1>3, <2>1, LifeTables DEF Exists
  <1>. QED  BY <1>2, <1>3

\* A thread calls PublishImpl().
LEMMA PublishStep ==
    ASSUME LifeInv, NEW th \in BusThreads, NEW type \in {"tick", "state"},
           PublishFrom(th, type), life_main # "boot"
    PROVE  /\ bus_published' = bus_published + 1 /\ bus_published' \in 0..MaxPublishes
           /\ bus_frames' \in [BusThreads -> Seq(Frames)]
           /\ \A h \in BusThreads : Stacked(h, bus_frames'[h], bus_published')
           /\ \A h \in BusThreads : h # th => bus_frames'[h] = bus_frames[h]
           /\ Continued(bus_frames, bus_frames', bus_published)
           /\ \A x : Contains(ListOf(type, life_built), x) => Reaches(bus_frames'[th], x)
  <1>. DEFINE p == bus_published
              l == ListOf(type, life_built)
              st == bus_frames[th]
              b == Begun(th, st, type, life_built, p)
  <1>1. /\ p \in Nat /\ p \in 0..MaxPublishes /\ p < MaxPublishes /\ life_built \in 0..7
        /\ bus_subscribers = [t \in BusTypes |-> ListOf(t, life_built)]
        /\ bus_frames \in [BusThreads -> Seq(Frames)]
        /\ \A h \in BusThreads : Stacked(h, bus_frames[h], p)
    BY LifecycleAssumption DEF LifeInv, LifeTypes, PublishFrom
  <1>2. bus_dispatcher = TRUE
    BY Zenon DEF LifeInv, DispatcherSet
  <1>3. type \in BusTypes /\ bus_subscribers[type] = l
    BY <1>1 DEF BusTypes
  <1>4. /\ st = <<>> /\ bus_published' = p + 1
        /\ bus_frames' = [bus_frames EXCEPT ![th] = Called(st, th, type, p + 1)]
    BY DEF PublishFrom
  <1>5. Called(st, th, type, p + 1) = b
    BY <1>2, <1>3 DEF Called, Begun, Pushed
  <1>6. Stacked(th, st, p) /\ Len(st) = 0 /\ \A k \in 1..Len(st) : FALSE
    BY <1>1, <1>4
  <1>. HIDE DEF p, l, b, st
  <1>7. /\ Stacked(th, b, p + 1) /\ GoesOn(st, b, p)
        /\ \A x : Contains(l, x) => Reaches(b, x)
    <2>1. Len(st) <= 1 /\ (Len(st) = 1 => type = "notification" /\ st[1].event.type # "notification")
      BY <1>6
    <2>2. p \in Nat /\ p < MaxPublishes /\ life_built \in 0..7 /\ type \in BusTypes /\ Stacked(th, st, p)
      BY <1>1, <1>3, <1>6
    <2>. QED  BY <2>1, <2>2, PushedFacts DEF b, l
  <1>8. bus_frames' = [bus_frames EXCEPT ![th] = b]
    BY <1>4, <1>5
  <1>9. b \in Seq(Frames)
    BY <1>7 DEF Stacked
  <1>10. bus_frames'[th] = b /\ \A h \in BusThreads : h # th => bus_frames'[h] = bus_frames[h]
    BY <1>1, <1>8
  <1>11. bus_frames' \in [BusThreads -> Seq(Frames)]
    BY <1>1, <1>8, <1>9
  <1>12. ASSUME NEW h \in BusThreads PROVE Stacked(h, bus_frames'[h], p + 1)
    BY <1>1, <1>7, <1>10, StackedLater
  <1>13. Continued(bus_frames, bus_frames', p)
    <2>1. \A x : GoesOn(x, x, p)
      BY DEF GoesOn
    <2>2. \A h \in BusThreads : GoesOn(bus_frames[h], bus_frames'[h], p)
      BY <1>7, <1>10, <2>1 DEF st
    <2>. QED  BY <2>2 DEF Continued
  <1>14. bus_published' \in 0..MaxPublishes
    BY <1>1, <1>4, LifecycleAssumption
  <1>. QED  BY <1>4, <1>7, <1>10, <1>11, <1>12, <1>13, <1>14 DEF p, l

\* The order survives whatever publishes.
LEMMA OrderedStep ==
    ASSUME LifeInv, Continued(bus_frames, bus_frames', bus_published), bus_queue' = bus_queue,
           \A s \in UiSubscribers : bus_delivered'[s] = bus_delivered[s]
    PROVE  Ordered'
  <1>1. ASSUME NEW s \in UiSubscribers
        PROVE  OrderedFor(s, bus_delivered[s], bus_queue, bus_frames')
    <2>1. s \in Subscribers
      BY LifeTables DEF UiSubscribers
    <2>2. /\ bus_delivered[s] \in Seq(BusEvents) /\ bus_queue \in Seq(Posts) /\ bus_published \in Nat
          /\ \A i \in 1..Len(bus_delivered[s]) : bus_delivered[s][i].n <= bus_published
          /\ \A i \in 1..Len(bus_queue) : bus_queue[i].event.n <= bus_published
      BY <2>1, LifecycleAssumption DEF LifeInv, LifeTypes, Posts
    <2>3. OrderedFor(s, bus_delivered[s], bus_queue, bus_frames)
      BY DEF LifeInv, Ordered
    <2>. QED  BY <2>2, <2>3, OrderedContinues
  <1>. QED  BY <1>1 DEF Ordered

\* What was published stays within the new count.
LEMMA CountedStep ==
    ASSUME LifeInv, bus_published' = bus_published + 1, bus_queue' = bus_queue,
           bus_delivered' = bus_delivered
    PROVE  /\ \A i \in 1..Len(bus_queue') : bus_queue'[i].event.n <= bus_published'
           /\ \A s \in Subscribers : \A i \in 1..Len(bus_delivered'[s]) :
                 bus_delivered'[s][i].n <= bus_published'
  <1>1. bus_published \in Nat /\ bus_queue \in Seq(Posts) /\ bus_delivered \in [Subscribers -> Seq(BusEvents)]
    BY LifecycleAssumption DEF LifeInv, LifeTypes, Posts
  <1>2. ASSUME NEW i \in 1..Len(bus_queue) PROVE bus_queue[i].event.n <= bus_published + 1
    <2>1. bus_queue[i] \in Posts
      BY <1>1, ElementOfSeq
    <2>2. bus_queue[i].event.n \in Nat /\ bus_queue[i].event.n <= bus_published
      BY <2>1 DEF Posts, BusEvents, LifeInv, LifeTypes
    <2>. QED  BY <1>1, <2>2
  <1>3. ASSUME NEW s \in Subscribers, NEW i \in 1..Len(bus_delivered[s])
        PROVE  bus_delivered[s][i].n <= bus_published + 1
    <2>1. bus_delivered[s] \in Seq(BusEvents)
      BY <1>1
    <2>2. bus_delivered[s][i] \in BusEvents
      BY <2>1, ElementOfSeq
    <2>3. bus_delivered[s][i].n \in Nat /\ bus_delivered[s][i].n <= bus_published
      BY <2>2 DEF BusEvents, LifeInv, LifeTypes
    <2>. QED  BY <1>1, <2>3
  <1>. QED  BY <1>2, <1>3

\* StartClock, TimerFires, TaskPublishes.
LEMMA PublishSteps ==
    ASSUME LifeInv, StartClock \/ TimerFires \/ TaskPublishes PROVE LifeInv'
  <1>0. life_main # "boot"
    <2>1. life_timer \in {"armed", "stopping"} => life_main # "boot"
      BY DEF LifeInv, Lifetimes
    <2>2. life_task # "none" => life_main # "boot"
      BY DEF LifeInv, Lifetimes
    <2>. QED  BY <2>1, <2>2 DEF StartClock, TimerFires, TaskPublishes
  <1>1. PICK th \in BusThreads, type \in {"tick", "state"} :
           /\ PublishFrom(th, type)
           /\ th = "main" => life_main = "built" /\ life_main' = "starting" /\ type = "tick"
           /\ th # "main" => life_main' = life_main
           /\ th = "timer" => life_timer \in {"armed", "stopping"}
    BY DEF StartClock, TimerFires, TaskPublishes, BusThreads, core_vars
  <1>2. /\ life_target' = life_target /\ life_built' = life_built /\ life_timer' = life_timer
        /\ life_task' = life_task /\ bus_subscribers' = bus_subscribers
        /\ bus_queue' = bus_queue /\ bus_delivered' = bus_delivered /\ bus_late' = bus_late
    BY DEF StartClock, TimerFires, TaskPublishes, core_vars, thread_vars
  <1>3. bus_dispatcher' = bus_dispatcher
    BY Zenon DEF StartClock, TimerFires, TaskPublishes
  <1>4. /\ bus_published' = bus_published + 1 /\ bus_published' \in 0..MaxPublishes
        /\ bus_frames' \in [BusThreads -> Seq(Frames)]
        /\ \A h \in BusThreads : Stacked(h, bus_frames'[h], bus_published')
        /\ \A h \in BusThreads : h # th => bus_frames'[h] = bus_frames[h]
        /\ Continued(bus_frames, bus_frames', bus_published)
        /\ \A x : Contains(ListOf(type, life_built), x) => Reaches(bus_frames'[th], x)
    BY <1>0, <1>1, PublishStep
  <1>5. Ordered'
    BY <1>2, <1>4, OrderedStep
  <1>6. LifeTypes'
    <2>1. life_main' \in {"boot", "building", "built", "starting", "running", "destroying", "down"}
      BY <1>1 DEF LifeInv, LifeTypes
    <2>2. /\ \A i \in 1..Len(bus_queue') : bus_queue'[i].event.n <= bus_published'
          /\ \A s \in Subscribers : \A i \in 1..Len(bus_delivered'[s]) :
                bus_delivered'[s][i].n <= bus_published'
      BY <1>2, <1>4, CountedStep
    <2>. QED  BY <1>2, <1>4, <2>1, <2>2 DEF LifeInv, LifeTypes
  <1>7. Lifetimes'
    <2>1. life_main' # "boot"
      BY <1>0, <1>1
    <2>2. bus_frames'["timer"] # <<>> => life_timer \in {"armed", "stopping"}
      BY <1>1, <1>4 DEF LifeInv, Lifetimes, BusThreads
    <2>. QED  BY <1>1, <1>2, <2>1, <2>2 DEF LifeInv, Lifetimes
  <1>8. DispatcherSet'
    BY <1>0, <1>3, Zenon DEF LifeInv, DispatcherSet
  <1>9. FirstTick'
    <2>1. ASSUME NEW s \in {"monitor", "power"}, TickHeard(s) PROVE TickHeard(s)'
      BY <1>2, <2>1 DEF TickHeard
    <2>2. CASE th # "main"
      <3>1. bus_frames'["main"] = bus_frames["main"] /\ life_main' = life_main
        BY <1>1, <1>4, <2>2 DEF BusThreads
      <3>. QED  BY <2>1, <3>1 DEF LifeInv, FirstTick
    <2>3. CASE th = "main"
      <3>1. life_built = 7 /\ life_main' = "starting" /\ type = "tick"
        BY <1>1, <2>3 DEF LifeInv, Lifetimes
      <3>2. ListOf(type, life_built) = <<"monitor", "power">>
        BY <3>1 DEF ListOf
      <3>3. \A s \in {"monitor", "power"} : Contains(<<"monitor", "power">>, s)
        BY DEF Contains
      <3>4. \A s \in {"monitor", "power"} : Reaches(bus_frames'["main"], s)
        BY <1>4, <2>3, <3>2, <3>3
      <3>. QED  BY <3>1, <3>4 DEF FirstTick
    <2>. QED  BY <2>2, <2>3
  <1>10. UiNeverLate' /\ TimerNeverLate'
    BY <1>2 DEF LifeInv, UiNeverLate, TimerNeverLate
  <1>. QED  BY <1>5, <1>6, <1>7, <1>8, <1>9, <1>10 DEF LifeInv

\* A tick that was handed over stays handed over while deliveries and posts
\* only grow.
LEMMA HeardStays ==
    ASSUME NEW s, TickHeard(s),
           /\ Len(bus_delivered[s]) \in Nat /\ Len(bus_delivered'[s]) \in Nat
           /\ Len(bus_delivered[s]) <= Len(bus_delivered'[s])
           /\ \A i \in 1..Len(bus_delivered[s]) : bus_delivered'[s][i] = bus_delivered[s][i],
           /\ Len(bus_queue) \in Nat /\ Len(bus_queue') \in Nat /\ Len(bus_queue) <= Len(bus_queue')
           /\ \A i \in 1..Len(bus_queue) : bus_queue'[i] = bus_queue[i]
    PROVE  TickHeard(s)'
  <1>1. CASE \E i \in 1..Len(bus_delivered[s]) : bus_delivered[s][i].by = "main"
    <2>1. PICK i \in 1..Len(bus_delivered[s]) : bus_delivered[s][i].by = "main"
      BY <1>1
    <2>2. i \in 1..Len(bus_delivered'[s]) /\ bus_delivered'[s][i].by = "main"
      BY <2>1
    <2>. QED  BY <2>2 DEF TickHeard
  <1>2. CASE \E i \in 1..Len(bus_queue) : bus_queue[i].to = s /\ bus_queue[i].event.by = "main"
    <2>1. PICK i \in 1..Len(bus_queue) : bus_queue[i].to = s /\ bus_queue[i].event.by = "main"
      BY <1>2
    <2>2. i \in 1..Len(bus_queue') /\ bus_queue'[i].to = s /\ bus_queue'[i].event.by = "main"
      BY <2>1
    <2>. QED  BY <2>2 DEF TickHeard
  <1>. QED  BY <1>1, <1>2 DEF TickHeard

\* PublishImpl() posts to a UI subscriber.
LEMMA DeliverUi ==
    ASSUME LifeInv, NEW th \in BusThreads, bus_frames[th] # <<>>,
           NEW f, f = Head(bus_frames[th]), NEW s, s = Head(f.todo), s \in UiSubscribers,
           bus_queue' = Append(bus_queue, [to |-> s, event |-> f.event]),
           bus_frames' = [bus_frames EXCEPT ![th] = Served(f) \o Tail(bus_frames[th])],
           UNCHANGED <<bus_published, bus_delivered, bus_late, core_vars, thread_vars, bus_subscribers>>,
           bus_dispatcher' = bus_dispatcher
    PROVE  LifeInv'
  <1>. DEFINE st == bus_frames[th]
              b == Served(f) \o Tail(st)
              p == bus_published
              post == [to |-> s, event |-> f.event]
  <1>1. /\ bus_published' = p /\ bus_delivered' = bus_delivered /\ bus_late' = bus_late
        /\ life_target' = life_target /\ life_main' = life_main /\ life_built' = life_built
        /\ life_timer' = life_timer /\ life_task' = life_task /\ bus_subscribers' = bus_subscribers
    BY DEF core_vars, thread_vars
  <1>2. /\ p \in Nat /\ bus_frames \in [BusThreads -> Seq(Frames)] /\ bus_queue \in Seq(Posts)
        /\ \A h \in BusThreads : Stacked(h, bus_frames[h], p)
    BY LifecycleAssumption DEF LifeInv, LifeTypes, Posts
  <1>. HIDE DEF p
  <1>3. /\ f = st[1] /\ 1 \in 1..Len(st) /\ Framed(th, f, p)
        /\ Stacked(th, b, p) /\ GoesOn(st, b, p) /\ ~Reaches(b, s)
        /\ \A x : Reaches(st, x) /\ x # s => Reaches(b, x)
    BY <1>2, BelowFacts
  <1>4. /\ f.event \in BusEvents /\ f.event.by = th /\ f.event.n <= p /\ Awaits(f, s)
    BY <1>3, ServedFacts DEF Framed, Frames
  <1>5. post \in Posts /\ post.to = s /\ post.event = f.event
    BY <1>4 DEF Posts
  <1>. HIDE DEF b, post
  <1>6. bus_frames' = [bus_frames EXCEPT ![th] = b] /\ bus_queue' = Append(bus_queue, post)
    BY DEF b, post
  <1>7. b \in Seq(Frames)
    BY <1>3 DEF Stacked
  <1>8. /\ bus_frames' \in [BusThreads -> Seq(Frames)] /\ bus_frames'[th] = b
        /\ \A h \in BusThreads : h # th => bus_frames'[h] = bus_frames[h]
    BY <1>2, <1>6, <1>7
  <1>9. /\ bus_queue' \in Seq(Posts) /\ Len(bus_queue) \in Nat /\ Len(bus_queue') = Len(bus_queue) + 1
        /\ bus_queue'[Len(bus_queue) + 1] = post
        /\ \A i \in 1..Len(bus_queue) : bus_queue'[i] = bus_queue[i]
    BY <1>2, <1>5, <1>6
  <1>10. LifeTypes'
    <2>1. \A h \in BusThreads : Stacked(h, bus_frames'[h], p)
      BY <1>2, <1>3, <1>8
    <2>2. ASSUME NEW i \in 1..Len(bus_queue') PROVE bus_queue'[i].event.n <= p
      <3>1. CASE i = Len(bus_queue) + 1
        BY <1>4, <1>5, <1>9, <3>1
      <3>2. CASE i \in 1..Len(bus_queue)
        BY <1>9, <3>2 DEF LifeInv, LifeTypes, p
      <3>. QED  BY <1>9, <3>1, <3>2
    <2>3. bus_queue' \in Seq([to : UiSubscribers, event : BusEvents])
      BY <1>9 DEF Posts
    <2>4. bus_published' = bus_published /\ LifeTypes
      BY <1>1 DEF p, LifeInv
    <2>. QED  BY <1>1, <1>8, <2>1, <2>2, <2>3, <2>4 DEF LifeTypes, p
  <1>11. Lifetimes'
    <2>1. life_main # "boot"
      BY DEF LifeInv, Lifetimes
    <2>2. bus_frames'["timer"] # <<>> => life_timer \in {"armed", "stopping"}
      BY <1>8 DEF LifeInv, Lifetimes, BusThreads
    <2>. QED  BY <1>1, <2>1, <2>2 DEF LifeInv, Lifetimes
  <1>12. DispatcherSet'
    BY <1>1, Zenon DEF LifeInv, DispatcherSet
  <1>13. FirstTick'
    <2>1. ASSUME NEW x \in {"monitor", "power"}, TickHeard(x) PROVE TickHeard(x)'
      <3>1. bus_delivered[x] \in Seq(BusEvents)
        BY LifeTables DEF LifeInv, LifeTypes
      <3>2. Len(bus_delivered[x]) \in Nat /\ Len(bus_delivered'[x]) = Len(bus_delivered[x])
        BY <1>1, <3>1
      <3>3. Len(bus_queue') \in Nat /\ Len(bus_queue) <= Len(bus_queue')
        BY <1>9
      <3>. QED  BY <1>1, <1>9, <2>1, <3>2, <3>3, HeardStays
    <2>2. ASSUME NEW x \in {"monitor", "power"}, Reaches(bus_frames["main"], x)
          PROVE  TickHeard(x)' \/ Reaches(bus_frames'["main"], x)
      <3>1. CASE th # "main"
        BY <1>8, <2>2, <3>1 DEF BusThreads
      <3>2. CASE th = "main" /\ x # s
        BY <1>3, <1>8, <2>2, <3>2
      <3>3. CASE th = "main" /\ x = s
        <4>1. Len(bus_queue) + 1 \in 1..Len(bus_queue')
          BY <1>9
        <4>. QED  BY <1>4, <1>5, <1>9, <3>3, <4>1 DEF TickHeard
      <3>. QED  BY <3>1, <3>2, <3>3
    <2>. QED  BY <1>1, <2>1, <2>2 DEF LifeInv, FirstTick
  <1>14. Ordered'
    <2>1. Continued(bus_frames, bus_frames', p)
      <3>1. \A x : GoesOn(x, x, p)
        BY DEF GoesOn
      <3>2. \A h \in BusThreads : GoesOn(bus_frames[h], bus_frames'[h], p)
        BY <1>3, <1>8, <3>1
      <3>. QED  BY <3>2 DEF Continued
    <2>2. ASSUME NEW u \in UiSubscribers
          PROVE  OrderedFor(u, bus_delivered[u], bus_queue', bus_frames')
      <3>1. u \in Subscribers
        BY LifeTables DEF UiSubscribers
      <3>2. /\ bus_delivered[u] \in Seq(BusEvents)
            /\ \A i \in 1..Len(bus_delivered[u]) : bus_delivered[u][i].n <= p
            /\ \A i \in 1..Len(bus_queue) : bus_queue[i].event.n <= p
        BY <3>1 DEF LifeInv, LifeTypes, p
      <3>3. OrderedFor(u, bus_delivered[u], bus_queue, bus_frames)
        BY DEF LifeInv, Ordered
      <3>4. OrderedFor(u, bus_delivered[u], bus_queue, bus_frames')
        BY <1>2, <2>1, <3>2, <3>3, OrderedContinues
      <3>5. \A i \in 1..Len(bus_frames'[th]) : ~Awaits(bus_frames'[th][i], s)
        BY <1>3, <1>8 DEF Reaches
      <3>6. f.event = bus_frames[th][1].event /\ Awaits(bus_frames[th][1], s) /\ 1 \in 1..Len(bus_frames[th])
        BY <1>3, <1>4
      <3>7. bus_delivered[u] \in Seq(BusEvents) /\ bus_queue \in Seq(Posts) /\ f.event \in BusEvents
            /\ f.event.by = th
        BY <1>2, <1>4, <3>2
      <3>8. OrderedFor(u, bus_delivered[u], Append(bus_queue, [to |-> s, event |-> f.event]), bus_frames')
        BY ONLY s \in UiSubscribers, th \in BusThreads, <3>3, <3>4, <3>5, <3>6, <3>7, OrderedPosts
      <3>. QED  BY <1>6, <3>8 DEF post
    <2>. QED  BY <1>1, <2>2 DEF Ordered
  <1>15. UiNeverLate' /\ TimerNeverLate'
    BY <1>1 DEF LifeInv, UiNeverLate, TimerNeverLate
  <1>. QED  BY <1>10, <1>11, <1>12, <1>13, <1>14, <1>15 DEF LifeInv

\* PublishImpl() calls a subscriber on its own thread, which may publish.
LEMMA DeliverHere ==
    ASSUME LifeInv, NEW th \in BusThreads, bus_frames[th] # <<>>,
           NEW f, f = Head(bus_frames[th]), NEW s, s = Head(f.todo), s \notin UiSubscribers,
           NEW b, b = Served(f) \o Tail(bus_frames[th]), NEW nb,
           bus_delivered' = [bus_delivered EXCEPT ![s] = Append(@, f.event)],
           bus_late' = IF Exists(s) THEN bus_late ELSE bus_late \cup {<<th, s>>},
           bus_frames' = [bus_frames EXCEPT ![th] = nb],
           \/ nb = b /\ bus_published' = bus_published
           \/ /\ s \in Republishing /\ bus_published < MaxPublishes
              /\ bus_published' = bus_published + 1
              /\ nb = Called(b, th, "notification", bus_published + 1),
           UNCHANGED <<bus_queue, core_vars, thread_vars, bus_subscribers>>,
           bus_dispatcher' = bus_dispatcher
    PROVE  LifeInv'
  <1>. DEFINE st == bus_frames[th]
              p == bus_published
  <1>1. /\ bus_queue' = bus_queue
        /\ life_target' = life_target /\ life_main' = life_main /\ life_built' = life_built
        /\ life_timer' = life_timer /\ life_task' = life_task /\ bus_subscribers' = bus_subscribers
    BY DEF core_vars, thread_vars
  <1>2. /\ p \in Nat /\ p \in 0..MaxPublishes
        /\ bus_frames \in [BusThreads -> Seq(Frames)] /\ bus_queue \in Seq(Posts)
        /\ bus_delivered \in [Subscribers -> Seq(BusEvents)] /\ life_built \in 0..7
        /\ bus_subscribers = [t \in BusTypes |-> ListOf(t, life_built)]
        /\ \A h \in BusThreads : Stacked(h, bus_frames[h], p)
    BY LifecycleAssumption DEF LifeInv, LifeTypes, Posts
  <1>. HIDE DEF p
  <1>3. /\ f = st[1] /\ 1 \in 1..Len(st) /\ Framed(th, f, p)
        /\ Stacked(th, b, p) /\ GoesOn(st, b, p) /\ ~Reaches(b, s)
        /\ f.event.type # "notification" =>
              Len(b) <= 1 /\ \A i \in 1..Len(b) : b[i].event.type # "notification"
        /\ \A x : Reaches(st, x) /\ x # s => Reaches(b, x)
    BY <1>2, BelowFacts
  <1>4. /\ f.event \in BusEvents /\ f.event.by = th /\ f.event.n <= p /\ Awaits(f, s)
        /\ s \in Subscribers /\ SubscribesTo[s] = f.event.type
    <2>1. s \in Subscribers /\ Awaits(f, s) /\ SubscribesTo[s] = f.event.type
      BY <1>3, ServedFacts
    <2>2. f.event \in BusEvents /\ f.event.by = th /\ f.event.n <= p
      BY <1>3 DEF Framed, Frames
    <2>. QED  BY <2>1, <2>2
  <1>5. life_main # "boot"
    BY DEF LifeInv, Lifetimes
  <1>6. /\ Stacked(th, nb, bus_published') /\ GoesOn(st, nb, p)
        /\ \A x : Reaches(st, x) /\ x # s => Reaches(nb, x)
        /\ bus_published' \in 0..MaxPublishes
        /\ bus_published' = p \/ bus_published' = p + 1
    <2>1. CASE nb = b /\ bus_published' = p
      BY <1>2, <1>3, <2>1
    <2>2. CASE /\ s \in Republishing /\ p < MaxPublishes /\ bus_published' = p + 1
               /\ nb = Called(b, th, "notification", p + 1)
      <3>1. f.event.type # "notification"
        BY <1>4, <2>2, LifeTables DEF Republishing
      <3>2. bus_dispatcher = TRUE
        BY <1>5, Zenon DEF LifeInv, DispatcherSet
      <3>3. "notification" \in BusTypes /\ bus_subscribers["notification"] = ListOf("notification", life_built)
        BY <1>2 DEF BusTypes
      <3>4. nb = Begun(th, b, "notification", life_built, p)
        BY <2>2, <3>2, <3>3 DEF Called, Begun, Pushed
      <3>5. Len(b) <= 1 /\ (Len(b) = 1 => "notification" = "notification" /\ b[1].event.type # "notification")
        <4>1. Len(b) <= 1 /\ \A i \in 1..Len(b) : b[i].event.type # "notification"
          BY <1>3, <3>1
        <4>2. Len(b) = 1 => 1 \in 1..Len(b)
          BY ONLY OneIn
        <4>. QED  BY <4>1, <4>2
      <3>6. /\ Stacked(th, nb, p + 1) /\ GoesOn(b, nb, p)
            /\ \A x : Reaches(b, x) => Reaches(nb, x)
        <4>1. p \in Nat /\ p < MaxPublishes /\ life_built \in 0..7 /\ Stacked(th, b, p)
          BY <1>2, <1>3, <2>2
        <4>. QED  BY ONLY th \in BusThreads, <3>3, <3>4, <3>5, <4>1, PushedFacts
      <3>7. GoesOn(st, nb, p)
        <4>1. ASSUME NEW i \in 1..Len(nb), nb[i].event.n # p + 1
              PROVE  \/ nb[i].event.n = p + 1
                     \/ \E k \in 1..Len(st) : /\ nb[i].event = st[k].event
                                              /\ \A x : Awaits(nb[i], x) => Awaits(st[k], x)
          <5>1. PICK j \in 1..Len(b) : /\ nb[i].event = b[j].event
                                       /\ \A x : Awaits(nb[i], x) => Awaits(b[j], x)
            BY <3>6, <4>1 DEF GoesOn
          <5>2. PICK k \in 1..Len(st) : /\ b[j].event = st[k].event
                                        /\ \A x : Awaits(b[j], x) => Awaits(st[k], x)
            BY <1>3, <4>1, <5>1 DEF GoesOn
          <5>. QED  BY <5>1, <5>2
        <4>. QED  BY <4>1 DEF GoesOn
      <3>8. \A x : Reaches(st, x) /\ x # s => Reaches(nb, x)
        BY <1>3, <3>6
      <3>9. p + 1 \in 0..MaxPublishes
        BY <1>2, <2>2, LifecycleAssumption
      <3>. QED  BY <2>2, <3>6, <3>7, <3>8, <3>9
    <2>. QED  BY <2>1, <2>2 DEF p
  <1>7. nb \in Seq(Frames)
    BY <1>6 DEF Stacked
  <1>8. /\ bus_frames' \in [BusThreads -> Seq(Frames)] /\ bus_frames'[th] = nb
        /\ \A h \in BusThreads : h # th => bus_frames'[h] = bus_frames[h]
    BY <1>2, <1>7
  <1>9. /\ bus_delivered' \in [Subscribers -> Seq(BusEvents)]
        /\ bus_delivered'[s] = Append(bus_delivered[s], f.event)
        /\ \A x \in Subscribers : x # s => bus_delivered'[x] = bus_delivered[x]
    <2>1. bus_delivered[s] \in Seq(BusEvents) /\ f.event \in BusEvents
      BY <1>2, <1>4
    <2>2. Append(bus_delivered[s], f.event) \in Seq(BusEvents)
      BY ONLY <2>1, Appended
    <2>3. bus_delivered' = [bus_delivered EXCEPT ![s] = Append(bus_delivered[s], f.event)]
      OBVIOUS
    <2>4. s \in Subscribers /\ bus_delivered \in [Subscribers -> Seq(BusEvents)]
      BY <1>2, <1>4
    <2>. QED  BY ONLY <2>2, <2>3, <2>4
  <1>10. /\ Len(bus_delivered[s]) \in Nat /\ Len(bus_delivered'[s]) = Len(bus_delivered[s]) + 1
         /\ bus_delivered'[s][Len(bus_delivered[s]) + 1] = f.event
         /\ \A i \in 1..Len(bus_delivered[s]) : bus_delivered'[s][i] = bus_delivered[s][i]
    <2>1. bus_delivered[s] \in Seq(BusEvents) /\ f.event \in BusEvents
      BY <1>2, <1>4
    <2>2. bus_delivered'[s] = Append(bus_delivered[s], f.event)
      BY <1>9
    <2>. QED  BY ONLY <2>1, <2>2, Appended
  <1>11. LifeTypes'
    <2>1. \A h \in BusThreads : Stacked(h, bus_frames'[h], bus_published')
      <3>1. ASSUME NEW h \in BusThreads PROVE Stacked(h, bus_frames[h], bus_published')
        <4>1. Stacked(h, bus_frames[h], p) /\ p \in Nat
          BY <1>2
        <4>2. Stacked(h, bus_frames[h], p + 1)
          BY ONLY <4>1, StackedLater
        <4>. QED  BY <1>6, <4>1, <4>2
      <3>. QED  BY <1>6, <1>8, <3>1
    <2>2. \A n \in Nat : n <= p => n <= bus_published'
      BY <1>2, <1>6
    <2>3. ASSUME NEW i \in 1..Len(bus_queue) PROVE bus_queue[i].event.n <= bus_published'
      <3>1. bus_queue[i] \in Posts
        BY <1>2, ElementOfSeq
      <3>2. bus_queue[i].event.n \in Nat /\ bus_queue[i].event.n <= p
        BY <3>1 DEF Posts, BusEvents, LifeInv, LifeTypes, p
      <3>. QED  BY <2>2, <3>2
    <2>4. ASSUME NEW x \in Subscribers, NEW i \in 1..Len(bus_delivered'[x])
          PROVE  bus_delivered'[x][i].n <= bus_published'
      <3>1. bus_delivered'[x] \in Seq(BusEvents)
        BY <1>9
      <3>2. bus_delivered'[x][i] \in BusEvents
        BY <3>1, ElementOfSeq
      <3>3. bus_delivered'[x][i].n \in Nat
        BY ONLY <3>2 DEF BusEvents
      <3>4. bus_delivered'[x][i].n <= p
        <4>1. CASE x # s
          BY <1>9, <4>1 DEF LifeInv, LifeTypes, p
        <4>2. CASE x = s /\ i = Len(bus_delivered[s]) + 1
          BY <1>4, <1>10, <4>2
        <4>3. CASE x = s /\ i \in 1..Len(bus_delivered[s])
          BY <1>4, <1>10, <4>3 DEF LifeInv, LifeTypes, p
        <4>4. x = s => i \in 1..Len(bus_delivered[s]) \/ i = Len(bus_delivered[s]) + 1
          <5>. HAVE x = s
          <5>1. i \in 1..Len(bus_delivered'[s])
            OBVIOUS
          <5>. QED  BY ONLY <1>10, <5>1
        <4>. QED  BY <4>1, <4>2, <4>3, <4>4
      <3>. QED  BY <2>2, <3>3, <3>4
    <2>. QED  BY <1>1, <1>6, <1>8, <1>9, <2>1, <2>3, <2>4 DEF LifeInv, LifeTypes
  <1>12. Lifetimes'
    <2>2. bus_frames'["timer"] # <<>> => life_timer \in {"armed", "stopping"}
      BY <1>8 DEF LifeInv, Lifetimes, BusThreads
    <2>. QED  BY <1>1, <1>5, <2>2 DEF LifeInv, Lifetimes
  <1>13. DispatcherSet'
    BY <1>1, Zenon DEF LifeInv, DispatcherSet
  <1>14. FirstTick'
    <2>0. \A x \in {"monitor", "power"} : x \in Subscribers
      BY LifeTables
    <2>1. ASSUME NEW x \in {"monitor", "power"}, TickHeard(x) PROVE TickHeard(x)'
      <3>1. bus_delivered[x] \in Seq(BusEvents)
        BY <1>2, <2>0
      <3>2. /\ Len(bus_delivered[x]) \in Nat /\ Len(bus_delivered'[x]) \in Nat
            /\ Len(bus_delivered[x]) <= Len(bus_delivered'[x])
            /\ \A i \in 1..Len(bus_delivered[x]) : bus_delivered'[x][i] = bus_delivered[x][i]
        <4>1. CASE x = s
          <5>1. Len(bus_delivered'[s]) \in Nat /\ Len(bus_delivered[s]) <= Len(bus_delivered'[s])
            BY ONLY <1>10
          <5>. QED  BY <1>10, <4>1, <5>1
        <4>2. CASE x # s
          <5>1. bus_delivered'[x] = bus_delivered[x]
            BY <1>9, <2>0, <4>2
          <5>2. Len(bus_delivered[x]) \in Nat
            BY ONLY <3>1
          <5>. QED  BY ONLY <5>1, <5>2
        <4>. QED  BY <4>1, <4>2
      <3>3. /\ Len(bus_queue) \in Nat /\ Len(bus_queue') \in Nat /\ Len(bus_queue) <= Len(bus_queue')
            /\ \A i \in 1..Len(bus_queue) : bus_queue'[i] = bus_queue[i]
        <4>1. Len(bus_queue) \in Nat
          BY ONLY <1>2
        <4>. QED  BY ONLY <1>1, <4>1
      <3>. QED  BY ONLY <2>1, <3>2, <3>3, HeardStays
    <2>2. ASSUME NEW x \in {"monitor", "power"}, Reaches(bus_frames["main"], x)
          PROVE  TickHeard(x)' \/ Reaches(bus_frames'["main"], x)
      <3>1. CASE th # "main"
        BY <1>8, <2>2, <3>1 DEF BusThreads
      <3>2. CASE th = "main" /\ x # s
        BY <1>6, <1>8, <2>2, <3>2
      <3>3. CASE th = "main" /\ x = s
        <4>1. Len(bus_delivered[s]) + 1 \in 1..Len(bus_delivered'[s])
          BY ONLY <1>10
        <4>2. bus_delivered'[s][Len(bus_delivered[s]) + 1].by = "main"
          BY <1>4, <1>10, <3>3
        <4>. QED  BY <3>3, <4>1, <4>2 DEF TickHeard
      <3>. QED  BY <3>1, <3>2, <3>3
    <2>. QED  BY <1>1, <2>1, <2>2 DEF LifeInv, FirstTick
  <1>15. Ordered'
    <2>1. \A x : GoesOn(x, x, p)
      BY DEF GoesOn
    <2>2. \A h \in BusThreads : GoesOn(bus_frames[h], bus_frames'[h], p)
      BY <1>6, <1>8, <2>1
    <2>3. Continued(bus_frames, bus_frames', bus_published)
      BY <2>2 DEF Continued, p
    <2>4. \A x \in UiSubscribers : bus_delivered'[x] = bus_delivered[x]
      BY <1>9, LifeTables DEF UiSubscribers
    <2>. QED  BY <1>1, <2>3, <2>4, OrderedStep
  <1>16. UiNeverLate' /\ TimerNeverLate'
    <2>1. th # "ui"
      BY DEF BusThreads
    <2>2. CASE th = "timer"
      <3>1. life_built = 7
        BY <2>2 DEF LifeInv, Lifetimes
      <3>2. Exists(s)
        BY <1>4, <3>1, ExistsFacts
      <3>. QED  BY <3>2 DEF LifeInv, UiNeverLate, TimerNeverLate
    <2>3. CASE th # "timer"
      <3>1. \A c \in bus_late' : c \in bus_late \/ c = <<th, s>>
        OBVIOUS
      <3>2. \A c \in bus_late : c[1] # "ui" /\ c[1] # "timer"
        BY DEF LifeInv, UiNeverLate, TimerNeverLate
      <3>3. <<th, s>>[1] = th
        OBVIOUS
      <3>. QED  BY ONLY <2>1, <2>3, <3>1, <3>2, <3>3 DEF UiNeverLate, TimerNeverLate
    <2>. QED  BY <2>2, <2>3
  <1>. QED  BY <1>11, <1>12, <1>13, <1>14, <1>15, <1>16 DEF LifeInv

\* One subscriber of the innermost call of a thread.
LEMMA DeliverStep ==
    ASSUME LifeInv, NEW th \in BusThreads, Deliver(th) PROVE LifeInv'
  <1>. DEFINE f == Head(bus_frames[th])
              s == Head(f.todo)
              b == Served(f) \o Tail(bus_frames[th])
  <1>1. /\ bus_frames[th] # <<>>
        /\ UNCHANGED <<core_vars, thread_vars, bus_subscribers>>
    BY DEF Deliver
  <1>2. bus_dispatcher' = bus_dispatcher
    BY Zenon DEF Deliver
  <1>3. f.dispatcher = TRUE
    <2>1. Stacked(th, bus_frames[th], bus_published)
      BY DEF LifeInv, LifeTypes
    <2>2. Framed(th, f, bus_published)
      BY <1>1, <2>1, BelowFacts
    <2>. QED  BY <2>2 DEF Framed
  <1>4. CASE s \in UiSubscribers
    <2>1. /\ bus_queue' = Append(bus_queue, [to |-> s, event |-> f.event])
          /\ bus_frames' = [bus_frames EXCEPT ![th] = b]
          /\ UNCHANGED <<bus_published, bus_delivered, bus_late>>
      BY <1>3, <1>4 DEF Deliver, PostToUiThread
    <2>. QED  BY <1>1, <1>2, <1>4, <2>1, DeliverUi
  <1>5. CASE s \notin UiSubscribers
    <2>1. /\ bus_delivered' = [bus_delivered EXCEPT ![s] = Append(@, f.event)]
          /\ bus_late' = IF Exists(s) THEN bus_late ELSE bus_late \cup {<<th, s>>}
          /\ bus_queue' = bus_queue
      BY <1>5 DEF Deliver
    <2>2. \E nb : /\ bus_frames' = [bus_frames EXCEPT ![th] = nb]
                  /\ \/ nb = b /\ bus_published' = bus_published
                     \/ /\ s \in Republishing /\ bus_published < MaxPublishes
                        /\ bus_published' = bus_published + 1
                        /\ nb = Called(b, th, "notification", bus_published + 1)
      BY <1>5 DEF Deliver
    <2>. QED  BY <1>1, <1>2, <1>5, <2>1, <2>2, DeliverHere
  <1>. QED  BY <1>4, <1>5

\* What Tail() does.
LEMMA Dropped ==
    ASSUME NEW S, NEW q \in Seq(S), q # <<>>
    PROVE  /\ Len(q) \in Nat /\ 1 \in 1..Len(q) /\ Head(q) = q[1] /\ q[1] \in S
           /\ Tail(q) \in Seq(S)
           /\ \A i \in 1..Len(Tail(q)) : i + 1 \in 1..Len(q) /\ Tail(q)[i] = q[i + 1]
           /\ \A i \in 1..Len(q) : i # 1 => i - 1 \in 1..Len(Tail(q)) /\ Tail(q)[i - 1] = q[i]
  <1>1. Len(q) \in Nat /\ Len(q) # 0
    BY EmptySeq
  <1>2. Len(q) >= 1
    BY <1>1
  <1>3. Tail(q) \in Seq(S) /\ Len(Tail(q)) = Len(q) - 1 /\ \A i \in 1..(Len(q) - 1) : Tail(q)[i] = q[i + 1]
    BY <1>2
  <1>4. 1 \in 1..Len(q) /\ Head(q) = q[1] /\ q[1] \in S
    BY <1>2, ElementOfSeq
  <1>. DEFINE t == Tail(q)
  <1>. HIDE DEF t
  <1>5. Len(t) = Len(q) - 1 /\ \A i \in 1..(Len(q) - 1) : t[i] = q[i + 1]
    BY <1>3 DEF t
  <1>6. \A i \in 1..Len(t) : i + 1 \in 1..Len(q) /\ t[i] = q[i + 1]
    BY <1>1, <1>2, <1>5
  <1>7. \A i \in 1..Len(q) : i # 1 => i - 1 \in 1..Len(t) /\ (i - 1) + 1 = i
    BY <1>1, <1>2, <1>5
  <1>8. \A i \in 1..Len(q) : i # 1 => i - 1 \in 1..Len(t) /\ t[i - 1] = q[i]
    BY <1>6, <1>7
  <1>. QED  BY <1>1, <1>3, <1>4, <1>6, <1>8 DEF t

\* The UI thread takes the oldest closure of its queue.
LEMMA DrainStep ==
    ASSUME LifeInv, DrainOne PROVE LifeInv'
  <1>. DEFINE fn == Head(bus_queue)
              s == fn.to
              e == fn.event
              p == bus_published
  <1>1. /\ life_target' = life_target /\ life_main' = life_main /\ life_built' = life_built
        /\ life_timer' = life_timer /\ life_task' = life_task /\ bus_subscribers' = bus_subscribers
        /\ bus_frames' = bus_frames /\ bus_published' = p /\ bus_queue' = Tail(bus_queue)
    BY DEF DrainOne, core_vars, thread_vars
  <1>2. bus_dispatcher' = bus_dispatcher
    BY Zenon DEF DrainOne
  <1>3. /\ p \in Nat /\ bus_queue \in Seq(Posts) /\ bus_queue # <<>>
        /\ bus_delivered \in [Subscribers -> Seq(BusEvents)]
    BY LifecycleAssumption DEF LifeInv, LifeTypes, Posts, DrainOne
  <1>4. /\ Len(bus_queue) \in Nat /\ 1 \in 1..Len(bus_queue) /\ fn = bus_queue[1] /\ fn \in Posts
        /\ bus_queue' \in Seq(Posts)
        /\ \A i \in 1..Len(bus_queue') : i + 1 \in 1..Len(bus_queue) /\ bus_queue'[i] = bus_queue[i + 1]
        /\ \A i \in 1..Len(bus_queue) : i # 1 =>
              i - 1 \in 1..Len(bus_queue') /\ bus_queue'[i - 1] = bus_queue[i]
    BY <1>1, <1>3, Dropped
  <1>5. s \in UiSubscribers /\ s \in Subscribers /\ e \in BusEvents /\ e.n <= p
    BY <1>4, LifeTables DEF Posts, UiSubscribers, LifeInv, LifeTypes
  <1>6. /\ FindCallback(s) => bus_delivered' = [bus_delivered EXCEPT ![s] = Append(@, e)]
        /\ ~FindCallback(s) => bus_delivered' = bus_delivered
        /\ bus_late' = bus_late
    BY <1>5, ExistsFacts DEF DrainOne
  <1>. HIDE DEF fn, s, e, p
  <1>7. /\ bus_delivered' \in [Subscribers -> Seq(BusEvents)]
        /\ \A x \in Subscribers : x # s => bus_delivered'[x] = bus_delivered[x]
        /\ FindCallback(s) => bus_delivered'[s] = Append(bus_delivered[s], e)
        /\ ~FindCallback(s) => bus_delivered'[s] = bus_delivered[s]
    <2>1. CASE FindCallback(s)
      <3>1. Append(bus_delivered[s], e) \in Seq(BusEvents)
        BY <1>3, <1>5
      <3>2. bus_delivered' = [bus_delivered EXCEPT ![s] = Append(bus_delivered[s], e)]
        BY <1>6, <2>1
      <3>. QED  BY <1>3, <1>5, <2>1, <3>1, <3>2
    <2>2. CASE ~FindCallback(s)
      BY <1>3, <1>5, <1>6, <2>2
    <2>. QED  BY <2>1, <2>2
  <1>8. bus_delivered[s] \in Seq(BusEvents)
    BY <1>3, <1>5
  <1>9. /\ Len(bus_delivered[s]) \in Nat /\ Len(Append(bus_delivered[s], e)) = Len(bus_delivered[s]) + 1
        /\ Append(bus_delivered[s], e)[Len(bus_delivered[s]) + 1] = e
        /\ \A i \in 1..Len(bus_delivered[s]) : Append(bus_delivered[s], e)[i] = bus_delivered[s][i]
    BY ONLY <1>5, <1>8, Appended
  <1>10. LifeTypes'
    <2>1. \A i \in 1..Len(bus_queue') : bus_queue'[i].event.n <= p
      BY <1>4 DEF LifeInv, LifeTypes, p
    <2>2. \A x \in Subscribers : \A i \in 1..Len(bus_delivered[x]) : bus_delivered[x][i].n <= p
      BY DEF LifeInv, LifeTypes, p
    <2>3. ASSUME NEW i \in 1..Len(Append(bus_delivered[s], e))
          PROVE  Append(bus_delivered[s], e)[i].n <= p
      <3>1. i \in 1..Len(bus_delivered[s]) \/ i = Len(bus_delivered[s]) + 1
        BY ONLY <1>9, <2>3
      <3>. QED  BY <1>5, <1>9, <2>2, <3>1
    <2>4. \A x \in Subscribers : \A i \in 1..Len(bus_delivered'[x]) : bus_delivered'[x][i].n <= p
      <3>1. ASSUME NEW x \in Subscribers, x # s
            PROVE  \A i \in 1..Len(bus_delivered'[x]) : bus_delivered'[x][i].n <= p
        BY <1>7, <2>2, <3>1
      <3>2. \A i \in 1..Len(bus_delivered'[s]) : bus_delivered'[s][i].n <= p
        <4>1. CASE FindCallback(s)
          BY <1>7, <2>3, <4>1
        <4>2. CASE ~FindCallback(s)
          BY <1>5, <1>7, <2>2, <4>2
        <4>. QED  BY <4>1, <4>2
      <3>. QED  BY <3>1, <3>2
    <2>5. \A h \in BusThreads : Stacked(h, bus_frames'[h], bus_published')
      BY <1>1 DEF LifeInv, LifeTypes, p
    <2>. QED  BY <1>1, <1>4, <1>7, <2>1, <2>4, <2>5 DEF LifeInv, LifeTypes, Posts, p
  <1>11. Lifetimes'
    BY <1>1 DEF LifeInv, Lifetimes
  <1>12. DispatcherSet'
    BY <1>1, <1>2, Zenon DEF LifeInv, DispatcherSet
  <1>13. FirstTick'
    <2>1. ASSUME NEW x \in {"monitor", "power"}, TickHeard(x), life_main \in {"starting", "running"}
          PROVE  TickHeard(x)'
      <3>0. x \in Subscribers
        BY LifeTables
      <3>1. FindCallback(s)
        BY <1>5, <2>1, ExistsFacts DEF LifeInv, Lifetimes
      <3>2. CASE \E i \in 1..Len(bus_delivered[x]) : bus_delivered[x][i].by = "main"
        <4>1. PICK i \in 1..Len(bus_delivered[x]) : bus_delivered[x][i].by = "main"
          BY <3>2
        <4>2. CASE x # s
          BY <1>7, <3>0, <4>1, <4>2 DEF TickHeard
        <4>3. CASE x = s
          <5>1. i \in 1..Len(Append(bus_delivered[s], e))
            <6>1. i \in 1..Len(bus_delivered[s])
              BY <4>3
            <6>. QED  BY ONLY <1>9, <6>1
          <5>2. Append(bus_delivered[s], e)[i].by = "main"
            BY <1>9, <4>1, <4>3
          <5>. QED  BY <1>7, <3>1, <4>3, <5>1, <5>2 DEF TickHeard
        <4>. QED  BY <4>2, <4>3
      <3>3. CASE \E i \in 1..Len(bus_queue) : bus_queue[i].to = x /\ bus_queue[i].event.by = "main"
        <4>1. PICK i \in 1..Len(bus_queue) : bus_queue[i].to = x /\ bus_queue[i].event.by = "main"
          BY <3>3
        <4>2. CASE i = 1
          <5>1. x = s /\ e.by = "main"
            BY <1>4, <4>1, <4>2 DEF s, e
          <5>2. Len(bus_delivered[s]) + 1 \in 1..Len(Append(bus_delivered[s], e))
            BY ONLY <1>9
          <5>3. Append(bus_delivered[s], e)[Len(bus_delivered[s]) + 1].by = "main"
            BY <1>9, <5>1
          <5>. QED  BY <1>7, <3>1, <5>1, <5>2, <5>3 DEF TickHeard
        <4>3. CASE i # 1
          BY <1>4, <4>1, <4>3 DEF TickHeard
        <4>. QED  BY <4>2, <4>3
      <3>. QED  BY <2>1, <3>2, <3>3 DEF TickHeard
    <2>2. FirstTick /\ life_main' = life_main /\ bus_frames' = bus_frames
      BY <1>1 DEF LifeInv
    <2>3. ASSUME NEW x \in {"monitor", "power"}
          PROVE  /\ life_main' = "starting" => TickHeard(x)' \/ Reaches(bus_frames'["main"], x)
                 /\ life_main' = "running" => TickHeard(x)'
      BY <2>1, <2>2 DEF FirstTick
    <2>. QED  BY <2>3 DEF FirstTick
  <1>14. Ordered'
    <2>1. ASSUME NEW u \in UiSubscribers
          PROVE  OrderedFor(u, bus_delivered'[u], Tail(bus_queue), bus_frames)
      <3>1. u \in Subscribers
        BY LifeTables DEF UiSubscribers
      <3>2. bus_delivered[u] \in Seq(BusEvents) /\ bus_queue \in Seq(Posts) /\ bus_queue # <<>>
            /\ OrderedFor(u, bus_delivered[u], bus_queue, bus_frames)
        BY <1>3, <3>1 DEF LifeInv, Ordered
      <3>3. /\ OrderedFor(u, bus_delivered[u], Tail(bus_queue), bus_frames)
            /\ u = s => OrderedFor(u, Append(bus_delivered[u], e), Tail(bus_queue), bus_frames)
        BY ONLY <3>2, OrderedDrains DEF s, e, fn
      <3>. QED  BY <1>7, <3>1, <3>3
    <2>. QED  BY <1>1, <2>1 DEF Ordered
  <1>15. UiNeverLate' /\ TimerNeverLate'
    BY <1>6 DEF LifeInv, UiNeverLate, TimerNeverLate
  <1>. QED  BY <1>10, <1>11, <1>12, <1>13, <1>14, <1>15 DEF LifeInv

-----------------------------------------------------------------------------
(* Construction and destruction *)

\* The next member's subscription is the last of its list.
LEMMA ListGrows ==
    ASSUME NEW t \in BusTypes, NEW n \in 0..6
    PROVE  LET m == AppMembers[n + 1]
           IN  ListOf(t, n + 1) = IF m \in Subscribers /\ SubscribesTo[m] = t
                                  THEN Append(ListOf(t, n), m) ELSE ListOf(t, n)
  <1>1. n = 0 \/ n = 1 \/ n = 2 \/ n = 3 \/ n = 4 \/ n = 5 \/ n = 6
    OBVIOUS
  <1>a. /\ \A x : Append(<<>>, x) = <<x>>
        /\ \A x, y : Append(<<x>>, y) = <<x, y>>
    <2>1. ASSUME NEW x PROVE Append(<<>>, x) = <<x>>
      OBVIOUS
    <2>2. ASSUME NEW x, NEW y PROVE Append(<<x>>, y) = <<x, y>>
      <3>. DEFINE S == {x, y}
                  c == Append(<<x>>, y)
                  d == <<x, y>>
      <3>1. <<x>> \in Seq(S) /\ y \in S /\ Len(<<x>>) = 1 /\ <<x>>[1] = x
        OBVIOUS
      <3>2. d \in Seq(S) /\ Len(d) = 2 /\ d[1] = x /\ d[2] = y
        OBVIOUS
      <3>3. c \in Seq(S) /\ Len(c) = 2 /\ c[1] = x /\ c[2] = y
        BY ONLY <3>1, Appended
      <3>. HIDE DEF c, d, S
      <3>4. \A i \in 1..2 : c[i] = d[i]
        BY <3>2, <3>3
      <3>5. c = d
        BY <3>2, <3>3, <3>4, SeqEqual
      <3>. QED  BY <3>5 DEF c, d
    <2>. QED  BY <2>1, <2>2
  <1>2. CASE n = 0
    <2>1. n + 1 = 1 /\ AppMembers[n + 1] = "harmony"
      BY <1>2, LifeTables
    <2>2. CASE t = "tick"
      BY <1>2, <1>a, <2>1, <2>2, LifeTables DEF ListOf
    <2>3. CASE t = "state"
      BY <1>2, <1>a, <2>1, <2>3, LifeTables DEF ListOf
    <2>4. CASE t = "notification"
      BY <1>2, <1>a, <2>1, <2>4, LifeTables DEF ListOf
    <2>. QED  BY <2>2, <2>3, <2>4 DEF BusTypes
  <1>3. CASE n = 1
    <2>1. n + 1 = 2 /\ AppMembers[n + 1] = "banner"
      BY <1>3, LifeTables
    <2>2. CASE t = "tick"
      BY <1>3, <1>a, <2>1, <2>2, LifeTables DEF ListOf
    <2>3. CASE t = "state"
      BY <1>3, <1>a, <2>1, <2>3, LifeTables DEF ListOf
    <2>4. CASE t = "notification"
      BY <1>3, <1>a, <2>1, <2>4, LifeTables DEF ListOf
    <2>. QED  BY <2>2, <2>3, <2>4 DEF BusTypes
  <1>4. CASE n = 2
    <2>1. n + 1 = 3 /\ AppMembers[n + 1] = "sound"
      BY <1>4, LifeTables
    <2>2. CASE t = "tick"
      BY <1>4, <1>a, <2>1, <2>2, LifeTables DEF ListOf
    <2>3. CASE t = "state"
      BY <1>4, <1>a, <2>1, <2>3, LifeTables DEF ListOf
    <2>4. CASE t = "notification"
      BY <1>4, <1>a, <2>1, <2>4, LifeTables DEF ListOf
    <2>. QED  BY <2>2, <2>3, <2>4 DEF BusTypes
  <1>5. CASE n = 3
    <2>1. n + 1 = 4 /\ AppMembers[n + 1] = "monitor"
      BY <1>5, LifeTables
    <2>2. CASE t = "tick"
      BY <1>5, <1>a, <2>1, <2>2, LifeTables DEF ListOf
    <2>3. CASE t = "state"
      BY <1>5, <1>a, <2>1, <2>3, LifeTables DEF ListOf
    <2>4. CASE t = "notification"
      BY <1>5, <1>a, <2>1, <2>4, LifeTables DEF ListOf
    <2>. QED  BY <2>2, <2>3, <2>4 DEF BusTypes
  <1>6. CASE n = 4
    <2>1. n + 1 = 5 /\ AppMembers[n + 1] = "bridge"
      BY <1>6, LifeTables
    <2>2. CASE t = "tick"
      BY <1>6, <1>a, <2>1, <2>2, LifeTables DEF ListOf
    <2>3. CASE t = "state"
      BY <1>6, <1>a, <2>1, <2>3, LifeTables DEF ListOf
    <2>4. CASE t = "notification"
      BY <1>6, <1>a, <2>1, <2>4, LifeTables DEF ListOf
    <2>. QED  BY <2>2, <2>3, <2>4 DEF BusTypes
  <1>7. CASE n = 5
    <2>1. n + 1 = 6 /\ AppMembers[n + 1] = "power"
      BY <1>7, LifeTables
    <2>2. CASE t = "tick"
      BY <1>7, <1>a, <2>1, <2>2, LifeTables DEF ListOf
    <2>3. CASE t = "state"
      BY <1>7, <1>a, <2>1, <2>3, LifeTables DEF ListOf
    <2>4. CASE t = "notification"
      BY <1>7, <1>a, <2>1, <2>4, LifeTables DEF ListOf
    <2>. QED  BY <2>2, <2>3, <2>4 DEF BusTypes
  <1>8. CASE n = 6
    <2>1. n + 1 = 7 /\ AppMembers[n + 1] = "clock"
      BY <1>8, LifeTables
    <2>2. CASE t = "tick"
      BY <1>8, <1>a, <2>1, <2>2, LifeTables DEF ListOf
    <2>3. CASE t = "state"
      BY <1>8, <1>a, <2>1, <2>3, LifeTables DEF ListOf
    <2>4. CASE t = "notification"
      BY <1>8, <1>a, <2>1, <2>4, LifeTables DEF ListOf
    <2>. QED  BY <2>2, <2>3, <2>4 DEF BusTypes
  <1>. QED  BY <1>1, <1>2, <1>3, <1>4, <1>5, <1>6, <1>7, <1>8

\* Erasing the last entry undoes its subscription.
LEMMA Erased ==
    ASSUME NEW S, NEW d \in Seq(S), NEW e \in S
    PROVE  RemoveAt(Append(d, e), Len(d) + 1) = d
  <1>. DEFINE a == Append(d, e)
              n == Len(d)
  <1>1. n \in Nat /\ a \in Seq(S) /\ Len(a) = n + 1 /\ \A i \in 1..n : a[i] = d[i]
    BY ONLY d \in Seq(S), e \in S, Appended
  <1>. HIDE DEF a
  <1>2. /\ SubSeq(a, 1, n) \in Seq(S) /\ Len(SubSeq(a, 1, n)) = n
        /\ \A i \in 1..n : SubSeq(a, 1, n)[i] = a[i]
    BY <1>1
  <1>3. SubSeq(a, 1, n) = d
    BY <1>1, <1>2
  <1>4. SubSeq(a, (n + 1) + 1, Len(a)) = <<>>
    BY <1>1
  <1>5. (n + 1) - 1 = n
    BY <1>1
  <1>6. RemoveAt(a, n + 1) = SubSeq(a, 1, n) \o SubSeq(a, (n + 1) + 1, Len(a))
    BY <1>5 DEF RemoveAt
  <1>7. d \o <<>> = d
    BY ConcatEmptySeq
  <1>. QED  BY <1>3, <1>4, <1>6, <1>7 DEF a

\* A step that neither publishes nor calls anyone.
LEMMA QuietStep ==
    ASSUME LifeInv,
           UNCHANGED <<life_target, bus_frames, bus_queue, bus_published, bus_delivered, bus_late>>,
           life_main' \in {"boot", "building", "built", "starting", "running", "destroying", "down"},
           life_built' \in 0..7,
           life_timer' \in {"none", "armed", "stopping", "stopped"},
           life_task' \in {"none", "running", "stopping", "stopped"},
           bus_subscribers' = [t \in BusTypes |-> ListOf(t, life_built')],
           Lifetimes', DispatcherSet',
           life_main' = "starting" => life_main = "starting",
           life_main' = "running" =>
              life_main = "running" \/ (life_main = "starting" /\ bus_frames["main"] = <<>>)
    PROVE  LifeInv'
  <1>1. LifeTypes'
    BY DEF LifeInv, LifeTypes
  <1>2. \A x : TickHeard(x)' <=> TickHeard(x)
    BY DEF TickHeard
  <1>3. ~ \E x : Reaches(<<>>, x)
    BY DEF Reaches
  <1>4. FirstTick'
    <2>1. ASSUME NEW x \in {"monitor", "power"}
          PROVE  /\ life_main' = "starting" => TickHeard(x)' \/ Reaches(bus_frames'["main"], x)
                 /\ life_main' = "running" => TickHeard(x)'
      BY <1>2, <1>3 DEF LifeInv, FirstTick
    <2>. QED  BY <2>1 DEF FirstTick
  <1>5. Ordered'
    BY DEF LifeInv, Ordered
  <1>6. UiNeverLate' /\ TimerNeverLate'
    BY DEF LifeInv, UiNeverLate, TimerNeverLate
  <1>. QED  BY <1>1, <1>4, <1>5, <1>6 DEF LifeInv

\* The entry points install the dispatcher.
LEMMA InitStep ==
    ASSUME LifeInv, InitUiDispatch PROVE LifeInv'
  <1>1. /\ life_main = "boot" /\ life_main' = "building"
        /\ life_target' = life_target /\ life_built' = life_built /\ life_timer' = life_timer
        /\ life_task' = life_task /\ bus_subscribers' = bus_subscribers
        /\ UNCHANGED <<bus_frames, bus_queue, bus_published, bus_delivered, bus_late>>
    BY DEF InitUiDispatch, thread_vars
  <1>2. DispatcherSet'
    BY <1>1, Zenon DEF InitUiDispatch, DispatcherSet
  <1>3. Lifetimes'
    BY <1>1 DEF LifeInv, Lifetimes
  <1>4. /\ life_built' \in 0..7 /\ life_timer' \in {"none", "armed", "stopping", "stopped"}
        /\ life_task' \in {"none", "running", "stopping", "stopped"}
        /\ bus_subscribers' = [t \in BusTypes |-> ListOf(t, life_built')]
    BY <1>1 DEF LifeInv, LifeTypes
  <1>. QED  BY <1>1, <1>2, <1>3, <1>4, QuietStep

\* AppCore's constructor builds its next member.
LEMMA BuildStep ==
    ASSUME LifeInv, BuildMember PROVE LifeInv'
  <1>. DEFINE n == life_built
              m == AppMembers[n + 1]
  <1>1. /\ life_main = "building" /\ n < 7 /\ n \in 0..6 /\ life_built' = n + 1 /\ life_built' \in 0..7
        /\ life_target' = life_target /\ life_task' = life_task
        /\ UNCHANGED <<bus_frames, bus_queue, bus_published, bus_delivered, bus_late>>
    BY LifeTables DEF BuildMember, LifeInv, LifeTypes
  <1>2. bus_dispatcher' = bus_dispatcher
    BY Zenon DEF BuildMember
  <1>3. m = "clock" <=> n = 6
    <2>1. n = 0 \/ n = 1 \/ n = 2 \/ n = 3 \/ n = 4 \/ n = 5 \/ n = 6
      BY <1>1
    <2>. QED  BY <2>1, LifeTables
  <1>4. /\ life_timer' = IF n = 6 THEN "armed" ELSE life_timer
        /\ life_main' = IF n = 6 THEN "built" ELSE "building"
    BY <1>3 DEF BuildMember
  <1>5. bus_subscribers' = IF m \in Subscribers
                           THEN [bus_subscribers EXCEPT ![SubscribesTo[m]] = Append(@, m)]
                           ELSE bus_subscribers
    BY DEF BuildMember, SubscribeImpl
  <1>6. bus_subscribers = [t \in BusTypes |-> ListOf(t, n)]
    BY DEF LifeInv, LifeTypes
  <1>7. bus_subscribers' = [t \in BusTypes |-> ListOf(t, n + 1)]
    <2>1. \A t \in BusTypes : ListOf(t, n + 1) = IF m \in Subscribers /\ SubscribesTo[m] = t
                                                 THEN Append(ListOf(t, n), m) ELSE ListOf(t, n)
      BY <1>1, ListGrows
    <2>. HIDE DEF m, n
    <2>2. CASE m \in Subscribers
      BY <1>5, <1>6, <2>1, <2>2
    <2>3. CASE m \notin Subscribers
      BY <1>5, <1>6, <2>1, <2>3
    <2>. QED  BY <2>2, <2>3
  <1>8. life_timer \notin {"armed", "stopping"} /\ bus_frames["timer"] = <<>>
    BY <1>1 DEF LifeInv, Lifetimes
  <1>9. Lifetimes'
    <2>1. n = 6 => life_built' = 7
      BY <1>1
    <2>2. n # 6 => life_built' < 7
      BY <1>1
    <2>. QED  BY <1>1, <1>4, <1>8, <2>1, <2>2 DEF Lifetimes
  <1>10. DispatcherSet'
    BY <1>1, <1>2, Zenon DEF LifeInv, DispatcherSet
  <1>11. /\ life_main' \in {"boot", "building", "built", "starting", "running", "destroying", "down"}
         /\ life_timer' \in {"none", "armed", "stopping", "stopped"}
         /\ life_task' \in {"none", "running", "stopping", "stopped"}
         /\ life_main' # "starting" /\ life_main' # "running"
    BY <1>1, <1>4 DEF LifeInv, LifeTypes
  <1>. QED  BY <1>1, <1>7, <1>9, <1>10, <1>11, QuietStep

\* The rest of Start(), the end of the scope, and the threads that stop: the
\* members stay as they are.
LEMMA ThreadsStep ==
    ASSUME LifeInv,
           \/ StartConnections \/ TearDown \/ TimerDestructorAsks \/ TaskDestructorAsks
           \/ TimerStops \/ TaskFinishes
    PROVE  LifeInv'
  <1>1. /\ life_target' = life_target /\ life_built' = life_built /\ bus_subscribers' = bus_subscribers
        /\ UNCHANGED <<bus_frames, bus_queue, bus_published, bus_delivered, bus_late>>
    BY DEF StartConnections, TearDown, TimerDestructorAsks, TaskDestructorAsks, TimerStops,
           TaskFinishes, core_vars, thread_vars, bus_vars
  <1>2. bus_dispatcher' = bus_dispatcher
    BY Zenon DEF StartConnections, TearDown, TimerDestructorAsks, TaskDestructorAsks, TimerStops,
           TaskFinishes, bus_vars
  <1>3. /\ life_built' \in 0..7 /\ bus_subscribers' = [t \in BusTypes |-> ListOf(t, life_built')]
    BY <1>1 DEF LifeInv, LifeTypes
  <1>4. /\ life_main' \in {"boot", "building", "built", "starting", "running", "destroying", "down"}
        /\ life_timer' \in {"none", "armed", "stopping", "stopped"}
        /\ life_task' \in {"none", "running", "stopping", "stopped"}
        /\ life_main' = "starting" => life_main = "starting"
        /\ life_main' = "running" =>
              life_main = "running" \/ (life_main = "starting" /\ bus_frames["main"] = <<>>)
        /\ life_main' = "boot" => life_main = "boot" /\ life_task' = life_task
        /\ life_main' = "building" => life_main = "building"
        /\ life_main' \in {"built", "starting", "running"} => life_main \in {"built", "starting", "running"}
        /\ life_timer' \in {"armed", "stopping"} => life_timer \in {"armed", "stopping"}
        /\ life_timer' \notin {"armed", "stopping"} =>
              life_timer \notin {"armed", "stopping"} \/ bus_frames["timer"] = <<>>
    BY DEF StartConnections, TearDown, TimerDestructorAsks, TaskDestructorAsks, TimerStops,
           TaskFinishes, core_vars, thread_vars, LifeInv, LifeTypes, Lifetimes
  <1>5. Lifetimes'
    BY <1>1, <1>4 DEF LifeInv, Lifetimes
  <1>6. life_main' # "boot" => life_main # "boot" \/ bus_dispatcher = TRUE
    BY DEF StartConnections, TearDown, TimerDestructorAsks, TaskDestructorAsks, TimerStops,
           TaskFinishes, core_vars
  <1>7. DispatcherSet'
    BY <1>2, <1>6, Zenon DEF LifeInv, DispatcherSet
  <1>. QED  BY <1>1, <1>3, <1>4, <1>5, <1>7, QuietStep

\* A member is destroyed: its subscription is the last of its list.
LEMMA DestroyStep ==
    ASSUME LifeInv, DestroySubscriber \/ TimerDestructorWaits \/ TaskDestructorWaits
    PROVE  LifeInv'
  <1>. DEFINE n == life_built
              k == n - 1
              m == AppMembers[n]
  <1>1. /\ life_main = "destroying" /\ n \in 0..7 /\ n > 0 /\ life_built' = k
        /\ life_main' \in {"destroying", "down"}
        /\ life_target' = life_target /\ life_timer' = life_timer /\ life_task' = life_task
        /\ UNCHANGED <<bus_frames, bus_queue, bus_published, bus_delivered, bus_late>>
    BY DEF DestroySubscriber, TimerDestructorWaits, TaskDestructorWaits, thread_vars, bus_vars,
           LifeInv, LifeTypes
  <1>2. bus_dispatcher' = bus_dispatcher
    BY Zenon DEF DestroySubscriber, TimerDestructorWaits, TaskDestructorWaits, bus_vars
  <1>3. k \in 0..6 /\ k + 1 = n /\ k \in 0..7 /\ k < 7
    BY <1>1
  <1>4. bus_subscribers = [t \in BusTypes |-> ListOf(t, n)]
    BY DEF LifeInv, LifeTypes
  <1>5. \A t \in BusTypes : ListOf(t, n) = IF m \in Subscribers /\ SubscribesTo[m] = t
                                           THEN Append(ListOf(t, k), m) ELSE ListOf(t, k)
    BY <1>3, ListGrows
  <1>6. life_timer \notin {"armed", "stopping"}
    <2>1. CASE DestroySubscriber
      <3>1. m \in Subscribers
        BY <2>1 DEF DestroySubscriber, LastMember
      <3>2. n # 7
        BY <3>1, LifeTables
      <3>. QED  BY <3>2 DEF LifeInv, Lifetimes
    <2>2. CASE TimerDestructorWaits
      BY <2>2 DEF TimerDestructorWaits
    <2>3. CASE TaskDestructorWaits
      <3>1. m = "harmony"
        BY <2>3 DEF TaskDestructorWaits, LastMember
      <3>2. n # 7
        BY <3>1, LifeTables
      <3>. QED  BY <3>2 DEF LifeInv, Lifetimes
    <2>. QED  BY <2>1, <2>2, <2>3
  <1>7. bus_subscribers' = [t \in BusTypes |-> ListOf(t, k)]
    <2>1. CASE DestroySubscriber
      <3>. DEFINE u == SubscribesTo[m]
                  l == ListOf(u, k)
      <3>1. m \in Subscribers /\ u \in BusTypes
        BY <2>1, LifeTables DEF DestroySubscriber, LastMember, BusTypes
      <3>2. PICK i \in 1..Len(bus_subscribers[u]) :
               /\ bus_subscribers[u][i] = m
               /\ bus_subscribers' = [bus_subscribers EXCEPT ![u] = RemoveAt(@, i)]
        BY <2>1 DEF DestroySubscriber, Unsubscribe, LastMember
      <3>3. bus_subscribers[u] = Append(l, m) /\ bus_subscribers[u] = ListOf(u, n)
        BY <1>4, <1>5, <3>1
      <3>4. /\ l \in Seq(Subscribers)
            /\ \A a, b \in 1..Len(bus_subscribers[u]) :
                  bus_subscribers[u][a] = bus_subscribers[u][b] => a = b
        <4>1. l \in Seq(Subscribers)
          BY <1>3, <3>1, ListFacts
        <4>2. \A a, b \in 1..Len(ListOf(u, n)) : ListOf(u, n)[a] = ListOf(u, n)[b] => a = b
          BY <1>1, <3>1, ListFacts
        <4>. QED  BY <3>3, <4>1, <4>2
      <3>. HIDE DEF u, l, m, n, k
      <3>5. i = Len(l) + 1
        <4>1. Len(l) \in Nat /\ Len(Append(l, m)) = Len(l) + 1 /\ Append(l, m)[Len(l) + 1] = m
          BY ONLY <3>1, <3>4, Appended
        <4>2. Len(l) + 1 \in 1..Len(Append(l, m))
          BY ONLY <4>1
        <4>. QED  BY <3>2, <3>3, <3>4, <4>1, <4>2
      <3>6. RemoveAt(bus_subscribers[u], i) = l
        <4>1. RemoveAt(Append(l, m), Len(l) + 1) = l
          BY ONLY <3>1, <3>4, Erased
        <4>. QED  BY <3>3, <3>5, <4>1
      <3>7. bus_subscribers' = [bus_subscribers EXCEPT ![u] = l]
        BY <3>2, <3>6
      <3>8. \A t \in BusTypes : t # u => ListOf(t, k) = ListOf(t, n)
        BY <1>5 DEF u
      <3>. QED  BY <1>4, <3>1, <3>7, <3>8 DEF l
    <2>2. CASE TimerDestructorWaits \/ TaskDestructorWaits
      <3>1. m \in {"clock", "harmony"} /\ bus_subscribers' = bus_subscribers
        BY <2>2 DEF TimerDestructorWaits, TaskDestructorWaits, LastMember, bus_vars
      <3>2. m \notin Subscribers
        BY <3>1, LifeTables
      <3>. HIDE DEF m, n, k
      <3>3. \A t \in BusTypes : ListOf(t, k) = ListOf(t, n)
        BY <1>5, <3>2
      <3>. QED  BY <1>4, <3>1, <3>3
    <2>. QED  BY <2>1, <2>2
  <1>8. Lifetimes'
    BY <1>1, <1>3, <1>6 DEF LifeInv, Lifetimes
  <1>9. DispatcherSet'
    BY <1>1, <1>2, Zenon DEF LifeInv, DispatcherSet
  <1>10. /\ life_timer \in {"none", "armed", "stopping", "stopped"}
         /\ life_task \in {"none", "running", "stopping", "stopped"}
    BY DEF LifeInv, LifeTypes
  <1>. QED  BY <1>1, <1>3, <1>7, <1>8, <1>9, <1>10, QuietStep

-----------------------------------------------------------------------------
\* Nothing is built and nothing published.
LEMMA LifeInitInv == LifeInit => LifeInv
  <1>. HAVE LifeInit
  <1>1. \A t \in BusTypes : ListOf(t, 0) = <<>>
    BY DEF ListOf
  <1>2. \A th, p : Stacked(th, <<>>, p)
    BY DEF Stacked
  <1>3. LifeTypes
    <2>1. bus_subscribers = [t \in BusTypes |-> ListOf(t, life_built)]
      BY <1>1 DEF LifeInit
    <2>2. \A th \in BusThreads : Stacked(th, bus_frames[th], bus_published)
      BY <1>2 DEF LifeInit
    <2>3. bus_published \in 0..MaxPublishes
      BY LifecycleAssumption DEF LifeInit
    <2>4. bus_frames \in [BusThreads -> Seq(Frames)] /\ bus_delivered \in [Subscribers -> Seq(BusEvents)]
          /\ bus_queue \in Seq([to : UiSubscribers, event : BusEvents])
      BY DEF LifeInit
    <2>5. /\ \A i \in 1..Len(bus_queue) : bus_queue[i].event.n <= bus_published
          /\ \A s \in Subscribers : \A i \in 1..Len(bus_delivered[s]) :
                bus_delivered[s][i].n <= bus_published
      BY DEF LifeInit
    <2>. QED  BY <2>1, <2>2, <2>3, <2>4, <2>5 DEF LifeInit, LifeTypes
  <1>4. Lifetimes
    BY DEF LifeInit, Lifetimes, BusThreads
  <1>5. DispatcherSet
    BY Zenon DEF LifeInit, DispatcherSet
  <1>6. FirstTick
    BY DEF LifeInit, FirstTick
  <1>7. Ordered
    <2>1. ASSUME NEW s \in UiSubscribers
          PROVE  OrderedFor(s, bus_delivered[s], bus_queue, bus_frames)
      <3>1. s \in Subscribers
        BY LifeTables DEF UiSubscribers
      <3>2. bus_delivered[s] = <<>> /\ bus_queue = <<>> /\ \A th \in BusThreads : bus_frames[th] = <<>>
        BY <3>1 DEF LifeInit
      <3>3. \A i \in 1..Len(<<>>) : FALSE
        OBVIOUS
      <3>. QED  BY <3>2, <3>3 DEF OrderedFor
    <2>. QED  BY <2>1 DEF Ordered
  <1>8. UiNeverLate /\ TimerNeverLate
    BY DEF LifeInit, UiNeverLate, TimerNeverLate
  <1>. QED  BY <1>3, <1>4, <1>5, <1>6, <1>7, <1>8 DEF LifeInv

\* Every step keeps the invariant.
LEMMA LifeInvStep == LifeInv /\ [LifeNext]_life_vars => LifeInv'
  <1>. SUFFICES ASSUME LifeInv, [LifeNext]_life_vars PROVE LifeInv'
    OBVIOUS
  <1>1. CASE InitEventBusAndShowSplash \/ StartUiTask
    BY <1>1, InitStep DEF InitEventBusAndShowSplash, StartUiTask
  <1>2. CASE BuildMember
    BY <1>2, BuildStep
  <1>3. CASE StartClock \/ TimerFires \/ TaskPublishes
    BY <1>3, PublishSteps
  <1>4. CASE DrainOne
    BY <1>4, DrainStep
  <1>5. CASE \E th \in BusThreads : Deliver(th)
    BY <1>5, DeliverStep
  <1>6. CASE StartConnections \/ TearDown \/ TimerDestructorAsks \/ TaskDestructorAsks
             \/ TimerStops \/ TaskFinishes
    BY <1>6, ThreadsStep
  <1>7. CASE DestroySubscriber \/ TimerDestructorWaits \/ TaskDestructorWaits
    BY <1>7, DestroyStep
  <1>8. CASE UNCHANGED life_vars
    <2>1. /\ UNCHANGED <<life_target, bus_frames, bus_queue, bus_published, bus_delivered, bus_late>>
          /\ life_main' = life_main /\ life_built' = life_built /\ life_timer' = life_timer
          /\ life_task' = life_task /\ bus_subscribers' = bus_subscribers
      BY <1>8 DEF life_vars, core_vars, thread_vars, bus_vars
    <2>2. bus_dispatcher' = bus_dispatcher
      BY <1>8, Zenon DEF life_vars, bus_vars
    <2>3. DispatcherSet'
      BY <2>1, <2>2, Zenon DEF LifeInv, DispatcherSet
    <2>4. Lifetimes'
      BY <2>1 DEF LifeInv, Lifetimes
    <2>5. /\ life_main' \in {"boot", "building", "built", "starting", "running", "destroying", "down"}
          /\ life_built' \in 0..7
          /\ life_timer' \in {"none", "armed", "stopping", "stopped"}
          /\ life_task' \in {"none", "running", "stopping", "stopped"}
          /\ bus_subscribers' = [t \in BusTypes |-> ListOf(t, life_built')]
      BY <2>1 DEF LifeInv, LifeTypes
    <2>. QED  BY <2>1, <2>3, <2>4, <2>5, QuietStep
  <1>. QED  BY <1>1, <1>2, <1>3, <1>4, <1>5, <1>6, <1>7, <1>8 DEF LifeNext, DestructorStep

\* What is kept is stronger than what is promised.
LEMMA LifeInvSafe == LifeInv => LifeSafe
  <1>. HAVE LifeInv
  <1>1. life_built \in 0..7 /\ bus_subscribers = [t \in BusTypes |-> ListOf(t, life_built)]
    BY DEF LifeInv, LifeTypes
  <1>2. ASSUME NEW t \in BusTypes
        PROVE  /\ \A s \in Subscribers :
                     Contains(bus_subscribers[t], s) <=> Exists(s) /\ SubscribesTo[s] = t
               /\ \A i, j \in 1..Len(bus_subscribers[t]) : i < j =>
                     \E a, b \in 1..Len(AppMembers) :
                         /\ a < b /\ AppMembers[a] = bus_subscribers[t][i]
                         /\ AppMembers[b] = bus_subscribers[t][j]
    <2>0. bus_subscribers[t] = ListOf(t, life_built)
      BY <1>1
    <2>1. ASSUME NEW s \in Subscribers
          PROVE  Contains(bus_subscribers[t], s) <=> Exists(s) /\ SubscribesTo[s] = t
      BY <1>1, <2>0, ListMembers DEF Exists
    <2>2. ASSUME NEW i \in 1..Len(bus_subscribers[t]), NEW j \in 1..Len(bus_subscribers[t]), i < j
          PROVE  \E a, b \in 1..Len(AppMembers) :
                    /\ a < b /\ AppMembers[a] = bus_subscribers[t][i]
                    /\ AppMembers[b] = bus_subscribers[t][j]
      <3>. DEFINE l == ListOf(t, life_built)
      <3>1. i \in 1..Len(l) /\ j \in 1..Len(l) /\ i < j
        BY <2>0, <2>2
      <3>2. \E a, b \in 1..7 : /\ a < b /\ AppMembers[a] = l[i]
                               /\ AppMembers[b] = l[j]
        BY ONLY <1>1, t \in BusTypes, <3>1, ListOrder
      <3>. HIDE DEF l
      <3>3. Len(AppMembers) = 7
        BY LifeTables
      <3>4. bus_subscribers[t] = l
        BY <2>0 DEF l
      <3>. QED  BY <3>2, <3>3, <3>4, Zenon
    <2>. QED  BY <2>1, <2>2
  <1>3. LifeTypeOK
    <2>1. bus_dispatcher \in BOOLEAN
      BY Zenon DEF LifeInv, DispatcherSet
    <2>2. \A s \in Subscribers : bus_delivered[s] \in Seq(BusEvents)
      BY DEF LifeInv, LifeTypes
    <2>3. life_built \in 0..Len(AppMembers)
      BY <1>1, LifeTables
    <2>4. /\ life_target \in {"firmware", "simulator"}
          /\ life_main \in {"boot", "building", "built", "starting", "running", "destroying", "down"}
          /\ life_timer \in {"none", "armed", "stopping", "stopped"}
          /\ life_task \in {"none", "running", "stopping", "stopped"}
          /\ bus_published \in 0..MaxPublishes
      BY DEF LifeInv, LifeTypes
    <2>. QED  BY <1>2, <2>1, <2>2, <2>3, <2>4, Zenon DEF LifeTypeOK
  <1>4. FirstTickReachesAll
    <2>1. \A s \in {x \in Subscribers : SubscribesTo[x] = "tick"} : s \in {"monitor", "power"}
      BY LifeTables
    <2>. QED  BY <2>1 DEF LifeInv, FirstTick, TickHeard, FirstTickReachesAll
  <1>5. UiInOrder
    BY DEF LifeInv, Ordered, OrderedFor, UiInOrder
  <1>. QED  BY <1>3, <1>4, <1>5 DEF LifeInv, LifeSafe

\* event_bus.h, ui_dispatch.cpp, app_core.h: for any number of events published
\* and any order of the threads, no subscriber of the UI queue or of the timer
\* is called after it is gone, none of the clock's misses the first tick, none
\* sees one thread's events out of order, and the lists follow the members.
THEOREM LifeSafeHolds == LifeSpec => []LifeSafe
  <1>. QED  BY LifeInitInv, LifeInvStep, LifeInvSafe, PTL DEF LifeSpec
=============================================================================
