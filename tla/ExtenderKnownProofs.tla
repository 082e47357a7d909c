------------------------ MODULE ExtenderKnownProofs -------------------------
(***************************************************************************)
(* No change of a pod is lost between the API server and knownPods:        *)
(* Notified is inductive together with Ends.                               *)
(***************************************************************************)
EXTENDS ExtenderSafetyProofs

-----------------------------------------------------------------------------
(* What the watch tells.                                                    *)

LEMMA NewestStored ==
  ASSUME TypeOK, NewestLast, DeletedBetween, NEW k \in Key, NEW c \in Changes,
         api' = [api EXCEPT ![k] = After(c)],
         watch' = [watch EXCEPT ![k] = Append(@, c)], UNCHANGED <<lister, notes>>,
         c.kind = "set" => api[k].uid \in {None, c.obj.uid}
  PROVE  NewestLast' /\ DeletedBetween'
  <1>1. /\ api'[k] = After(c) /\ watch'[k] = Append(watch[k], c)
        /\ \A j \in Key : j # k => api'[j] = api[j] /\ watch'[j] = watch[j]
        /\ watch[k] \in Seq(Changes) /\ watch' \in [Key -> Seq(Changes)]
    BY DEF TypeOK
  <1>2. PICK n : n = Len(watch[k])
    OBVIOUS
  <1>3. /\ n \in Nat /\ DOMAIN watch[k] = 1 .. n /\ DOMAIN watch'[k] = 1 .. n + 1
        /\ \A i \in DOMAIN watch[k] : watch'[k][i] = watch[k][i]
        /\ watch'[k][n + 1] = c
    BY <1>1, <1>2, Appended
  <1>4. watch'[k] # << >> /\ Len(watch'[k]) = n + 1
    BY <1>1, <1>3, LenProperties
  <1>5. watch[k] = << >> <=> n = 0
    BY <1>1, <1>2, EmptySeq
  <1>6. NewestLast'
    BY <1>1, <1>3, <1>4 DEF NewestLast, After
  <1>7. Before(k, n + 1)' = api[k]
    <2>1. CASE n = 0
      BY <1>5, <2>1 DEF Before, NewestLast, After
    <2>2. CASE n # 0
      BY <1>3, <1>5, <1>2, <2>2 DEF Before, NewestLast, After
    <2> QED
      BY <2>1, <2>2
  <1>8. \A j \in Key : \A i \in DOMAIN watch[j] : Before(j, i)' = Before(j, i)
    <2>1. \A j \in Key : j # k => \A i : Before(j, i)' = Before(j, i)
      BY <1>1 DEF Before, After
    <2>2. \A i \in DOMAIN watch[k] : i # 1 => i - 1 \in DOMAIN watch[k]
      BY <1>3
    <2>3. \A i \in DOMAIN watch[k] : Before(k, i)' = Before(k, i)
      BY <1>3, <2>2 DEF Before, After
    <2> QED
      BY <2>1, <2>3
  <1>9. \A j \in Key : \A i \in DOMAIN watch'[j] :
          watch'[j][i].kind = "set" => Before(j, i)'.uid \in {None, watch'[j][i].obj.uid}
    <2> TAKE j \in Key
    <2> TAKE i \in DOMAIN watch'[j]
    <2>1. CASE i \in DOMAIN watch[j]
      BY <1>1, <1>3, <1>8, <2>1 DEF DeletedBetween
    <2>2. CASE j = k /\ i = n + 1
      BY <1>3, <1>7, <2>2
    <2> QED
      BY <1>1, <1>3, <2>1, <2>2
  <1>10. DeletedBetween'
    BY <1>9 DEF DeletedBetween
  <1> QED
    BY <1>6, <1>10

LEMMA NewestSame ==
  ASSUME NewestLast, DeletedBetween, UNCHANGED <<api, watch, lister>>,
         \A i \in DOMAIN notes' : \E j \in DOMAIN notes : notes'[i] = notes[j]
  PROVE  NewestLast' /\ DeletedBetween'
  <1>1. NewestLast'
    BY DEF NewestLast, After
  <1>3. DeletedBetween'
    BY DEF DeletedBetween, Before, After
  <1> QED
    BY <1>1, <1>3
-----------------------------------------------------------------------------
(* Steps that change a pod at the API server.                               *)

\* the API server takes the change c of k and tells it
Reports(k, c) ==
  /\ api' = [api EXCEPT ![k] = After(c)]
  /\ watch' = [watch EXCEPT ![k] = Append(@, c)]
  /\ c.kind = "set" =>
       \/ api[k] = NoPod /\ c.obj.uid \notin born
       \/ c.obj.uid = api[k].uid /\ (api[k].done => c.obj.done)

LEMMA StoreReports ==
  ASSUME NEW k \in Key, NEW o \in Object, Store(k, o),
         \/ api[k] = NoPod /\ o.uid \notin born
         \/ o.uid = api[k].uid /\ (api[k].done => o.done)
  PROVE  \E c \in Changes : Reports(k, c)
  <1>1. PICK c : c = Change("set", o)
    OBVIOUS
  <1>2. c \in Changes /\ c.kind = "set" /\ c.obj = o
    BY <1>1 DEF Change, Changes
  <1>3. Reports(k, c)
    BY <1>1, <1>2 DEF Reports, Store, After
  <1> QED
    BY <1>2, <1>3

LEMMA ClusterReports ==
  ASSUME TypeOK, Cluster
  PROVE  /\ UNCHANGED <<lister, notes, handler, queue, waiting, removed, worker, known>>
         /\ born \subseteq born'
         /\ UNCHANGED <<api, watch>> \/ \E k \in Key, c \in Changes : Reports(k, c)
  <1>1. ASSUME NEW p \in Pod, CreatePod(p)
        PROVE  \E k \in Key, c \in Changes : Reports(k, c)
    <2>1. PICK o : o = NewPod(p)
      OBVIOUS
    <2>2. o \in Object /\ o.uid = p
      BY <2>1 DEF NewPod, Object
    <2>3. /\ KeyOf[p] \in Key /\ Store(KeyOf[p], o)
          /\ api[KeyOf[p]] = NoPod /\ o.uid \notin born
      BY <1>1, <2>1, <2>2, KeyOfAssumption DEF CreatePod
    <2> QED
      BY <2>2, <2>3, StoreReports
  <1>2. ASSUME NEW k \in Key, FinishPod(k)
        PROVE  \E c \in Changes : Reports(k, c)
    <2>1. PICK o : o = [api[k] EXCEPT !.done = TRUE]
      OBVIOUS
    <2>2. api[k] \in Object
      BY <1>2, SlotHolds DEF FinishPod, Live, TypeOK
    <2>3. o \in Object /\ o.uid = api[k].uid /\ o.done
      BY <2>1, <2>2 DEF Object
    <2>4. Store(k, o)
      BY <1>2, <2>1 DEF FinishPod
    <2> QED
      BY <2>3, <2>4, StoreReports
  <1>3. ASSUME NEW k \in Key, DeletePod(k)
        PROVE  \E c \in Changes : Reports(k, c)
    <2>1. PICK c : c = Change("del", api[k])
      OBVIOUS
    <2>2. api[k] \in Object
      BY <1>3, SlotHolds DEF DeletePod, TypeOK
    <2>3. c \in Changes /\ c.kind = "del"
      BY <2>1, <2>2 DEF Change, Changes
    <2>4. Reports(k, c)
      BY <1>3, <2>1, <2>3 DEF Reports, DeletePod, Delete, After
    <2> QED
      BY <2>3, <2>4
  <1>4. CASE NodeFlap
    BY <1>4 DEF NodeFlap, informer, control, cache
  <1>5. UNCHANGED <<lister, notes, control, cache>> /\ born \subseteq born'
    BY DEF Cluster, CreatePod, FinishPod, DeletePod, NodeFlap, informer
  <1> QED
    BY <1>1, <1>2, <1>3, <1>4, <1>5 DEF Cluster, control, cache

LEMMA BindReports ==
  ASSUME TypeOK, NEW b \in Binder, Bind(b) \/ \E p \in Pod : BindRequest(b, p)
  PROVE  /\ UNCHANGED <<lister, notes, handler, queue, waiting, removed, worker, known>>
         /\ UNCHANGED born
         /\ UNCHANGED <<api, watch>> \/ \E k \in Key, c \in Changes : Reports(k, c)
  <1> DEFINE k == TheKey(b)
  <1>1. CallStep(b)
    BY BindSteps
  <1>2. CASE CallWrites(b)
    <2>1. k \in Key /\ bind[b].held \in Object /\ bind[b].ids \in SUBSET (GPU \union {NoGPU})
      BY <1>2, CallHolder DEF CallWrites
    <2>2. PICK o : o = [bind[b].held EXCEPT !.ids = bind[b].ids]
      OBVIOUS
    <2>3. o \in Object /\ o.uid = api[k].uid /\ (api[k].done => o.done)
      BY <1>2, <2>1, <2>2 DEF CallWrites, Object
    <2>4. Store(k, o)
      BY <1>2, <2>2 DEF CallWrites
    <2> QED
      BY <2>1, <2>3, <2>4, StoreReports, BindSteps
  <1>3. CASE CallBinds(b)
    <2>1. k \in Key /\ bind[b].held.uid \in Pod
      BY <1>3, CallHolder DEF CallBinds, Object
    <2>2. api[k] \in Object
      BY <1>3, <2>1, SlotHolds, NoPodIsNoObject, NoneAssumption DEF CallBinds, TypeOK
    <2>3. PICK o : o = [api[k] EXCEPT !.node = TRUE]
      OBVIOUS
    <2>4. o \in Object /\ o.uid = api[k].uid /\ (api[k].done => o.done)
      BY <2>2, <2>3 DEF Object
    <2>5. Store(k, o)
      BY <1>3, <2>3 DEF CallBinds
    <2> QED
      BY <2>1, <2>4, <2>5, StoreReports, BindSteps
  <1>4. CASE ~CallWrites(b) /\ ~CallBinds(b)
    <2>1. UNCHANGED <<api, watch>>
      BY <1>1, <1>4
      DEF CallStep, CallFails, CallHolds, CallLocks, CallChooses, CallRereads,
          CallStarts, CallMarks, BindMark, Quiet
    <2> QED
      BY <2>1, BindSteps
  <1> QED
    BY <1>2, <1>3, <1>4

LEMMA DoneStored ==
  ASSUME TypeOK, Ends, DoneForGood, NEW k \in Key, NEW c \in Changes, Reports(k, c),
         UNCHANGED <<lister, worker>>, born \subseteq born'
  PROVE  DoneForGood'
  <1>1. /\ api'[k] = After(c) /\ c.obj \in Object
        /\ \A j \in Key : j # k => api'[j] = api[j] /\ Ahead(j)' = Ahead(j)
    BY DEF Reports, TypeOK, Changes, Ahead
  <1>2. /\ \A o \in Ahead(k)' : o \in Ahead(k) \/ o = NoPod \/ o = c.obj
        /\ \A o \in Ahead(k) : o \in Slot
    <2>1. PICK s \in {NoPod, c.obj} : s = After(c)
      BY DEF After
    <2> QED
      BY <2>1, AheadStored, AheadHolds DEF Reports
  <1>3. ASSUME NEW u \in born, api'[k].uid = u,
               api[k].uid = u => api[k].done
        PROVE  api'[k].done
    <2>1. u # None
      BY NoneAssumption DEF TypeOK
    <2> QED
      BY <1>1, <1>3, <2>1, NoPodIsNoObject DEF Reports, After
  <1>4. ASSUME NEW o \in Ahead(k)', o.done, o.uid = api'[k].uid
        PROVE  api'[k].done
    <2>1. CASE o = c.obj /\ api'[k] = c.obj
      BY <1>4, <2>1
    <2>2. CASE o = NoPod
      BY <1>4, <2>2, NoPodIsFresh
    <2>3. CASE o = c.obj /\ api'[k] = NoPod
      BY <1>1, <1>4, <2>3, NoPodIsNoObject, NoneAssumption DEF Object
    <2>4. CASE o \in Ahead(k)
      <3>1. o # NoPod
        BY <1>4, NoPodIsFresh
      <3>2. o.uid \in born
        BY <2>4, <3>1 DEF Ends, UnderOwnKey
      <3>3. api[k].uid = o.uid => api[k].done
        BY <1>4, <2>4 DEF DoneForGood
      <3> QED
        BY <1>3, <1>4, <3>2, <3>3
    <2> QED
      BY <1>1, <1>2, <2>1, <2>2, <2>3, <2>4 DEF After
  <1>5. ASSUME worker.pc = "remove"
        PROVE  /\ worker.pod.uid \in born'
               /\ api'[KeyOf[worker.pod.uid]].uid = worker.pod.uid =>
                    api'[KeyOf[worker.pod.uid]].done
    <2>1. worker.pod.uid \in born /\ KeyOf[worker.pod.uid] \in Key
      BY <1>5, KeyOfAssumption DEF DoneForGood, TypeOK
    <2> QED
      BY <1>1, <1>3, <1>5, <2>1 DEF DoneForGood
  <1> QED
    BY <1>1, <1>4, <1>5 DEF DoneForGood
-----------------------------------------------------------------------------
(* The informer.                                                            *)

\* the notifications tell which pod an update is about, and n is told as well
Tells(n) ==
  /\ \A i \in DOMAIN notes : i \in DOMAIN notes' /\ notes'[i] = notes[i]
  /\ \E i \in DOMAIN notes' : notes'[i] = n
  /\ \A i \in DOMAIN notes' : notes'[i].type = "update" => notes'[i].old.uid = notes'[i].new.uid

LEMMA Told ==
  ASSUME TypeOK, DeletedBetween, NEW n \in Notes, notes' = Append(notes, n),
         n.type = "update" => n.old.uid = n.new.uid
  PROVE  Tells(n)
  <1>1. PICK m : m = Len(notes)
    OBVIOUS
  <1>2. /\ m \in Nat
        /\ DOMAIN notes = 1 .. m /\ DOMAIN notes' = 1 .. m + 1
        /\ \A i \in DOMAIN notes : notes'[i] = notes[i]
        /\ notes'[m + 1] = n
    BY <1>1, Appended DEF TypeOK
  <1>3. \A i \in DOMAIN notes' : notes'[i] = n \/ \E j \in DOMAIN notes : notes'[i] = notes[j]
    BY <1>2
  <1>4. \A i \in DOMAIN notes' : notes'[i].type = "update" =>
          notes'[i].old.uid = notes'[i].new.uid
    BY <1>3 DEF DeletedBetween
  <1> QED
    BY <1>2, <1>4 DEF Tells

\* a notification of one change, the oldest that waits
LEMMA NewestDelivered ==
  ASSUME TypeOK, NewestLast, DeletedBetween, NEW k \in Key, watch[k] # << >>,
         watch' = [watch EXCEPT ![k] = Tail(@)],
         lister' = [lister EXCEPT ![k] = After(watch[k][1])], UNCHANGED api
  PROVE  /\ NewestLast'
         /\ \A j \in Key : \A i \in DOMAIN watch'[j] : watch'[j][i].kind = "set" =>
              Before(j, i)'.uid \in {None, watch'[j][i].obj.uid}
         /\ watch'[k] = << >> => After(watch[k][1]) = api[k]
  <1>1. /\ watch'[k] = Tail(watch[k]) /\ lister'[k] = After(watch[k][1])
        /\ \A j \in Key : j # k => watch'[j] = watch[j] /\ lister'[j] = lister[j]
        /\ watch[k] \in Seq(Changes) /\ watch'[k] \in Seq(Changes)
    BY HeadTailProperties DEF TypeOK
  <1>2. PICK n : n = Len(watch[k])
    OBVIOUS
  <1>3. /\ n \in Nat /\ DOMAIN watch[k] = 1 .. n /\ n # 0
        /\ DOMAIN watch'[k] = 1 .. n - 1
        /\ \A i \in DOMAIN watch'[k] : i + 1 \in DOMAIN watch[k] /\ watch'[k][i] = watch[k][i + 1]
    <2>1. PICK s, t : s = watch[k] /\ t = watch'[k]
      OBVIOUS
    <2>2. s \in Seq(Changes) /\ s # << >> /\ Len(s) = n /\ t = Tail(s)
      BY <1>1, <1>2, <2>1
    <2>3. n \in Nat /\ DOMAIN s = 1 .. n /\ 1 \in DOMAIN s
      BY <2>2, Tailed
    <2>4. /\ DOMAIN t = 1 .. n - 1
          /\ \A i \in DOMAIN t : i + 1 \in DOMAIN s /\ t[i] = s[i + 1]
      BY <2>2, Tailed
    <2>5. n # 0
      BY <2>3
    <2> QED
      BY <2>1, <2>3, <2>4, <2>5
  <1>4. Len(watch'[k]) = n - 1 /\ (watch'[k] = << >> <=> n = 1)
    <2>1. PICK t : t = watch'[k]
      OBVIOUS
    <2>2. t \in Seq(Changes) /\ DOMAIN t = 1 .. n - 1
      BY <1>1, <1>3, <2>1
    <2>3. Len(t) = n - 1
      BY <1>3, <2>2, LenProperties
    <2>4. t = << >> <=> Len(t) = 0
      BY <2>2, EmptySeq
    <2> QED
      BY <1>3, <2>1, <2>3, <2>4
  <1>5. After(watch[k][n]) = api[k]
    BY <1>2 DEF NewestLast
  <1>6. NewestLast'
    <2>1. n # 1 => watch'[k][n - 1] = watch[k][n]
      BY <1>3
    <2> QED
      BY <1>1, <1>4, <1>5, <2>1 DEF NewestLast, After
  <1>7. \A i \in DOMAIN watch'[k] : watch'[k][i].kind = "set" =>
          Before(k, i)'.uid \in {None, watch'[k][i].obj.uid}
    <2> SUFFICES ASSUME NEW i \in DOMAIN watch'[k], watch'[k][i].kind = "set"
                 PROVE  Before(k, i)'.uid \in {None, watch'[k][i].obj.uid}
      OBVIOUS
    <2>1. i \in Nat /\ i # 0 /\ i + 1 \in DOMAIN watch[k] /\ watch'[k][i] = watch[k][i + 1]
      BY <1>3
    <2>2. Before(k, i)' = After(watch[k][i])
      <3>1. CASE i = 1
        BY <1>1, <3>1 DEF Before, After
      <3>2. CASE i # 1
        <4>1. i - 1 \in DOMAIN watch'[k] /\ (i - 1) + 1 = i
          BY <1>3, <2>1, <3>2
        <4>2. watch'[k][i - 1] = watch[k][i]
          BY <1>3, <4>1
        <4> QED
          BY <3>2, <4>2 DEF Before, After
      <3> QED
        BY <3>1, <3>2
    <2>3. Before(k, i + 1) = After(watch[k][i])
      <3>1. i + 1 # 1 /\ (i + 1) - 1 = i
        BY <2>1
      <3> QED
        BY <3>1 DEF Before
    <2> QED
      BY <2>1, <2>2, <2>3 DEF DeletedBetween
  <1>8. \A j \in Key : j # k => \A i : Before(j, i)' = Before(j, i)
    BY <1>1 DEF Before, After
  <1>9. \A j \in Key : j # k => \A i \in DOMAIN watch'[j] : watch'[j][i].kind = "set" =>
          Before(j, i)'.uid \in {None, watch'[j][i].obj.uid}
    BY <1>1, <1>8 DEF DeletedBetween
  <1> QED
    BY <1>4, <1>5, <1>6, <1>7, <1>9

\* the last change of k has been told, if all have
LastTold(k) ==
  watch'[k] = << >> /\ api[k] # NoPod =>
    \/ watch[k] = << >>
    \/ \E i \in DOMAIN notes' : notes'[i].type # "delete" /\ notes'[i].new.uid = api[k].uid

InformsOf(k) ==
  /\ NewestLast' /\ DeletedBetween' /\ LastTold(k)
  /\ \A j \in Key : j # k => watch'[j] = watch[j]
  /\ \A i \in DOMAIN notes : i \in DOMAIN notes' /\ notes'[i] = notes[i]

LEMMA SetNoteKinds ==
  ASSUME TypeOK, NEW k \in Key, NEW o \in Object
  PROVE  LET n == SetNote(k, o)
         IN  /\ n \in Notes /\ n.type \in {"add", "update"} /\ n.new = o
             /\ n.type = "update" => n.old = lister[k] /\ lister[k] # NoPod
  <1>1. lister[k] \in Slot
    BY DEF TypeOK
  <1>2. CASE lister[k] = NoPod
    BY <1>1, <1>2, NoteType DEF SetNote, Note
  <1>3. CASE lister[k] # NoPod
    BY <1>1, <1>3, NoteType DEF SetNote, Note
  <1> QED
    BY <1>2, <1>3

LEMMA DeliverInforms ==
  ASSUME TypeOK, NewestLast, DeletedBetween, NEW k \in Key, Deliver(k)
  PROVE  InformsOf(k)
  <1> DEFINE c == watch[k][1]
  <1>1. /\ watch[k] # << >> /\ watch' = [watch EXCEPT ![k] = Tail(@)]
        /\ \A j \in Key : j # k => watch'[j] = watch[j]
    BY DEF Deliver, TypeOK
  <1>2. /\ Head(watch[k]) = c /\ 1 \in DOMAIN watch[k]
        /\ c.obj \in Object /\ c.kind \in {"set", "del"}
    BY <1>1, WatchHolds, Tailed DEF Changes
  <1>3. PICK n : n = IF c.kind = "set" THEN SetNote(k, c.obj) ELSE Note("delete", NoPod, c.obj)
    OBVIOUS
  <1>4. Apply(k, After(c), n)
    BY <1>2, <1>3 DEF Deliver, After
  <1>5. /\ n \in Notes /\ n.new = c.obj
        /\ c.kind = "set" => n.type # "delete"
        /\ n.type = "update" => c.kind = "set" /\ n.old = lister[k] /\ lister[k] # NoPod
    BY <1>2, <1>3, SetNoteKinds, NoteType DEF Note
  <1>6. c.kind = "set" => lister[k].uid \in {None, c.obj.uid}
    BY <1>2 DEF DeletedBetween, Before
  <1>7. n.type = "update" => n.old.uid = n.new.uid
    <2>1. lister[k] # NoPod => lister[k].uid # None
      BY SlotHolds, NoneAssumption DEF TypeOK
    <2> QED
      BY <1>5, <1>6, <2>1
  <1>8. Tells(n)
    BY <1>4, <1>5, <1>7, Told DEF Apply
  <1> HIDE DEF c
  <1>9. /\ NewestLast'
        /\ \A j \in Key : \A i \in DOMAIN watch'[j] : watch'[j][i].kind = "set" =>
             Before(j, i)'.uid \in {None, watch'[j][i].obj.uid}
        /\ watch'[k] = << >> => After(c) = api[k]
    BY <1>1, <1>4, NewestDelivered DEF Apply, cluster, c
  <1>10. DeletedBetween'
    BY <1>8, <1>9 DEF DeletedBetween, Tells
  <1>11. LastTold(k)
    BY <1>2, <1>5, <1>8, <1>9 DEF LastTold, Tells, After
  <1> QED
    BY <1>1, <1>8, <1>9, <1>10, <1>11 DEF InformsOf, Tells

LEMMA RelistInforms ==
  ASSUME TypeOK, Ends, NamesTellPods, NewestLast, DeletedBetween, NEW k \in Key, Relist(k)
  PROVE  InformsOf(k)
  <1>1. /\ watch[k] # << >> /\ watch' = [watch EXCEPT ![k] = << >>] /\ watch'[k] = << >>
        /\ \A j \in Key : j # k => watch'[j] = watch[j]
    BY DEF Relist, TypeOK
  <1>2. \A p, q \in Pod : KeyOf[p] = KeyOf[q] => p = q
    BY DEF Relist, Fault, NamesTellPods
  <1>3. /\ UNCHANGED api /\ lister' = [lister EXCEPT ![k] = api[k]]
        /\ \/ api[k] = NoPod /\ UNCHANGED notes
           \/ \E n \in Notes : /\ Tells(n)
                               /\ api[k] # NoPod => n.type # "delete" /\ n.new = api[k]
    <2>1. CASE api[k] # NoPod
      <3>1. api[k] \in Object /\ api[k].uid \in Pod /\ KeyOf[api[k].uid] = k
        BY <2>1, SlotHolds DEF TypeOK, Ends, UnderOwnKey, Ahead
      <3>2. PICK n : n = SetNote(k, api[k])
        OBVIOUS
      <3>3. /\ n \in Notes /\ n.type # "delete" /\ n.new = api[k]
            /\ n.type = "update" => n.old = lister[k] /\ lister[k] # NoPod
        BY <3>1, <3>2, SetNoteKinds
      <3>4. Apply(k, api[k], n)
        BY <2>1, <3>2 DEF Relist
      <3>5. lister[k] # NoPod => lister[k].uid = api[k].uid
        <4>1. lister[k] # NoPod => lister[k].uid \in Pod /\ KeyOf[lister[k].uid] = k
          BY SlotHolds DEF TypeOK, Ends, UnderOwnKey, Ahead
        <4> QED
          BY <1>2, <3>1, <4>1
      <3>6. n.type = "update" => n.old.uid = n.new.uid
        BY <3>3, <3>5
      <3>7. Tells(n)
        BY <3>3, <3>4, <3>6, Told DEF Apply
      <3> QED
        BY <3>3, <3>4, <3>7 DEF Apply, cluster
    <2>2. CASE api[k] = NoPod /\ lister[k] # NoPod
      <3>1. lister[k] \in Object
        BY <2>2, SlotHolds DEF TypeOK
      <3>2. PICK n : n = Note("delete", NoPod, lister[k])
        OBVIOUS
      <3>3. n \in Notes /\ n.type = "delete"
        BY <3>1, <3>2, NoteType DEF Note
      <3>4. Apply(k, NoPod, n)
        BY <2>2, <3>2 DEF Relist
      <3>5. Tells(n)
        BY <3>3, <3>4, Told DEF Apply
      <3> QED
        BY <2>2, <3>3, <3>4, <3>5 DEF Apply, cluster
    <2>3. CASE api[k] = NoPod /\ lister[k] = NoPod
      <3>1. UNCHANGED <<lister, notes, cluster>>
        BY <2>3 DEF Relist
      <3>2. lister' = [lister EXCEPT ![k] = NoPod]
        BY <2>3, <3>1 DEF TypeOK
      <3> QED
        BY <2>3, <3>1, <3>2 DEF cluster
    <2> QED
      BY <2>1, <2>2, <2>3
  <1>4. NewestLast'
    BY <1>1, <1>3 DEF NewestLast, After, TypeOK
  <1>5. \A j \in Key : \A i \in DOMAIN watch'[j] :
          j # k /\ watch'[j] = watch[j] /\ Before(j, i)' = Before(j, i)
    <2>1. \A j \in Key : j # k => watch'[j] = watch[j] /\ lister'[j] = lister[j]
      BY <1>1, <1>3 DEF TypeOK
    <2>2. \A i \in DOMAIN watch'[k] : FALSE
      BY <1>1
    <2> QED
      BY <2>1, <2>2 DEF Before, After
  <1>6. /\ \A i \in DOMAIN notes : i \in DOMAIN notes' /\ notes'[i] = notes[i]
        /\ \A i \in DOMAIN notes' : notes'[i].type = "update" =>
             notes'[i].old.uid = notes'[i].new.uid
    BY <1>3 DEF Tells, DeletedBetween
  <1>7. DeletedBetween'
    BY <1>5, <1>6 DEF DeletedBetween
  <1>8. LastTold(k)
    BY <1>3 DEF LastTold, Tells
  <1> QED
    BY <1>1, <1>4, <1>6, <1>7, <1>8 DEF InformsOf

LEMMA ResyncInforms ==
  ASSUME TypeOK, NewestLast, DeletedBetween, NEW k \in Key, Resync(k)
  PROVE  InformsOf(k)
  <1>1. lister[k] \in Object
    BY SlotHolds DEF Resync, TypeOK
  <1>2. PICK n : n = Note("update", lister[k], lister[k])
    OBVIOUS
  <1>3. n \in Notes /\ n.old = n.new
    BY <1>1, <1>2, NoteType DEF Note, Slot
  <1>4. Apply(k, lister[k], n) /\ UNCHANGED watch
    BY <1>2 DEF Resync
  <1>5. Tells(n)
    BY <1>3, <1>4, Told DEF Apply
  <1>6. UNCHANGED <<api, watch, lister>>
    BY <1>4 DEF Apply, cluster, TypeOK
  <1>7. NewestLast'
    BY <1>6 DEF NewestLast, After
  <1>8. DeletedBetween'
    BY <1>5, <1>6 DEF DeletedBetween, Before, After, Tells
  <1> QED
    BY <1>5, <1>6, <1>7, <1>8 DEF InformsOf, LastTold, Tells

LEMMA DoneInformer ==
  ASSUME TypeOK, Ends, DoneForGood, Informer
  PROVE  DoneForGood'
  <1>1. UNCHANGED <<api, born, removed, worker>>
    BY InformerSteps
  <1>2. \A j \in Key : \A q \in Ahead(j)' : q \in Ahead(j) \/ q = NoPod
    <2>1. ASSUME NEW k \in Key, NEW o \in Slot, NEW n \in Notes, Informs(k, o, n)
          PROVE  \A j \in Key : \A q \in Ahead(j)' : q \in Ahead(j) \/ q = NoPod
      BY <1>1, <2>1, Applied DEF Informs
    <2>2. ASSUME NEW k \in Key, InformsNothing(k)
          PROVE  \A j \in Key : \A q \in Ahead(j)' : q \in Ahead(j) \/ q = NoPod
      BY <1>1, <2>2, Applied DEF InformsNothing
    <2> QED
      BY <2>1, <2>2, InformerSteps
  <1> QED
    BY <1>1, <1>2, NoPodIsFresh DEF DoneForGood

LEMMA DoneWorker ==
  ASSUME TypeOK, Ends, DoneForGood, Worker
  PROVE  DoneForGood'
  <1>1. UNCHANGED <<api, born, watch, lister>>
    BY WorkerSteps
  <1>2. worker'.pc # "remove" \/ DoneForGood' \/
          ~(/\ worker'.pod.uid \in born
            /\ api[KeyOf[worker'.pod.uid]].uid = worker'.pod.uid =>
                 api[KeyOf[worker'.pod.uid]].done)
    BY <1>1 DEF DoneForGood, Ahead
  <1>3. worker'.pc # "remove" => DoneForGood'
    BY <1>1 DEF DoneForGood, Ahead
  <1>4. ASSUME NEW o \in Object, WorkerTakes(o)
        PROVE  DoneForGood'
    <2>1. worker.key \in Key /\ o # NoPod /\ worker'.pod = o
      BY <1>4, WorkerKinds, NoPodIsNoObject DEF TypeOK, WorkerTakes
    <2>2. CASE o = lister[worker.key] /\ o.done
      <3>1. o \in Ahead(worker.key)
        BY <2>2 DEF Ahead
      <3>2. o.uid \in born /\ KeyOf[o.uid] = worker.key
        BY <2>1, <3>1 DEF Ends, UnderOwnKey
      <3> QED
        BY <1>2, <1>3, <2>1, <2>2, <3>1, <3>2 DEF DoneForGood
    <2>3. CASE o = removed[worker.key]
      <3>1. Past(o.uid)
        BY <2>1, <2>3 DEF Ends, EndedOnce, Handled
      <3>2. api[KeyOf[o.uid]] \in Ahead(KeyOf[o.uid])
        BY DEF Ahead
      <3> QED
        BY <1>2, <1>3, <2>1, <3>1, <3>2 DEF Past
    <2> QED
      BY <1>3, <1>4, <2>2, <2>3 DEF WorkerTakes
  <1>5. ASSUME NEW g \in GPU, WorkerTouches(g)
        PROVE  DoneForGood'
    BY <1>2, <1>3, <1>5 DEF WorkerTouches, DoneForGood
  <1> QED
    BY <1>3, <1>4, <1>5, WorkerSteps DEF WorkerPasses, WorkerDrops

LEMMA DoneCrash ==
  ASSUME TypeOK, CrashRestart
  PROVE  DoneForGood'
  <1>1. /\ worker'.pc = "idle" /\ lister' = api /\ UNCHANGED api
        /\ \A k \in Key : watch'[k] = << >>
    BY DEF CrashRestart, cluster, IdleWorker
  <1>2. \A k \in Key : \A o \in Ahead(k)' : o = api[k]
    BY <1>1 DEF Ahead
  <1> QED
    BY <1>1, <1>2 DEF DoneForGood
-----------------------------------------------------------------------------
(* podQueue.                                                                *)

\* k is in the queue q
Waits(q, k) == \E i \in DOMAIN q.queue : q.queue[i] = k

\* whoever needs processing waits or is processed
Served(q) == \A k \in q.dirty : k \in q.processing \/ Waits(q, k)

LEMMA AddServed ==
  ASSUME NEW q \in QueueOf(Key), NEW k \in Key, Served(q)
  PROVE  LET r == QAdd(q, k)
         IN  /\ Served(r) /\ r.processing = q.processing
             /\ r.dirty = q.dirty \union {k}
  <1>1. CASE k \in q.dirty
    BY <1>1 DEF QAdd
  <1>2. CASE k \notin q.dirty
    <2>1. PICK s : s = IF k \in q.processing THEN q.queue ELSE Append(q.queue, k)
      OBVIOUS
    <2>2. PICK r : r = QAdd(q, k)
      OBVIOUS
    <2>3. r = [queue |-> s, dirty |-> q.dirty \union {k}, processing |-> q.processing]
      BY <1>2, <2>1, <2>2 DEF QAdd, QueueOf
    <2>4. r.queue = s /\ r.dirty = q.dirty \union {k} /\ r.processing = q.processing
      BY <2>3
    <2>5. \A i \in DOMAIN q.queue : i \in DOMAIN s /\ s[i] = q.queue[i]
      BY <2>1, Appended DEF QueueOf
    <2>6. k \in q.processing \/ \E i \in DOMAIN s : s[i] = k
      <3>1. CASE k \notin q.processing
        <4>1. PICK n : n = Len(q.queue)
          OBVIOUS
        <4>2. n + 1 \in DOMAIN s /\ s[n + 1] = k
          BY <2>1, <3>1, <4>1, Appended DEF QueueOf
        <4> QED
          BY <4>2
      <3> QED
        BY <3>1
    <2>7. Served(r)
      BY <2>4, <2>5, <2>6 DEF Served, Waits
    <2> QED
      BY <2>2, <2>4, <2>7
  <1> QED
    BY <1>1, <1>2

LEMMA GetServed ==
  ASSUME NEW q \in QueueOf(Key), q.queue # << >>, Served(q)
  PROVE  LET r == QGet(q)
         IN  /\ Served(r) /\ Head(q.queue) \in Key
             /\ r.processing = q.processing \union {Head(q.queue)}
             /\ r.dirty = q.dirty \ {Head(q.queue)}
  <1>1. PICK r : r = QGet(q)
    OBVIOUS
  <1>2. PICK k : k = Head(q.queue)
    OBVIOUS
  <1>3. r.queue = Tail(q.queue) /\ r.dirty = q.dirty \ {k} /\ r.processing = q.processing \union {k}
    BY <1>1, <1>2 DEF QGet
  <1>4. k = q.queue[1] /\ k \in Key
    BY <1>2, Tailed, HeadTailProperties DEF QueueOf
  <1>5. ASSUME NEW j \in r.dirty
        PROVE  j \in r.processing \/ Waits(r, j)
    <2>1. CASE j \in q.processing
      BY <1>3, <2>1
    <2>2. ASSUME NEW i \in DOMAIN q.queue, q.queue[i] = j
          PROVE  Waits(r, j)
      <3>1. i # 1 /\ i \in 1 .. Len(q.queue) /\ Len(q.queue) \in Nat
        BY <1>3, <1>4, <1>5, <2>2, Tailed DEF QueueOf
      <3>2. PICK m : m = i - 1
        OBVIOUS
      <3>3. m \in 1 .. Len(q.queue) - 1 /\ m + 1 = i
        BY <3>1, <3>2
      <3>4. m \in DOMAIN r.queue /\ r.queue[m] = q.queue[m + 1]
        BY <1>3, <3>3, Tailed DEF QueueOf
      <3> QED
        BY <2>2, <3>3, <3>4 DEF Waits
    <2> QED
      BY <1>3, <1>5, <2>1, <2>2 DEF Served, Waits
  <1> QED
    BY <1>1, <1>2, <1>3, <1>4, <1>5 DEF Served

LEMMA DoneServed ==
  ASSUME NEW q \in QueueOf(Key), NEW k \in Key, Served(q)
  PROVE  LET r == QDone(q, k)
         IN  /\ Served(r) /\ r.processing = q.processing \ {k} /\ r.dirty = q.dirty
  <1>1. PICK s : s = IF k \in q.dirty THEN Append(q.queue, k) ELSE q.queue
    OBVIOUS
  <1>2. PICK r : r = QDone(q, k)
    OBVIOUS
  <1>3. r = [queue |-> s, dirty |-> q.dirty, processing |-> q.processing \ {k}]
    BY <1>1, <1>2 DEF QDone, QueueOf
  <1>4. r.queue = s /\ r.dirty = q.dirty /\ r.processing = q.processing \ {k}
    BY <1>3
  <1>5. \A i \in DOMAIN q.queue : i \in DOMAIN s /\ s[i] = q.queue[i]
    BY <1>1, Appended DEF QueueOf
  <1>6. k \in q.dirty => \E i \in DOMAIN s : s[i] = k
    <2>1. CASE k \in q.dirty
      <3>1. PICK n : n = Len(q.queue)
        OBVIOUS
      <3>2. n + 1 \in DOMAIN s /\ s[n + 1] = k
        BY <1>1, <2>1, <3>1, Appended DEF QueueOf
      <3> QED
        BY <3>2
    <2> QED
      BY <2>1
  <1>7. Served(r)
    BY <1>4, <1>5, <1>6 DEF Served, Waits
  <1> QED
    BY <1>2, <1>4, <1>7

LEMMA FirstServed ==
  ASSUME NEW a \in [Key -> Slot], NEW q \in FirstQueues(a)
  PROVE  Served(q) /\ q.processing = {} /\ q.dirty = {k \in Key : a[k] # NoPod}
  <1>1. PICK K : K = {k \in Key : a[k] # NoPod}
    OBVIOUS
  <1>2. PICK s \in SetToSeqs(K) : q = [queue |-> s, dirty |-> K, processing |-> {}]
    BY <1>1 DEF FirstQueues
  <1>3. IsFiniteSet(K) /\ Cardinality(K) \in Nat
    BY <1>1, KeyAssumption, FS_Subset, FS_CardinalityType
  <1>4. PICK n \in Nat : n = Cardinality(K)
    BY <1>3
  <1>5. s \in Injection(1 .. n, K)
    BY <1>2, <1>4 DEF SetToSeqs, Injection, IsInjective
  <1>6. Cardinality(1 .. n) = n
    BY <1>4, FS_Interval
  <1>7. s \in Surjection(1 .. n, K)
    BY <1>3, <1>4, <1>5, <1>6, FS_Injection
  <1>8. DOMAIN s = 1 .. n /\ \A k \in K : \E i \in 1 .. n : s[i] = k
    BY <1>7 DEF Surjection
  <1> QED
    BY <1>1, <1>2, <1>8 DEF Served, Waits

\* the steps of the worker, by what they do to the queue
LEMMA WorkerTurns ==
  ASSUME TypeOK, Worker
  PROVE  \/ WorkerGet /\ worker'.pc = "sync" /\ worker'.key = Head(queue.queue)
         \/ WorkerDone /\ worker' = IdleWorker
         \/ /\ UNCHANGED queue /\ worker.pc \notin {"idle", "done"} /\ worker'.pc # "idle"
            /\ worker'.key = worker.key /\ worker.key \in Key
  <1>1. /\ worker.pc = "idle" => worker = IdleWorker
        /\ worker.pc # "idle" => worker.key \in Key
        /\ worker.pc \in {"sync", "lookup", "done"} =>
             worker = [pc |-> worker.pc, key |-> worker.key, pod |-> NoPod,
                       rest |-> {}, stored |-> FALSE]
        /\ worker.pc \in {"add", "remove"} =>
             worker \in [pc : {"add", "remove"}, key : Key, pod : Object,
                         rest : SUBSET GPU, stored : BOOLEAN]
    BY WorkerKinds DEF TypeOK
  <1>2. Finished => worker'.pc = "done" /\ worker'.key = worker.key /\ UNCHANGED queue
    <2>1. PICK k : k = worker.key
      OBVIOUS
    <2>2. Finished => worker' = [IdleWorker EXCEPT !.pc = "done", !.key = k]
      BY <2>1 DEF Finished, Working
    <2> QED
      BY <2>1, <2>2 DEF Finished, IdleWorker
  <1>3. CASE WorkerGet
    <2>1. PICK k : k = Head(queue.queue)
      OBVIOUS
    <2>2. worker' = [IdleWorker EXCEPT !.pc = "sync", !.key = k]
      BY <1>1, <1>3, <2>1 DEF WorkerGet, Working
    <2> QED
      BY <1>3, <2>1, <2>2 DEF IdleWorker
  <1>4. CASE WorkerDone
    BY <1>4 DEF WorkerDone, Working
  <1>5. ASSUME worker.pc \in {"sync", "lookup"}, NEW o, NEW b, Removing(o, b)
        PROVE  worker'.pc = "remove" /\ worker'.key = worker.key
    <2>1. PICK r : r = IF o.node /\ nodeOk THEN GPUIDs(o) ELSE {}
      OBVIOUS
    <2>2. worker' = [worker EXCEPT !.pc = "remove", !.pod = o, !.stored = b, !.rest = r]
      BY <1>5, <2>1 DEF Removing, Working
    <2>3. PICK k, pc : worker = [pc |-> pc, key |-> k, pod |-> NoPod, rest |-> {}, stored |-> FALSE]
      BY <1>1, <1>5
    <2> QED
      BY <2>2, <2>3
  <1>6. CASE WorkerSync
    <2> DEFINE o == lister[worker.key]
    <2>1. worker.pc = "sync" /\ worker.key \in Key
      BY <1>1, <1>6 DEF WorkerSync
    <2>2. CASE Finished
      BY <1>2, <2>1, <2>2
    <2>3. CASE Working([worker EXCEPT !.pc = "lookup"]) /\ UNCHANGED queue
      <3>1. worker' = [worker EXCEPT !.pc = "lookup"]
        BY <2>3 DEF Working
      <3> QED
        BY <1>1, <2>1, <2>3, <3>1
    <2>4. CASE Removing(o, FALSE) /\ UNCHANGED queue
      <3>1. worker'.pc = "remove" /\ worker'.key = worker.key
        BY <1>5, <2>1, <2>4
      <3> QED
        BY <2>1, <2>4, <3>1
    <2>5. CASE /\ Working([worker EXCEPT !.pc = "add", !.pod = o, !.rest = GPUIDs(o)])
               /\ UNCHANGED queue
      <3>1. PICK r : r = GPUIDs(o)
        OBVIOUS
      <3>2. worker' = [worker EXCEPT !.pc = "add", !.pod = o, !.rest = r]
        BY <2>5, <3>1 DEF Working
      <3> HIDE DEF o
      <3>3. PICK k, pc : worker = [pc |-> pc, key |-> k, pod |-> NoPod, rest |-> {}, stored |-> FALSE]
        BY <1>1, <2>1
      <3>4. worker'.pc = "add" /\ worker'.key = worker.key
        BY <3>2, <3>3
      <3> QED
        BY <2>1, <2>5, <3>4
    <2> QED
      BY <1>6, <2>2, <2>3, <2>4, <2>5 DEF WorkerSync
  <1>7. CASE WorkerLookup
    <2>1. worker.pc = "lookup" /\ worker.key \in Key
      BY <1>1, <1>7 DEF WorkerLookup
    <2>2. CASE Finished
      BY <1>2, <2>1, <2>2
    <2>3. CASE Removing(removed[worker.key], TRUE) /\ UNCHANGED queue
      <3>1. worker'.pc = "remove" /\ worker'.key = worker.key
        BY <1>5, <2>1, <2>3
      <3> QED
        BY <2>1, <2>3, <3>1
    <2> QED
      BY <1>7, <2>2, <2>3 DEF WorkerLookup
  <1>8. CASE WorkerRemember \/ WorkerForget
    BY <1>1, <1>2, <1>8 DEF WorkerRemember, WorkerForget
  <1>9. ASSUME NEW g \in GPU, WorkerAddDevice(g) \/ WorkerRemoveDevice(g)
        PROVE  /\ UNCHANGED queue /\ worker.pc \notin {"idle", "done"}
               /\ worker'.pc # "idle" /\ worker'.key = worker.key /\ worker.key \in Key
    <2>1. /\ worker' = [worker EXCEPT !.rest = @ \ {g}] /\ UNCHANGED queue
          /\ worker.pc \in {"add", "remove"}
      BY <1>9 DEF WorkerAddDevice, WorkerRemoveDevice, Working
    <2> QED
      BY <1>1, <2>1
  <1> QED
    BY <1>3, <1>4, <1>6, <1>7, <1>8, <1>9 DEF Worker

LEMMA QueuedSame ==
  ASSUME Queued, UNCHANGED <<queue, worker>>
  PROVE  Queued'
  BY DEF Queued

LEMMA QueuedAdded ==
  ASSUME TypeOK, Queued, NEW k \in Key, queue' \in {queue, QAdd(queue, k)}, UNCHANGED worker
  PROVE  /\ Queued' /\ queue.dirty \subseteq queue'.dirty
         /\ queue' = QAdd(queue, k) => k \in queue'.dirty
  <1>1. queue \in QueueOf(Key) /\ Served(queue)
    BY DEF TypeOK, Queued, Served, Waits
  <1>2. PICK r : r = queue'
    OBVIOUS
  <1>3. /\ Served(r) /\ r.processing = queue.processing /\ queue.dirty \subseteq r.dirty
        /\ r = QAdd(queue, k) => k \in r.dirty
    BY <1>1, <1>2, AddServed
  <1> QED
    BY <1>2, <1>3 DEF Queued, Served, Waits

LEMMA QueuedWorker ==
  ASSUME TypeOK, Queued, Worker
  PROVE  Queued'
  <1>1. queue \in QueueOf(Key) /\ Served(queue)
    BY DEF TypeOK, Queued, Served, Waits
  <1>2. PICK r : r = queue'
    OBVIOUS
  <1>3. Served(r) /\ (\A k \in r.processing : worker'.pc # "idle" /\ worker'.key = k) => Queued'
    BY <1>2 DEF Queued, Served, Waits
  <1>4. CASE WorkerGet /\ worker'.pc = "sync" /\ worker'.key = Head(queue.queue)
    <2>1. r = QGet(queue) /\ queue.queue # << >> /\ worker.pc = "idle"
      BY <1>2, <1>4 DEF WorkerGet
    <2>2. Served(r) /\ r.processing = queue.processing \union {Head(queue.queue)}
      BY <1>1, <2>1, GetServed
    <2>3. queue.processing = {}
      BY <2>1 DEF Queued
    <2> QED
      BY <1>3, <1>4, <2>2, <2>3
  <1>5. CASE WorkerDone
    <2>1. r = QDone(queue, worker.key) /\ worker.key \in Key
      BY <1>2, <1>5, WorkerKinds DEF WorkerDone, TypeOK
    <2>2. Served(r) /\ r.processing = queue.processing \ {worker.key}
      BY <1>1, <2>1, DoneServed
    <2>3. r.processing = {}
      BY <2>2 DEF Queued
    <2> QED
      BY <1>3, <2>2, <2>3
  <1>6. CASE UNCHANGED queue /\ worker'.pc # "idle" /\ worker'.key = worker.key
    BY <1>6 DEF Queued
  <1> QED
    BY <1>4, <1>5, <1>6, WorkerTurns
-----------------------------------------------------------------------------
(* The pod of every key is known, or will be looked at.                     *)

LEMMA GrantedPod ==
  ASSUME TypeOK, Ends, NEW k \in Key, Granted(k) # {}
  PROVE  /\ api[k] \in Object /\ api[k] # NoPod
         /\ api[k].uid \in Pod /\ KeyOf[api[k].uid] = k
         /\ Live(api[k]) /\ api[k].node /\ ~api[k].done /\ GPUIDs(api[k]) # {}
  <1>1. Live(api[k]) /\ api[k].node /\ ~api[k].done /\ GPUIDs(api[k]) # {}
    BY DEF Granted, Live
  <1>2. api[k] \in Object /\ api[k].uid \in Pod /\ api[k] # NoPod
    BY <1>1, SlotHolds, NoPodIsFresh DEF TypeOK
  <1>3. KeyOf[api[k].uid] = k
    BY <1>2 DEF Ends, UnderOwnKey, Ahead
  <1> QED
    BY <1>1, <1>2, <1>3

LEMMA ComingReported ==
  ASSUME TypeOK, KnownOrComing, NEW k \in Key, NEW c \in Changes, Reports(k, c),
         UNCHANGED <<notes, queue, waiting, worker, known>>
  PROVE  KnownOrComing'
  <1>1. watch'[k] # << >>
    BY SeqType DEF Reports, TypeOK
  <1>2. \A j \in Key : j # k => api'[j] = api[j] /\ watch'[j] = watch[j]
    BY DEF Reports, TypeOK
  <1> QED
    BY <1>1, <1>2 DEF KnownOrComing, Coming, Granted

LEMMA ComingInformed ==
  ASSUME TypeOK, Ends, KnownOrComing, NEW k \in Key, InformsOf(k),
         UNCHANGED <<api, queue, waiting, worker, known>>
  PROVE  KnownOrComing'
  <1> SUFFICES ASSUME NEW j \in Key, Granted(j) # {}, api[j].uid \notin known
               PROVE  Coming(j)'
    BY DEF KnownOrComing, Granted
  <1>1. Coming(j)
    BY DEF KnownOrComing
  <1>2. api[j] # NoPod
    BY GrantedPod
  <1>3. CASE watch[j] # << >>
    BY <1>2, <1>3 DEF InformsOf, LastTold, Coming
  <1>4. CASE watch[j] = << >>
    BY <1>1, <1>4 DEF InformsOf, Coming
  <1> QED
    BY <1>3, <1>4

LEMMA ComingHandled ==
  ASSUME TypeOK, Ends, DeletedBetween, Queued, KnownOrComing, Handler
  PROVE  KnownOrComing' /\ Queued'
  <1>1. /\ notes # << >> /\ notes \in Seq(Notes) /\ note = notes[1] /\ 1 \in DOMAIN notes
        /\ UNCHANGED <<api, watch, waiting, worker, known>>
        /\ notes' = notes \/ notes' = Tail(notes)
    BY Tailed
    DEF Handler, HandleAdd, HandleUpdate, HandleRecheck, HandleDelete,
        HandleStore, Handling, TypeOK, cluster, cache, note
  <1>2. note \in Notes /\ NoteKey(note) \in Key
    <2>1. notes[1] \in Notes
      BY <1>1, LenProperties
    <2>2. note \in Notes /\ note.new.uid \in Pod
      BY <1>1, <2>1 DEF Notes, Object
    <2> QED
      BY <2>2, KeyOfAssumption DEF NoteKey
  <1>3. queue' \in {queue, QAdd(queue, NoteKey(note))}
    BY DEF Handler, HandleAdd, HandleUpdate, HandleRecheck, HandleDelete, HandleStore
  <1>4. /\ Queued' /\ queue.dirty \subseteq queue'.dirty
        /\ queue' = QAdd(queue, NoteKey(note)) => NoteKey(note) \in queue'.dirty
    BY <1>1, <1>2, <1>3, QueuedAdded
  <1>5. ASSUME NEW j \in Key, Granted(j) # {}, api[j].uid \notin known
        PROVE  Coming(j)'
    <2>1. Coming(j)
      BY <1>5 DEF KnownOrComing
    <2>2. CASE notes' = notes
      BY <1>1, <1>4, <2>1, <2>2 DEF Coming
    <2>3. CASE notes' = Tail(notes)
      <3>1. ASSUME NEW i \in DOMAIN notes, notes[i].type # "delete",
                   notes[i].new.uid = api[j].uid
            PROVE  Coming(j)'
        <4>1. CASE i = 1
          <5>1. NoteKey(note) = j /\ note.type # "delete"
            BY <1>1, <1>5, <3>1, <4>1, GrantedPod DEF NoteKey
          <5>2. queue' = QAdd(queue, j)
            <6>1. CASE HandleAdd \/ HandleDelete
              BY <5>1, <6>1 DEF HandleAdd, HandleDelete
            <6>2. CASE HandleRecheck
              <7>1. note.type = "update"
                BY <6>2 DEF HandleRecheck, Ends, HandlerInPlace
              <7>2. note.old.uid = api[j].uid
                BY <1>1, <3>1, <4>1, <7>1 DEF DeletedBetween
              <7> QED
                BY <1>5, <5>1, <6>2, <7>2 DEF HandleRecheck
            <6>3. CASE HandleUpdate
              <7>1. Len(notes') = Len(notes) /\ Len(Tail(notes)) = Len(notes) - 1
                BY <1>1, <6>3, HeadTailProperties DEF HandleUpdate, Handling
              <7> QED
                BY <1>1, <2>3, <7>1, LenProperties
            <6>4. ~HandleStore
              BY <5>1 DEF HandleStore, Ends, HandlerInPlace
            <6> QED
              BY <6>1, <6>2, <6>3, <6>4 DEF Handler
          <5> QED
            BY <1>4, <5>1, <5>2 DEF Coming
        <4>2. CASE i # 1
          <5>1. PICK m : m = i - 1
            OBVIOUS
          <5>2. m \in DOMAIN notes' /\ notes'[m] = notes[i]
            <6>1. i \in 1 .. Len(notes) /\ Len(notes) \in Nat
              BY <1>1, LenProperties
            <6>2. m \in 1 .. Len(notes) - 1 /\ m + 1 = i
              BY <4>2, <5>1, <6>1
            <6> QED
              BY <1>1, <2>3, <6>2, Tailed
          <5> QED
            BY <1>1, <3>1, <5>2 DEF Coming
        <4> QED
          BY <4>1, <4>2
      <3> QED
        BY <1>1, <1>4, <2>1, <3>1 DEF Coming
    <2> QED
      BY <1>1, <2>2, <2>3
  <1> QED
    BY <1>1, <1>4, <1>5 DEF KnownOrComing, Granted

LEMMA ComingWorked ==
  ASSUME TypeOK, Ends, NewestLast, DoneForGood, KnownOrComing, Worker
  PROVE  KnownOrComing'
  <1>1. UNCHANGED <<api, watch, lister, notes>>
    BY WorkerSteps
  <1>2. SUFFICES ASSUME NEW k \in Key, Granted(k) # {}, api[k].uid \notin known'
                 PROVE  Coming(k)'
    BY <1>1 DEF KnownOrComing, Granted
  <1>3. /\ Live(api[k]) /\ api[k] # NoPod /\ ~api[k].done /\ GPUIDs(api[k]) # {}
        /\ KeyOf[api[k].uid] = k
    BY <1>2, GrantedPod
  <1>4. UNCHANGED known \/ WorkerRemember \/ WorkerForget
    BY DEF Worker, WorkerGet, WorkerSync, WorkerLookup, WorkerDone, WorkerAddDevice,
           WorkerRemoveDevice, cache
  <1>5. api[k].uid \notin known
    <2>1. CASE WorkerForget
      <3>1. worker.pc = "remove" /\ known' = known \ {worker.pod.uid}
        BY <2>1 DEF WorkerForget
      <3>2. api[k].uid # worker.pod.uid
        BY <1>3, <3>1 DEF DoneForGood
      <3> QED
        BY <1>2, <3>1, <3>2
    <2> QED
      BY <1>2, <1>4, <2>1 DEF WorkerRemember
  <1>6. Coming(k)
    BY <1>2, <1>5 DEF KnownOrComing
  <1>7. waiting \subseteq waiting'
    BY DEF Worker, WorkerGet, WorkerSync, WorkerLookup, WorkerRemember, WorkerForget,
           WorkerDone, WorkerAddDevice, WorkerRemoveDevice
  <1>8. CASE watch[k] # << >> \/ k \in waiting \/
             \E i \in DOMAIN notes : notes[i].type # "delete" /\ notes[i].new.uid = api[k].uid
    BY <1>1, <1>7, <1>8 DEF Coming
  <1>9. CASE k \in queue.dirty
    <2>1. CASE WorkerGet /\ worker'.pc = "sync" /\ worker'.key = Head(queue.queue)
      <3>1. queue' = QGet(queue)
        BY <2>1 DEF WorkerGet
      <3>2. queue'.dirty = queue.dirty \ {Head(queue.queue)}
        BY <3>1 DEF QGet
      <3> QED
        BY <1>9, <2>1, <3>2 DEF Coming
    <2>2. CASE WorkerDone
      <3>1. queue' = QDone(queue, worker.key) /\ queue \in QueueOf(Key)
        BY <2>2 DEF WorkerDone, TypeOK
      <3>2. queue'.dirty = queue.dirty
        BY <3>1 DEF QDone, QueueOf
      <3> QED
        BY <1>9, <3>2 DEF Coming
    <2>3. CASE UNCHANGED queue
      BY <1>9, <2>3 DEF Coming
    <2> QED
      BY <2>1, <2>2, <2>3, WorkerTurns
  <1>10. CASE worker.key = k /\ worker.pc = "sync" /\ watch[k] = << >>
    <2>1. WorkerSync
      BY <1>10
      DEF Worker, WorkerGet, WorkerLookup, WorkerRemember, WorkerForget,
          WorkerDone, WorkerAddDevice, WorkerRemoveDevice
    <2>2. lister[worker.key] = api[k]
      BY <1>10 DEF NewestLast
    <2>3. \/ /\ worker' = [worker EXCEPT !.pc = "add", !.pod = api[k], !.rest = GPUIDs(api[k])]
          \/ waiting' = waiting \union {k}
      BY <1>3, <1>10, <2>1, <2>2 DEF WorkerSync, Live, Working
    <2>4. CASE worker' = [worker EXCEPT !.pc = "add", !.pod = api[k], !.rest = GPUIDs(api[k])]
      <3>1. PICK o, r : o = api[k] /\ r = GPUIDs(api[k])
        OBVIOUS
      <3>2. worker' = [worker EXCEPT !.pc = "add", !.pod = o, !.rest = r]
        BY <2>4, <3>1
      <3>3. worker = [pc |-> "sync", key |-> k, pod |-> NoPod, rest |-> {}, stored |-> FALSE]
        BY <1>10, WorkerKinds DEF TypeOK
      <3>4. worker' = [pc |-> "add", key |-> k, pod |-> o, rest |-> r, stored |-> FALSE]
        BY <3>2, <3>3
      <3>5. worker'.pc = "add" /\ worker'.key = k /\ worker'.pod = o
        BY <3>4
      <3> QED
        BY <1>1, <3>1, <3>5 DEF Coming
    <2>5. CASE waiting' = waiting \union {k}
      BY <2>5 DEF Coming
    <2> QED
      BY <2>3, <2>4, <2>5
  <1>11. CASE worker.key = k /\ worker.pc = "add" /\ worker.pod.uid = api[k].uid
    <2>1. WorkerRemember \/ \E g \in GPU : WorkerAddDevice(g)
      BY <1>11
      DEF Worker, WorkerGet, WorkerSync, WorkerLookup, WorkerForget, WorkerDone,
          WorkerRemoveDevice
    <2>2. CASE WorkerRemember
      BY <1>2, <1>11, <2>2 DEF WorkerRemember
    <2>3. ASSUME NEW g \in GPU, WorkerAddDevice(g)
          PROVE  Coming(k)'
      <3>1. worker' = [worker EXCEPT !.rest = @ \ {g}]
        BY <2>3 DEF WorkerAddDevice, Working
      <3>2. worker \in [pc : {"add", "remove"}, key : Key, pod : Object,
                        rest : SUBSET GPU, stored : BOOLEAN]
        BY <1>11, WorkerKinds DEF TypeOK
      <3>3. worker'.pc = worker.pc /\ worker'.key = worker.key /\ worker'.pod = worker.pod
        BY <3>1, <3>2
      <3> QED
        BY <1>1, <1>11, <3>3 DEF Coming
    <2> QED
      BY <2>1, <2>2, <2>3
  <1> QED
    BY <1>6, <1>8, <1>9, <1>10, <1>11 DEF Coming

LEMMA NotifiedFires ==
  ASSUME TypeOK, Notified, NEW k \in Key, WaitingFires(k)
  PROVE  Notified'
  <1>1. /\ UNCHANGED <<api, born, watch, lister, notes, removed, worker, known>>
        /\ queue' = QAdd(queue, k) /\ waiting' = waiting \ {k}
    BY DEF WaitingFires, cluster, informer, cache
  <1>2. Queued' /\ queue.dirty \subseteq queue'.dirty /\ k \in queue'.dirty
    BY <1>1, QueuedAdded DEF Notified
  <1>3. NewestLast' /\ DeletedBetween'
    BY <1>1, NewestSame DEF Notified
  <1>4. DoneForGood'
    BY <1>1 DEF Notified, DoneForGood, Ahead
  <1>5. KnownOrComing'
    BY <1>1, <1>2 DEF Notified, KnownOrComing, Coming, Granted
  <1> QED
    BY <1>2, <1>3, <1>4, <1>5 DEF Notified

LEMMA NotifiedCrash ==
  ASSUME TypeOK, Ends, CrashRestart
  PROVE  Notified'
  <1>1. /\ worker'.pc = "idle" /\ lister' = api /\ UNCHANGED api /\ notes' = << >>
        /\ \A k \in Key : watch'[k] = << >>
        /\ queue' \in FirstQueues(api) /\ known' = BuiltKnown(api)
    BY DEF CrashRestart, cluster, IdleWorker
  <1>2. NewestLast' /\ DeletedBetween'
    BY <1>1 DEF NewestLast, DeletedBetween
  <1>3. Queued'
    <2>1. PICK q \in FirstQueues(api) : q = queue'
      BY <1>1
    <2>2. Served(q) /\ q.processing = {}
      BY FirstServed DEF TypeOK
    <2> QED
      BY <2>1, <2>2 DEF Queued, Served, Waits
  <1>4. ASSUME NEW k \in Key, Granted(k) # {}
        PROVE  api[k].uid \in known'
    BY <1>1, <1>4, GrantedPod DEF BuiltKnown, Listed
  <1>5. KnownOrComing'
    BY <1>1, <1>4 DEF KnownOrComing, Granted
  <1> QED
    BY <1>2, <1>3, <1>5, DoneCrash DEF Notified

LEMMA NotifiedInit ==
  ASSUME Init
  PROVE  Notified
  <1>1. \A k \in Key : api[k] = NoPod \/ \E p : api[k] = NewPod(p)
    BY DEF Init
  <1>2. \A k \in Key : ~api[k].node /\ ~api[k].done
    <2>1. \A p : ~NewPod(p).node /\ ~NewPod(p).done
      BY DEF NewPod
    <2> QED
      BY <1>1, <2>1, NoPodIsFresh
  <1>3. /\ lister = api /\ notes = << >> /\ worker.pc = "idle"
        /\ \A k \in Key : watch[k] = << >>
        /\ queue \in FirstQueues(api)
    BY DEF Init, IdleWorker
  <1>4. NewestLast /\ DeletedBetween
    BY <1>3 DEF NewestLast, DeletedBetween
  <1>5. Queued
    <2>1. api \in [Key -> Slot]
      BY InitType DEF TypeOK
    <2>2. Served(queue) /\ queue.processing = {}
      BY <1>3, <2>1, FirstServed
    <2> QED
      BY <2>2 DEF Queued, Served, Waits
  <1>6. DoneForGood
    BY <1>2, <1>3 DEF DoneForGood, Ahead
  <1>7. KnownOrComing
    BY <1>2 DEF KnownOrComing, Granted, Live
  <1> QED
    BY <1>4, <1>5, <1>6, <1>7 DEF Notified

\* a step that changes a pod at the API server, or none
LEMMA NotifiedReported ==
  ASSUME TypeOK, Ends, Notified,
         UNCHANGED <<lister, notes, queue, waiting, worker, known>>, born \subseteq born',
         UNCHANGED <<api, watch>> \/ \E k \in Key, c \in Changes : Reports(k, c)
  PROVE  Notified'
  <1>1. Queued'
    BY QueuedSame DEF Notified
  <1>2. CASE UNCHANGED <<api, watch>>
    <2>1. NewestLast' /\ DeletedBetween'
      BY <1>2, NewestSame DEF Notified
    <2>2. DoneForGood'
      BY <1>2 DEF Notified, DoneForGood, Ahead
    <2>3. KnownOrComing'
      BY <1>2 DEF Notified, KnownOrComing, Coming, Granted
    <2> QED
      BY <1>1, <2>1, <2>2, <2>3 DEF Notified
  <1>3. ASSUME NEW k \in Key, NEW c \in Changes, Reports(k, c)
        PROVE  Notified'
    <2>1. c.kind = "set" => api[k].uid \in {None, c.obj.uid}
      BY <1>3, NoPodIsNoObject DEF Reports
    <2>2. NewestLast' /\ DeletedBetween'
      BY <1>3, <2>1, NewestStored DEF Notified, Reports
    <2>3. DoneForGood'
      BY <1>3, DoneStored DEF Notified
    <2>4. KnownOrComing'
      BY <1>3, ComingReported DEF Notified
    <2> QED
      BY <1>1, <2>2, <2>3, <2>4 DEF Notified
  <1> QED
    BY <1>2, <1>3

LEMMA NotifiedStep ==
  ASSUME NamesTellPods, TypeOK, Ends, Notified, [Next]_vars
  PROVE  Notified'
  <1>1. CASE UNCHANGED vars
    BY <1>1, NotifiedReported, Unchanged
  <1>2. CASE Cluster
    BY <1>2, NotifiedReported, ClusterReports
  <1>3. ASSUME NEW b \in Binder, Bind(b) \/ \E p \in Pod : BindRequest(b, p)
        PROVE  Notified'
    BY <1>3, NotifiedReported, BindReports
  <1>4. CASE Informer
    <2>1. PICK k \in Key : InformsOf(k)
      BY <1>4, DeliverInforms, RelistInforms, ResyncInforms DEF Informer, Notified
    <2>2. UNCHANGED <<api, queue, waiting, worker, known>>
      BY <1>4 DEF Informer, Deliver, Relist, Resync, Apply, cluster, control, cache
    <2>3. KnownOrComing'
      BY <2>1, <2>2, ComingInformed DEF Notified
    <2>4. Queued'
      BY <2>2, QueuedSame DEF Notified
    <2> QED
      BY <1>4, <2>1, <2>3, <2>4, DoneInformer DEF Notified, InformsOf
  <1>5. CASE Handler
    <2>1. /\ UNCHANGED <<api, born, watch, lister, worker>>
          /\ \A i \in DOMAIN notes' : \E j \in DOMAIN notes : notes'[i] = notes[j]
      <3>1. /\ notes # << >> /\ notes \in Seq(Notes)
            /\ UNCHANGED <<api, born, watch, lister, worker>>
            /\ notes' = notes \/ notes' = Tail(notes)
        BY <1>5 DEF Handler, HandleAdd, HandleUpdate, HandleRecheck, HandleDelete,
                    HandleStore, Handling, TypeOK, cluster
      <3> QED
        BY <3>1, Tailed
    <2>2. NewestLast' /\ DeletedBetween'
      BY <2>1, NewestSame DEF Notified
    <2>3. DoneForGood'
      BY <2>1 DEF Notified, DoneForGood, Ahead
    <2> QED
      BY <1>5, <2>2, <2>3, ComingHandled DEF Notified
  <1>6. CASE Worker
    <2>1. UNCHANGED <<api, watch, lister, notes>>
      BY <1>6, WorkerSteps
    <2>2. NewestLast' /\ DeletedBetween'
      BY <2>1, NewestSame DEF Notified
    <2> QED
      BY <1>6, <2>2, DoneWorker, QueuedWorker, ComingWorked DEF Notified
  <1> QED
    BY <1>1, <1>2, <1>3, <1>4, <1>5, <1>6, NotifiedFires, NotifiedCrash DEF Next

\* the ends of pods need no hypothesis about the environment
LEMMA EndsHold == Spec => []Ends
  BY EndsInit, EndsStep, TypeCorrect, PTL DEF Spec

(***************************************************************************)
(* The watch ends with what the API server has, a key in `dirty` is in the *)
(* queue or with the worker, and the pod of every key is known or its last *)
(* change is on its way to be looked at: the inductive invariant of        *)
(* controller.go:166-345 with the work queue and the informer together.    *)
(***************************************************************************)
THEOREM NotifiedHolds ==
  ASSUME NamesTellPods
  PROVE  Spec => []Notified
  <1>1. Init => Notified
    BY NotifiedInit
  <1>2. TypeOK /\ Ends /\ Notified /\ [Next]_vars => Notified'
    BY NotifiedStep
  <1> QED
    BY <1>1, <1>2, TypeCorrect, EndsHold, PTL DEF Spec

(***************************************************************************)
(* No notification is lost: when all is handled, every running pod with a  *)
(* readable annotation is in knownPods, whatever was restarted, listed     *)
(* again, retried or lost on the way.                                      *)
(***************************************************************************)
THEOREM KnownWhenSettled ==
  ASSUME NamesTellPods
  PROVE  Spec => []RunningIsKnown
  <1>1. TypeOK /\ Notified => RunningIsKnown
    <2> SUFFICES ASSUME Notified, Settled, NEW k \in Key, Granted(k) # {}
                 PROVE  api[k].uid \in known
      BY DEF RunningIsKnown
    <2>1. /\ watch[k] = << >> /\ notes = << >> /\ queue.queue = << >>
          /\ waiting = {} /\ worker.pc = "idle"
      BY DEF Settled
    <2>2. queue.processing = {} /\ queue.dirty = {}
      BY <2>1 DEF Notified, Queued
    <2>3. ~Coming(k)
      BY <2>1, <2>2 DEF Coming
    <2> QED
      BY <2>3 DEF Notified, KnownOrComing
  <1> QED
    BY <1>1, TypeCorrect, NotifiedHolds, PTL
=============================================================================
