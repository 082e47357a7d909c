------------------------ MODULE ExtenderSafetyProofs ------------------------
(* Proofs about ExtenderInvariants.tla.                                     *)
EXTENDS ExtenderProofs, ExtenderInvariants

-----------------------------------------------------------------------------
(* Sequences, and what is ahead of the handlers.                            *)

LEMMA Appended ==
  ASSUME NEW S, NEW s \in Seq(S), NEW e \in S
  PROVE  /\ Len(s) \in Nat /\ DOMAIN s = 1 .. Len(s)
         /\ DOMAIN Append(s, e) = 1 .. Len(s) + 1
         /\ \A i \in DOMAIN s : Append(s, e)[i] = s[i]
         /\ Append(s, e)[Len(s) + 1] = e
  <1>1. Len(s) \in Nat /\ DOMAIN s = 1 .. Len(s)
    BY LenProperties
  <1>2. /\ Append(s, e) \in Seq(S) /\ Len(Append(s, e)) = Len(s) + 1
        /\ \A i \in 1 .. Len(s) : Append(s, e)[i] = s[i]
        /\ Append(s, e)[Len(s) + 1] = e
    BY AppendProperties
  <1>3. DOMAIN Append(s, e) = 1 .. Len(Append(s, e))
    BY <1>2, LenProperties
  <1> QED
    BY <1>1, <1>2, <1>3

LEMMA Tailed ==
  ASSUME NEW S, NEW s \in Seq(S), s # << >>
  PROVE  /\ Len(s) \in Nat /\ DOMAIN s = 1 .. Len(s) /\ 1 \in DOMAIN s
         /\ Head(s) = s[1]
         /\ DOMAIN Tail(s) = 1 .. Len(s) - 1
         /\ \A i \in DOMAIN Tail(s) : i + 1 \in DOMAIN s /\ Tail(s)[i] = s[i + 1]
  <1>1. Len(s) \in Nat /\ DOMAIN s = 1 .. Len(s) /\ Len(s) # 0
    BY LenProperties, EmptySeq
  <1>2. /\ Tail(s) \in Seq(S) /\ Len(Tail(s)) = Len(s) - 1
        /\ \A i \in 1 .. Len(Tail(s)) : Tail(s)[i] = s[i + 1]
    BY HeadTailProperties
  <1>3. DOMAIN Tail(s) = 1 .. Len(Tail(s))
    BY <1>2, LenProperties
  <1>4. Head(s) = s[1]
    BY HeadTailProperties
  <1> QED
    BY <1>1, <1>2, <1>3, <1>4

LEMMA WatchHolds ==
  ASSUME TypeOK, NEW k \in Key
  PROVE  /\ watch[k] \in Seq(Changes)
         /\ \A i \in DOMAIN watch[k] : /\ watch[k][i] \in Changes
                                       /\ watch[k][i].obj \in Object
                                       /\ watch[k][i].obj.uid \in Pod
  <1>1. watch[k] \in Seq(Changes)
    BY DEF TypeOK
  <1>2. \A i \in DOMAIN watch[k] : watch[k][i] \in Changes
    BY <1>1, LenProperties
  <1> QED
    BY <1>1, <1>2 DEF Changes, Object

LEMMA AheadHolds ==
  ASSUME TypeOK, NEW k \in Key
  PROVE  \A o \in Ahead(k) : o \in Slot
  BY WatchHolds DEF Ahead, TypeOK, Slot

LEMMA DeletionsHold ==
  ASSUME TypeOK
  PROVE  /\ Deletions \subseteq DOMAIN notes
         /\ \A i \in DOMAIN notes : /\ notes[i] \in Notes
                                    /\ notes[i].new \in Object
                                    /\ notes[i].new.uid \in Pod
                                    /\ KeyOf[notes[i].new.uid] \in Key
  <1>1. \A i \in DOMAIN notes : notes[i] \in Notes
    BY LenProperties DEF TypeOK
  <1>2. \A o \in Object : o.uid \in Pod /\ KeyOf[o.uid] \in Key
    BY KeyOfAssumption DEF Object
  <1> QED
    BY <1>1, <1>2 DEF Deletions, Notes

\* once past, always past: what comes up later is a new pod
LEMMA PastStays ==
  ASSUME TypeOK, born \subseteq born',
         \A k \in Key : \A o \in Ahead(k)' :
           o.uid \notin born \/ \E q \in Ahead(k) : q.uid = o.uid
  PROVE  \A p : Past(p) => Past(p)'
  <1> SUFFICES ASSUME NEW p, Past(p) PROVE Past(p)'
    OBVIOUS
  <1>1. p \in born /\ KeyOf[p] \in Key
    BY KeyOfAssumption DEF Past, TypeOK
  <1> QED
    BY <1>1 DEF Past
-----------------------------------------------------------------------------
(* Ends are reported once: Ends is inductive by itself.                     *)

\* the parts of the state Ends is about
EndVars == <<api, lister, watch, born, notes, handler, removed, worker>>

LEMMA EndsUnchanged ==
  ASSUME Ends, UNCHANGED EndVars
  PROVE  Ends'
  BY DEF EndVars, Ends, UnderOwnKey, DeletedLast, EndedOnce, Handled, Past, Ahead,
         Deletions, HandlerInPlace, note

LEMMA EndsInit == Init => Ends
  <1> SUFFICES ASSUME Init PROVE Ends
    OBVIOUS
  <1>1. /\ notes = << >> /\ worker.pc = "idle" /\ handler.pc = "idle" /\ lister = api
        /\ \A k \in Key : watch[k] = << >> /\ removed[k] = NoPod
    BY DEF Init, IdleWorker, IdleHandler
  <1>2. Deletions = {} /\ \A k \in Key : Ahead(k) = {api[k]}
    BY <1>1 DEF Deletions, Ahead
  <1>3. \A k \in Key : api[k] # NoPod => api[k].uid \in born /\ KeyOf[api[k].uid] = k
    <2> SUFFICES ASSUME NEW k \in Key, api[k] # NoPod
                 PROVE  api[k].uid \in born /\ KeyOf[api[k].uid] = k
      OBVIOUS
    <2>1. \E p \in First : KeyOf[p] = k
      BY DEF Init
    <2>2. api[k] = NewPod(CHOOSE p \in First : KeyOf[p] = k)
      BY <2>1 DEF Init
    <2> QED
      BY <2>1, <2>2 DEF Init, NewPod
  <1> QED
    BY <1>1, <1>2, <1>3
    DEF Ends, UnderOwnKey, DeletedLast, EndedOnce, HandlerInPlace

\* an object under k is stored, created or deleted, and the watch is told
LEMMA EndsStored ==
  ASSUME TypeOK, Ends, NEW k \in Key, NEW c \in Changes,
         api' = [api EXCEPT ![k] = IF c.kind = "del" THEN NoPod ELSE c.obj],
         watch' = [watch EXCEPT ![k] = Append(@, c)],
         UNCHANGED <<lister, notes, handler, removed, worker>>,
         born \subseteq born', c.obj.uid \in born', KeyOf[c.obj.uid] = k,
         c.obj.uid = api[k].uid \/ (c.obj.uid \notin born /\ c.kind = "set")
  PROVE  Ends'
  <1>1. /\ c.obj \in Object /\ c.kind \in {"set", "del"}
        /\ c.obj.uid \in Pod /\ None \notin Pod
    BY NoneAssumption DEF Changes, Object
  <1>2. /\ watch \in [Key -> Seq(Changes)] /\ api \in [Key -> Slot]
        /\ api'[k] = IF c.kind = "del" THEN NoPod ELSE c.obj
        /\ watch'[k] = Append(watch[k], c)
        /\ \A j \in Key : j # k => api'[j] = api[j] /\ watch'[j] = watch[j]
    BY DEF TypeOK
  <1> DEFINE n == Len(watch[k])
  <1>3. /\ n \in Nat /\ DOMAIN watch[k] = 1 .. n /\ DOMAIN watch'[k] = 1 .. n + 1
        /\ \A i \in DOMAIN watch[k] : watch'[k][i] = watch[k][i]
        /\ watch'[k][n + 1] = c
    BY <1>2, Appended
  <1> HIDE DEF n
  <1>4. \A j \in Key : \A o \in Ahead(j)' :
          o \in Ahead(j) \/ (j = k /\ (o = c.obj \/ o = NoPod))
    BY <1>2, <1>3 DEF Ahead
  <1>5. \A p : Past(p) => Past(p)'
    <2>1. NoPod.uid \notin born
      BY NoPodIsNoObject, NoneAssumption DEF TypeOK
    <2>2. api[k] \in Ahead(k)
      BY DEF Ahead
    <2> QED
      BY <1>4, <2>1, <2>2, PastStays
  <1>6. UnderOwnKey'
    BY <1>4 DEF Ends, UnderOwnKey
  <1>7. DeletedLast'
    <2> SUFFICES ASSUME NEW j \in Key, NEW i \in DOMAIN watch'[j],
                        watch'[j][i].kind = "del"
                 PROVE  /\ watch'[j][i].obj.uid # api'[j].uid
                        /\ \A m \in DOMAIN watch'[j] :
                             i < m => watch'[j][m].obj.uid # watch'[j][i].obj.uid
      BY DEF DeletedLast
    <2>1. CASE j # k
      BY <1>2, <2>1 DEF Ends, DeletedLast
    <2>2. CASE j = k /\ i \in DOMAIN watch[k]
      <3>1. /\ watch[k][i].kind = "del" /\ watch'[k][i] = watch[k][i]
            /\ watch[k][i].obj.uid \in born
        <4>1. watch[k][i].obj \in Ahead(k) /\ watch[k][i].obj # NoPod
          BY <2>2, WatchHolds, NoPodIsNoObject DEF Ahead
        <4> QED
          BY <1>3, <2>2, <4>1 DEF Ends, UnderOwnKey
      <3>2. watch[k][i].obj.uid # c.obj.uid
        BY <2>2, <3>1 DEF Ends, DeletedLast
      <3>3. watch[k][i].obj.uid # api'[k].uid
        BY <1>2, <3>1, <3>2, NoPodIsNoObject, NoneAssumption DEF TypeOK
      <3>4. ASSUME NEW m \in DOMAIN watch'[k], i < m
            PROVE  watch'[k][m].obj.uid # watch[k][i].obj.uid
        <4>1. m \in DOMAIN watch[k] \/ m = n + 1
          BY <1>3
        <4> QED
          BY <1>3, <2>2, <3>1, <3>2, <3>4, <4>1 DEF Ends, DeletedLast
      <3> QED
        BY <2>2, <3>1, <3>3, <3>4
    <2>3. CASE j = k /\ i = n + 1
      <3>1. watch'[k][i] = c /\ api'[k] = NoPod
        BY <1>2, <1>3, <2>3
      <3>2. \A m \in DOMAIN watch'[k] : ~(i < m)
        BY <1>3, <2>3
      <3> QED
        BY <1>1, <2>3, <3>1, <3>2, NoPodIsNoObject
    <2> QED
      BY <1>3, <2>1, <2>2, <2>3
  <1>8. EndedOnce'
    BY <1>5 DEF Ends, EndedOnce, Handled, Deletions
  <1> QED
    BY <1>6, <1>7, <1>8 DEF Ends, HandlerInPlace, note

\* what the informer has of k becomes o, which was ahead of the handlers before
LEMMA Applied ==
  ASSUME TypeOK, Ends, NEW k \in Key, NEW o \in Ahead(k) \union {NoPod},
         lister' = [lister EXCEPT ![k] = o],
         watch' \in {watch, [watch EXCEPT ![k] = << >>]}
           \/ (watch[k] # << >> /\ watch' = [watch EXCEPT ![k] = Tail(@)]),
         UNCHANGED <<api, born, removed, worker>>
  PROVE  /\ UnderOwnKey' /\ DeletedLast'
         /\ \A p : Past(p) => Past(p)'
         /\ \A j \in Key : \A q \in Ahead(j)' : q \in Ahead(j) \/ q = NoPod
  <1>1. /\ watch \in [Key -> Seq(Changes)] /\ lister \in [Key -> Slot]
        /\ lister'[k] = o
        /\ \A j \in Key : j # k => lister'[j] = lister[j] /\ watch'[j] = watch[j]
    BY DEF TypeOK
  <1>2. \/ watch'[k] = watch[k]
        \/ watch'[k] = << >>
        \/ watch[k] # << >> /\ watch'[k] = Tail(watch[k])
    BY <1>1
  <1>3. PICK d \in {0, 1} : \A i \in DOMAIN watch'[k] :
          /\ i \in Nat /\ i + d \in DOMAIN watch[k]
          /\ watch'[k][i] = watch[k][i + d]
    <2>1. CASE watch'[k] = watch[k]
      <3>1. \A i \in DOMAIN watch[k] : i \in Nat /\ i + 0 = i
        BY <1>1, LenProperties
      <3> QED
        BY <2>1, <3>1
    <2>2. CASE watch'[k] = << >>
      BY <2>2
    <2>3. CASE watch[k] # << >> /\ watch'[k] = Tail(watch[k])
      <3>1. \A i \in DOMAIN Tail(watch[k]) :
              i \in Nat /\ i + 1 \in DOMAIN watch[k] /\ Tail(watch[k])[i] = watch[k][i + 1]
        BY <1>1, <2>3, Tailed
      <3> QED
        BY <2>3, <3>1
    <2> QED
      BY <1>2, <2>1, <2>2, <2>3
  <1>4. \A j \in Key : \A q \in Ahead(j)' : q \in Ahead(j) \/ q = NoPod
    <2> SUFFICES ASSUME NEW j \in Key, NEW q \in Ahead(j)', q # NoPod
                 PROVE  q \in Ahead(j)
      OBVIOUS
    <2>1. CASE j # k
      BY <1>1, <2>1 DEF Ahead
    <2>2. CASE j = k
      <3>1. q \in {api[k], o} \/ \E i \in DOMAIN watch'[k] : q = watch'[k][i].obj
        BY <1>1, <2>2 DEF Ahead
      <3> QED
        BY <1>3, <2>2, <3>1 DEF Ahead
    <2> QED
      BY <2>1, <2>2
  <1>5. UnderOwnKey'
    BY <1>4 DEF Ends, UnderOwnKey
  <1>6. DeletedLast'
    <2> SUFFICES ASSUME NEW j \in Key, NEW i \in DOMAIN watch'[j],
                        watch'[j][i].kind = "del"
                 PROVE  /\ watch'[j][i].obj.uid # api[j].uid
                        /\ \A m \in DOMAIN watch'[j] :
                             i < m => watch'[j][m].obj.uid # watch'[j][i].obj.uid
      BY DEF DeletedLast
    <2>1. CASE j # k
      BY <1>1, <2>1 DEF Ends, DeletedLast
    <2>2. CASE j = k
      <3>1. /\ i \in Nat /\ i + d \in DOMAIN watch[k]
            /\ watch'[k][i] = watch[k][i + d]
        BY <1>3, <2>2
      <3>2. watch'[k][i].obj.uid # api[k].uid
        BY <2>2, <3>1 DEF Ends, DeletedLast
      <3>3. ASSUME NEW m \in DOMAIN watch'[k], i < m
            PROVE  watch'[k][m].obj.uid # watch'[k][i].obj.uid
        <4>1. /\ m \in Nat /\ m + d \in DOMAIN watch[k]
              /\ watch'[k][m] = watch[k][m + d]
          BY <1>3, <3>3
        <4>2. i + d < m + d
          BY <3>1, <3>3, <4>1
        <4> QED
          BY <2>2, <3>1, <4>1, <4>2 DEF Ends, DeletedLast
      <3> QED
        BY <2>2, <3>2, <3>3
    <2> QED
      BY <2>1, <2>2
  <1>7. \A p : Past(p) => Past(p)'
    <2>1. NoPod.uid \notin born
      BY NoPodIsNoObject, NoneAssumption DEF TypeOK
    <2> QED
      BY <1>4, <2>1, PastStays
  <1> QED
    BY <1>4, <1>5, <1>6, <1>7

\* a notification that is no deletion, or the deletion of a pod that was ahead
LEMMA EndsNoted ==
  ASSUME TypeOK, Ends, UnderOwnKey', DeletedLast', \A p : Past(p) => Past(p)',
         NEW n \in Notes, NEW u, n.new.uid = u, notes' = Append(notes, n),
         UNCHANGED <<handler, removed, worker>>,
         n.type = "delete" => Past(u)' /\ ~Past(u)
  PROVE  Ends'
  <1> DEFINE m == Len(notes)
  <1>1. /\ notes \in Seq(Notes) /\ m \in Nat
        /\ DOMAIN notes = 1 .. m /\ DOMAIN notes' = 1 .. m + 1
        /\ \A i \in DOMAIN notes : notes'[i] = notes[i]
        /\ notes'[m + 1] = n
    BY Appended DEF TypeOK
  <1> HIDE DEF m
  <1>2. \A i \in Deletions' :
          \/ i \in Deletions /\ notes'[i] = notes[i]
          \/ i = m + 1 /\ notes'[i] = n /\ n.type = "delete"
    <2>1. \A i \in DOMAIN notes' : i \in DOMAIN notes \/ i = m + 1
      BY <1>1
    <2> QED
      BY <1>1, <2>1 DEF Deletions
  <1>3. n.type = "delete" => \A p : Past(p) => p # u
    BY DEF Past
  <1>4. \A i \in Deletions' : \A p : p = notes'[i].new.uid => Past(p)'
    <2> SUFFICES ASSUME NEW i \in Deletions', NEW p, p = notes'[i].new.uid
                 PROVE  Past(p)'
      OBVIOUS
    <2>1. CASE i \in Deletions /\ notes'[i] = notes[i]
      BY <2>1 DEF Ends, EndedOnce
    <2>2. CASE i = m + 1 /\ notes'[i] = n /\ n.type = "delete"
      BY <2>2
    <2> QED
      BY <1>2, <2>1, <2>2
  <1>5. \A i, j \in Deletions' : notes'[i].new.uid = notes'[j].new.uid => i = j
    BY <1>2, <1>3 DEF Ends, EndedOnce
  <1>6. \A p : Handled(p) => Handled(p)'
    BY <1>2, <1>3 DEF Handled
  <1>7. EndedOnce'
    BY <1>4, <1>5, <1>6 DEF Ends, EndedOnce, Past
  <1>8. HandlerInPlace'
    <2>1. handler.pc # "idle" => notes # << >>
      BY DEF TypeOK
    <2>2. ASSUME handler.pc # "idle"
          PROVE  note' = note
      <3>1. 1 \in DOMAIN notes /\ Head(notes) = notes[1]
        BY <1>1, <2>1, <2>2, Tailed
      <3>2. notes' \in Seq(Notes) /\ notes' # << >>
        BY <1>1, SeqType
      <3>3. Head(notes') = notes'[1]
        BY <3>2, Tailed
      <3> QED
        BY <1>1, <3>1, <3>3 DEF note
    <2> QED
      BY <2>2 DEF Ends, HandlerInPlace
  <1> QED
    BY <1>7, <1>8 DEF Ends

\* the informer's copy under k becomes o, and n is notified
Informs(k, o, n) ==
  /\ lister' = [lister EXCEPT ![k] = o] /\ o \in Ahead(k) \union {NoPod}
  /\ watch' \in {watch, [watch EXCEPT ![k] = << >>]}
       \/ (watch[k] # << >> /\ watch' = [watch EXCEPT ![k] = Tail(@)])
  /\ notes' = Append(notes, n)
  /\ n.type = "delete" =>
       /\ n.new \in Ahead(k) /\ n.new # NoPod
       /\ o = NoPod /\ n.new.uid # api[k].uid
       /\ \A i \in DOMAIN watch'[k] : watch'[k][i].obj.uid # n.new.uid

\* a list that shows nothing new
InformsNothing(k) ==
  /\ lister' = [lister EXCEPT ![k] = NoPod] /\ UNCHANGED <<lister, notes>>
  /\ watch' = [watch EXCEPT ![k] = << >>]

LEMMA InformerSteps ==
  ASSUME TypeOK, Ends, Informer
  PROVE  /\ UNCHANGED <<api, born, handler, removed, worker>>
         /\ UNCHANGED <<known, podMap, isUsed, bind, mutex>>
         /\ \E k \in Key : InformsNothing(k) \/ \E o \in Slot, n \in Notes : Informs(k, o, n)
  <1>1. \A k, o, n : Apply(k, o, n) => UNCHANGED <<cluster, control, cache, bind, mutex>>
    BY DEF Apply
  <1>2. UNCHANGED <<cluster, control, cache, bind, mutex>>
    BY <1>1 DEF Informer, Deliver, Relist, Resync, Apply
  <1> SUFFICES \E k \in Key :
                 InformsNothing(k) \/ \E o \in Slot, n \in Notes : Informs(k, o, n)
    BY <1>2 DEF cluster, control, cache
  <1>3. ASSUME NEW k \in Key, Deliver(k)
        PROVE  \E o \in Slot, n \in Notes : Informs(k, o, n)
    <2> DEFINE c == watch[k][1]
    <2>1. /\ watch[k] # << >> /\ watch' = [watch EXCEPT ![k] = Tail(@)]
          /\ watch[k] \in Seq(Changes) /\ watch \in [Key -> Seq(Changes)]
      BY <1>3 DEF Deliver, TypeOK
    <2>2. /\ Head(watch[k]) = c /\ 1 \in DOMAIN watch[k]
          /\ \A i \in DOMAIN Tail(watch[k]) : /\ i \in Nat /\ i # 0
                                             /\ i + 1 \in DOMAIN watch[k]
                                             /\ Tail(watch[k])[i] = watch[k][i + 1]
      BY <2>1, Tailed
    <2>3. c.obj \in Ahead(k) /\ c.obj \in Object /\ c.kind \in {"set", "del"}
      BY <2>2, WatchHolds DEF Ahead, Changes
    <2>4. CASE c.kind = "set"
      <3>1. Apply(k, c.obj, SetNote(k, c.obj))
        BY <1>3, <2>2, <2>4 DEF Deliver
      <3>2. SetNote(k, c.obj) \in Notes /\ SetNote(k, c.obj).type # "delete"
        BY <2>3, NoteType DEF SetNote, Note
      <3>3. Informs(k, c.obj, SetNote(k, c.obj))
        BY <2>1, <2>3, <3>1, <3>2 DEF Informs, Apply
      <3> QED
        BY <2>3, <3>2, <3>3 DEF Slot
    <2>5. CASE c.kind = "del"
      <3>1. PICK n : n = Note("delete", NoPod, c.obj)
        OBVIOUS
      <3>2. n \in Notes /\ n.new = c.obj
        BY <2>3, <3>1, NoteType DEF Note
      <3>3. Apply(k, NoPod, n)
        BY <1>3, <2>2, <2>5, <3>1 DEF Deliver
      <3>4. /\ c.obj.uid # api[k].uid
            /\ \A i \in DOMAIN watch[k] : 1 < i => watch[k][i].obj.uid # c.obj.uid
        BY <2>2, <2>5 DEF Ends, DeletedLast
      <3>5. \A i \in DOMAIN watch'[k] : watch'[k][i].obj.uid # c.obj.uid
        <4>1. watch'[k] = Tail(watch[k])
          BY <2>1
        <4> QED
          BY <2>2, <3>4, <4>1
      <3>6. c.obj # NoPod
        BY <2>3, NoPodIsNoObject
      <3> HIDE DEF c
      <3>7. Informs(k, NoPod, n)
        BY <2>1, <2>3, <3>2, <3>3, <3>4, <3>5, <3>6 DEF Informs, Apply
      <3> QED
        BY <3>2, <3>7 DEF Slot
    <2> QED
      BY <2>3, <2>4, <2>5
  <1>4. ASSUME NEW k \in Key, Relist(k)
        PROVE  InformsNothing(k) \/ \E o \in Slot, n \in Notes : Informs(k, o, n)
    <2>1. watch' = [watch EXCEPT ![k] = << >>] /\ watch'[k] = << >>
      BY <1>4 DEF Relist, TypeOK
    <2>2. api[k] \in Ahead(k) /\ lister[k] \in Ahead(k)
      BY DEF Ahead
    <2>3. CASE api[k] # NoPod
      <3>1. api[k] \in Object
        BY <2>3, SlotHolds DEF TypeOK
      <3>2. SetNote(k, api[k]) \in Notes /\ SetNote(k, api[k]).type # "delete"
        BY <3>1, NoteType DEF SetNote, Note
      <3>3. Apply(k, api[k], SetNote(k, api[k]))
        BY <1>4, <2>3 DEF Relist
      <3>4. Informs(k, api[k], SetNote(k, api[k]))
        BY <2>1, <2>2, <3>2, <3>3 DEF Informs, Apply
      <3> QED
        BY <3>1, <3>2, <3>4 DEF Slot
    <2>4. CASE api[k] = NoPod /\ lister[k] # NoPod
      <3>1. lister[k] \in Object /\ lister[k].uid \in Pod
        BY <2>4, SlotHolds DEF TypeOK
      <3>2. PICK n : n = Note("delete", NoPod, lister[k])
        OBVIOUS
      <3>3. n \in Notes /\ n.new = lister[k]
        BY <3>1, <3>2, NoteType DEF Note
      <3>4. Apply(k, NoPod, n)
        BY <1>4, <2>4, <3>2 DEF Relist
      <3>5. lister[k].uid # api[k].uid
        BY <2>4, <3>1, NoPodIsNoObject, NoneAssumption
      <3>6. DOMAIN watch'[k] = {}
        BY <2>1
      <3>7. Informs(k, NoPod, n)
        BY <2>1, <2>2, <2>4, <3>3, <3>4, <3>5, <3>6 DEF Informs, Apply
      <3> QED
        BY <3>3, <3>7 DEF Slot
    <2>5. CASE api[k] = NoPod /\ lister[k] = NoPod
      <3>1. UNCHANGED <<lister, notes>>
        BY <1>4, <2>5 DEF Relist
      <3>2. lister' = [lister EXCEPT ![k] = NoPod]
        BY <2>5, <3>1 DEF TypeOK
      <3> QED
        BY <2>1, <3>1, <3>2 DEF InformsNothing
    <2> QED
      BY <2>3, <2>4, <2>5
  <1>5. ASSUME NEW k \in Key, Resync(k)
        PROVE  \E o \in Slot, n \in Notes : Informs(k, o, n)
    <2>1. lister[k] \in Object /\ lister[k] \in Ahead(k)
      BY <1>5, SlotHolds DEF Resync, TypeOK, Ahead
    <2>2. PICK n : n = Note("update", lister[k], lister[k])
      OBVIOUS
    <2>3. n \in Notes /\ n.type # "delete"
      BY <2>1, <2>2, NoteType DEF Note
    <2>4. Apply(k, lister[k], n) /\ UNCHANGED watch
      BY <1>5, <2>2 DEF Resync
    <2>5. Informs(k, lister[k], n)
      BY <2>1, <2>3, <2>4 DEF Informs, Apply
    <2> QED
      BY <2>1, <2>3, <2>5 DEF Slot
  <1> QED
    BY <1>3, <1>4, <1>5 DEF Informer

LEMMA EndsInformer ==
  ASSUME TypeOK, Ends, Informer
  PROVE  Ends'
  <1>1. UNCHANGED <<api, born, handler, removed, worker>>
    BY InformerSteps
  <1>2. ASSUME NEW k \in Key, NEW o \in Slot, NEW n \in Notes, Informs(k, o, n)
        PROVE  Ends'
    <2>1. /\ UnderOwnKey' /\ DeletedLast' /\ \A p : Past(p) => Past(p)'
      BY <1>1, <1>2, Applied DEF Informs
    <2>2. PICK u : u = n.new.uid
      OBVIOUS
    <2>3. ASSUME n.type = "delete"
          PROVE  Past(u)' /\ ~Past(u)
      <3>1. n.new \in Ahead(k) /\ n.new # NoPod
        BY <1>2, <2>3 DEF Informs
      <3>2. u \in born /\ KeyOf[u] = k /\ u # None
        <4>1. u \in born /\ KeyOf[u] = k
          BY <2>2, <3>1 DEF Ends, UnderOwnKey
        <4> QED
          BY <4>1, NoneAssumption DEF TypeOK
      <3>3. lister'[k] = NoPod
        BY <1>2, <2>3 DEF Informs, TypeOK
      <3>4. \A p \in Ahead(k)' : p.uid # u
        BY <1>1, <1>2, <2>2, <2>3, <3>2, <3>3, NoPodIsNoObject DEF Ahead, Informs
      <3> QED
        BY <1>1, <2>2, <3>1, <3>2, <3>4 DEF Past
    <2>4. notes' = Append(notes, n)
      BY <1>2 DEF Informs
    <2> QED
      BY <1>1, <2>1, <2>2, <2>3, <2>4, EndsNoted
  <1>3. ASSUME NEW k \in Key, InformsNothing(k)
        PROVE  Ends'
    <2>1. /\ UnderOwnKey' /\ DeletedLast' /\ \A p : Past(p) => Past(p)'
      BY <1>1, <1>3, Applied DEF InformsNothing
    <2>2. EndedOnce'
      BY <1>1, <1>3, <2>1 DEF Ends, EndedOnce, Handled, Deletions, InformsNothing
    <2> QED
      BY <1>1, <1>3, <2>1, <2>2 DEF Ends, HandlerInPlace, note, InformsNothing
  <1> QED
    BY <1>2, <1>3, InformerSteps

LEMMA EndsHandler ==
  ASSUME TypeOK, Ends, Handler
  PROVE  Ends'
  <1>1. /\ notes # << >> /\ notes \in Seq(Notes)
        /\ UNCHANGED <<api, born, watch, lister, worker>>
        /\ notes' = notes \/ notes' = Tail(notes)
    BY DEF Handler, HandleAdd, HandleUpdate, HandleRecheck, HandleDelete,
           HandleStore, Handling, TypeOK, cluster
  <1>2. UnderOwnKey' => Ends' \/ ~EndedOnce' \/ ~HandlerInPlace'
    BY <1>1 DEF Ends, DeletedLast
  <1>3. \A p : Past(p) => Past(p)'
    BY <1>1 DEF Past, Ahead
  <1>4. notes' = Tail(notes) =>
          \A i \in Deletions' : /\ i \in Nat /\ i + 1 \in Deletions /\ i # 0
                               /\ notes'[i] = notes[i + 1]
    BY <1>1, Tailed DEF Deletions
  <1>5. note = notes[1] /\ 1 \in DOMAIN notes
    BY <1>1, Tailed DEF note
  <1>6. \A p : Handled(p) => Handled(p)'
    <2>1. CASE notes' = notes
      BY <1>3, <2>1 DEF Handled, Deletions
    <2>2. CASE notes' = Tail(notes)
      BY <1>3, <1>4, <2>2 DEF Handled
    <2> QED
      BY <1>1, <2>1, <2>2
  <1>7. \A i \in Deletions' : \A p : p = notes'[i].new.uid => Past(p)'
    <2>1. CASE notes' = notes
      BY <1>3, <2>1 DEF Ends, EndedOnce, Deletions
    <2>2. CASE notes' = Tail(notes)
      BY <1>3, <1>4, <2>2 DEF Ends, EndedOnce
    <2> QED
      BY <1>1, <2>1, <2>2
  <1>8. \A i, j \in Deletions' : notes'[i].new.uid = notes'[j].new.uid => i = j
    <2>1. CASE notes' = notes
      BY <2>1 DEF Ends, EndedOnce, Deletions
    <2>2. CASE notes' = Tail(notes)
      <3> SUFFICES ASSUME NEW i \in Deletions', NEW j \in Deletions',
                          notes'[i].new.uid = notes'[j].new.uid
                   PROVE  i = j
        OBVIOUS
      <3>1. PICK m, n \in Deletions :
              /\ m = i + 1 /\ n = j + 1 /\ i \in Nat /\ j \in Nat
              /\ notes[m].new.uid = notes[n].new.uid
        BY <1>4, <2>2
      <3>2. m = n
        BY <3>1 DEF Ends, EndedOnce
      <3> QED
        BY <3>1, <3>2
    <2> QED
      BY <1>1, <2>1, <2>2
  <1>9. HandlerInPlace'
    BY DEF Handler, HandleAdd, HandleUpdate, HandleRecheck, HandleDelete, HandleStore,
           Handling, HandlerInPlace, IdleHandler, note
  <1>10. CASE UNCHANGED removed
    <2>1. EndedOnce'
      BY <1>1, <1>6, <1>7, <1>8, <1>10 DEF Ends, EndedOnce, Past
    <2> QED
      BY <1>1, <1>2, <1>9, <1>10, <2>1 DEF Ends, UnderOwnKey, Ahead
  <1>11. CASE HandleStore
    <2> DEFINE p == note.new.uid
    <2>1. /\ note.new \in Object /\ NoteKey(note) = KeyOf[p] /\ p \in Pod
          /\ removed \in [Key -> Slot] /\ KeyOf[p] \in Key
      BY <1>5, DeletionsHold DEF NoteKey, TypeOK
    <2>2. /\ notes' = Tail(notes)
          /\ removed' = [removed EXCEPT ![KeyOf[p]] = note.new]
      BY <1>11, <2>1 DEF HandleStore, Handling
    <2>3. 1 \in Deletions
      BY <1>5, <1>11 DEF HandleStore, Ends, HandlerInPlace, Deletions
    <2>4. PICK u : u = p
      OBVIOUS
    <2>5. Past(u) /\ u \in born
      BY <1>5, <2>3, <2>4 DEF Ends, EndedOnce, Past
    <2>6. \A i \in Deletions' : notes'[i].new.uid # u
      <3> SUFFICES ASSUME NEW i \in Deletions', notes'[i].new.uid = u PROVE FALSE
        OBVIOUS
      <3>1. PICK m \in Deletions : /\ m = i + 1 /\ i \in Nat /\ i # 0
                                  /\ notes[m].new.uid = u
        BY <1>4, <2>2
      <3>2. m = 1
        BY <1>5, <2>3, <2>4, <3>1 DEF Ends, EndedOnce
      <3> QED
        BY <3>1, <3>2
    <2>7. Handled(u)'
      BY <1>3, <2>5, <2>6 DEF Handled
    <2>8. /\ removed'[KeyOf[u]].uid = u
          /\ \A k \in Key : k # KeyOf[u] => removed'[k] = removed[k]
      BY <2>1, <2>2, <2>4
    <2> HIDE DEF p
    <2>9. \A k \in Key : removed'[k] # NoPod =>
            \A q : q = removed'[k].uid => Handled(q)' /\ q \in born /\ KeyOf[q] = k
      BY <1>6, <2>5, <2>7, <2>8 DEF Ends, EndedOnce, UnderOwnKey
    <2>10. EndedOnce'
      BY <1>1, <1>6, <1>7, <1>8, <2>9 DEF Ends, EndedOnce, Past, Handled
    <2>11. UnderOwnKey'
      BY <1>1, <2>9 DEF Ends, UnderOwnKey, Ahead
    <2> QED
      BY <1>2, <1>9, <2>10, <2>11
  <1> QED
    BY <1>10, <1>11 DEF Handler, HandleAdd, HandleUpdate, HandleRecheck, HandleDelete

-----------------------------------------------------------------------------
(* The steps of the worker, by what they do to the devices.                 *)

\* it takes up no pod and drops none
WorkerPasses ==
  /\ worker.pc # "remove" /\ worker'.pc \notin {"add", "remove"}
  /\ UNCHANGED <<removed, podMap, isUsed>>

\* it takes up the copy o of a pod, to enter or to remove it
WorkerTakes(o) ==
  /\ \/ worker.pc = "sync" /\ o = lister[worker.key] /\ ~worker'.stored
        /\ (worker'.pc = "add" \/ (worker'.pc = "remove" /\ o.done))
     \/ worker.pc = "lookup" /\ o = removed[worker.key] /\ worker'.stored
        /\ worker'.pc = "remove"
  /\ o.uid \in Pod /\ worker'.key = worker.key /\ worker'.pod = o
  /\ worker'.rest \subseteq GPUIDs(o) /\ (worker'.rest # {} => o.node)
  /\ UNCHANGED <<removed, podMap, isUsed>>

\* it is through with removing the pod
WorkerDrops ==
  /\ WorkerForget
  /\ worker'.pc = "done"
  /\ \A k \in Key : removed'[k] =
       IF worker.stored /\ k = worker.key THEN NoPod ELSE removed[k]

\* it marks or releases device g for the pod
WorkerTouches(g) ==
  /\ WorkerAddDevice(g) \/ WorkerRemoveDevice(g)
  /\ worker'.pc = worker.pc /\ worker'.key = worker.key
  /\ worker'.pod = worker.pod /\ worker'.stored = worker.stored
  /\ g \in worker.rest /\ worker'.rest = worker.rest \ {g}
  /\ UNCHANGED removed

LEMMA WorkerSteps ==
  ASSUME TypeOK, Worker
  PROVE  /\ UNCHANGED <<api, born, nodeOk, watch, lister, notes, handler>>
         /\ UNCHANGED <<bind, mutex, faults>>
         /\ \/ WorkerPasses
            \/ \E o \in Object : WorkerTakes(o)
            \/ WorkerDrops
            \/ \E g \in GPU : WorkerTouches(g)
  <1>1. /\ UNCHANGED <<api, born, nodeOk, watch, lister, notes, handler>>
        /\ UNCHANGED <<bind, mutex, faults>>
    BY DEF Worker, WorkerGet, WorkerSync, WorkerLookup, WorkerRemember, WorkerForget,
           WorkerDone, WorkerAddDevice, WorkerRemoveDevice, Removing, Finished,
           Working, cluster, informer
  <1> SUFFICES \/ WorkerPasses
               \/ \E o \in Object : WorkerTakes(o)
               \/ WorkerDrops
               \/ \E g \in GPU : WorkerTouches(g)
    BY <1>1
  <1>2. /\ worker.pc = "idle" => worker = IdleWorker
        /\ worker.pc # "idle" => worker.key \in Key
        /\ worker.pc \in {"sync", "lookup", "done"} =>
             worker = [pc |-> worker.pc, key |-> worker.key, pod |-> NoPod,
                       rest |-> {}, stored |-> FALSE]
        /\ worker.pc \in {"add", "remove"} =>
             /\ worker \in [pc : {"add", "remove"}, key : Key, pod : Object,
                            rest : SUBSET GPU, stored : BOOLEAN]
             /\ worker.pod.uid \in Pod
    BY WorkerKinds DEF TypeOK
  <1>3. Finished => worker'.pc = "done"
    BY DEF Finished, Working, IdleWorker
  <1>4. CASE WorkerGet \/ WorkerRemember \/ WorkerDone
    <2>1. worker'.pc \in {"sync", "done", "idle"}
      <3>1. CASE WorkerGet
        <4>1. PICK k : k = Head(queue.queue)
          OBVIOUS
        <4>2. worker' = [IdleWorker EXCEPT !.pc = "sync", !.key = k]
          BY <1>2, <3>1, <4>1 DEF WorkerGet, Working
        <4> QED
          BY <4>2 DEF IdleWorker
      <3> QED
        BY <1>3, <1>4, <3>1 DEF WorkerRemember, WorkerDone, Working, IdleWorker
    <2> QED
      BY <1>4, <2>1 DEF WorkerGet, WorkerRemember, WorkerDone, WorkerPasses, cache
  <1>5. ASSUME worker.pc \in {"sync", "lookup"},
               NEW o \in Object, NEW s \in BOOLEAN, Removing(o, s),
               UNCHANGED <<removed, podMap, isUsed>>,
               s => worker.pc = "lookup" /\ o = removed[worker.key],
               ~s => worker.pc = "sync" /\ o = lister[worker.key] /\ o.done
        PROVE  WorkerTakes(o)
    <2>1. PICK r : r = IF o.node /\ nodeOk THEN GPUIDs(o) ELSE {}
      OBVIOUS
    <2>2. worker' = [worker EXCEPT !.pc = "remove", !.pod = o, !.stored = s, !.rest = r]
      BY <1>5, <2>1 DEF Removing, Working
    <2>3. worker' = [pc |-> "remove", key |-> worker.key, pod |-> o, rest |-> r, stored |-> s]
      BY <1>2, <1>5, <2>2
    <2>4. /\ worker'.pc = "remove" /\ worker'.key = worker.key /\ worker'.pod = o
          /\ worker'.rest = r /\ worker'.stored = s
      BY <2>3
    <2>5. o.uid \in Pod /\ r \subseteq GPUIDs(o) /\ (r # {} => o.node)
      BY <2>1 DEF Object
    <2> QED
      BY <1>5, <2>4, <2>5 DEF WorkerTakes
  <1>6. CASE WorkerSync
    <2> DEFINE o == lister[worker.key]
    <2>1. /\ worker.pc = "sync" /\ worker.key \in Key
          /\ UNCHANGED <<removed, podMap, isUsed>>
      BY <1>2, <1>6 DEF WorkerSync, cache
    <2>2. CASE Working([worker EXCEPT !.pc = "lookup"])
      <3>1. worker' = [worker EXCEPT !.pc = "lookup"]
        BY <2>2 DEF Working
      <3>2. worker'.pc = "lookup"
        BY <1>2, <2>1, <3>1
      <3> QED
        BY <2>1, <3>2 DEF WorkerPasses
    <2>3. CASE Finished
      BY <1>3, <2>1, <2>3 DEF WorkerPasses
    <2>4. CASE o # NoPod /\ o.done /\ Removing(o, FALSE)
      <3>1. o \in Object
        BY <2>1, <2>4, SlotHolds DEF TypeOK
      <3> QED
        BY <1>5, <2>1, <2>4, <3>1
    <2>5. CASE Live(o) /\ Working([worker EXCEPT !.pc = "add", !.pod = o, !.rest = GPUIDs(o)])
      <3>1. o \in Object /\ o.node /\ o.uid \in Pod
        BY <2>1, <2>5, SlotHolds DEF TypeOK, Live
      <3>2. PICK r : r = GPUIDs(o)
        OBVIOUS
      <3>3. worker' = [worker EXCEPT !.pc = "add", !.pod = o, !.rest = r]
        BY <2>5, <3>2 DEF Working
      <3> HIDE DEF o
      <3>4. PICK k : worker.key = k
        OBVIOUS
      <3>5. worker = [pc |-> "sync", key |-> k, pod |-> NoPod,
                      rest |-> {}, stored |-> FALSE]
        BY <1>2, <2>1, <3>4
      <3>6. worker' = [pc |-> "add", key |-> k, pod |-> o, rest |-> r, stored |-> FALSE]
        BY <3>3, <3>5
      <3>7. /\ worker'.pc = "add" /\ worker'.key = worker.key /\ worker'.pod = o
            /\ worker'.rest = r /\ worker'.stored = FALSE
        BY <3>4, <3>6
      <3>8. WorkerTakes(o)
        BY <2>1, <3>1, <3>2, <3>7 DEF WorkerTakes, o
      <3> QED
        BY <3>1, <3>8
    <2> QED
      BY <1>6, <2>2, <2>3, <2>4, <2>5 DEF WorkerSync
  <1>7. CASE WorkerLookup
    <2>1. /\ worker.pc = "lookup" /\ worker.key \in Key
          /\ UNCHANGED <<removed, podMap, isUsed>>
      BY <1>2, <1>7 DEF WorkerLookup, cache
    <2>2. CASE Finished
      BY <1>3, <2>1, <2>2 DEF WorkerPasses
    <2>3. CASE removed[worker.key] # NoPod /\ Removing(removed[worker.key], TRUE)
      <3>1. removed[worker.key] \in Object
        BY <2>1, <2>3, SlotHolds DEF TypeOK
      <3> QED
        BY <1>5, <2>1, <2>3, <3>1
    <2> QED
      BY <1>7, <2>2, <2>3 DEF WorkerLookup
  <1>8. CASE WorkerForget
    <2>1. worker.key \in Key /\ removed \in [Key -> Slot]
      BY <1>2, <1>8 DEF WorkerForget, TypeOK
    <2> QED
      BY <1>3, <1>8, <2>1 DEF WorkerForget, WorkerDrops
  <1>9. ASSUME NEW g \in GPU, WorkerAddDevice(g) \/ WorkerRemoveDevice(g)
        PROVE  WorkerTouches(g)
    <2>1. worker' = [worker EXCEPT !.rest = @ \ {g}]
      BY <1>9 DEF WorkerAddDevice, WorkerRemoveDevice, Working
    <2>2. worker.pc \in {"add", "remove"} /\ g \in worker.rest /\ UNCHANGED removed
      BY <1>9 DEF WorkerAddDevice, WorkerRemoveDevice
    <2>3. /\ worker'.pc = worker.pc /\ worker'.key = worker.key
          /\ worker'.pod = worker.pod /\ worker'.stored = worker.stored
          /\ worker'.rest = worker.rest \ {g}
      BY <1>2, <2>1, <2>2
    <2> QED
      BY <1>9, <2>2, <2>3 DEF WorkerTouches
  <1> QED
    BY <1>1, <1>4, <1>6, <1>7, <1>8, <1>9 DEF Worker

LEMMA EndsWorker ==
  ASSUME TypeOK, Ends, Worker
  PROVE  Ends'
  <1>1. UNCHANGED <<api, born, watch, lister, notes, handler>>
    BY WorkerSteps
  <1>2. /\ \A k \in Key : \A o : o \in Ahead(k)' <=> o \in Ahead(k)
        /\ \A p : Handled(p) => Handled(p)'
        /\ Deletions' = Deletions
    BY <1>1 DEF Ahead, Handled, Past, Deletions
  <1>3. /\ DeletedLast' /\ HandlerInPlace'
        /\ \A i \in Deletions : \A p : p = notes[i].new.uid => Past(p)'
    BY <1>1 DEF Ends, DeletedLast, HandlerInPlace, note, EndedOnce, Past, Ahead
  <1>4. ASSUME \A k \in Key : removed'[k] \in {removed[k], NoPod},
               NEW u, worker'.pod.uid = u,
               worker'.pc \in {"add", "remove"} => KeyOf[u] = worker'.key,
               worker'.pc = "remove" /\ worker'.stored => Handled(u)
        PROVE  Ends'
    <2>1. UnderOwnKey'
      BY <1>1, <1>2, <1>4 DEF Ends, UnderOwnKey
    <2>2. \A k \in Key : removed'[k] # NoPod =>
            \A p : p = removed'[k].uid => Handled(p)'
      BY <1>2, <1>4 DEF Ends, EndedOnce
    <2>3. EndedOnce'
      BY <1>1, <1>2, <1>3, <1>4, <2>2 DEF Ends, EndedOnce, Handled, Past
    <2> QED
      BY <1>3, <2>1, <2>3 DEF Ends
  <1>5. PICK u : u = worker'.pod.uid
    OBVIOUS
  <1>6. CASE WorkerPasses
    BY <1>4, <1>5, <1>6 DEF WorkerPasses
  <1>7. ASSUME NEW o \in Object, WorkerTakes(o)
        PROVE  Ends'
    <2>1. /\ o # NoPod /\ worker'.pod = o /\ worker'.key = worker.key
          /\ UNCHANGED removed /\ worker.pc \in {"sync", "lookup"}
      BY <1>7, NoPodIsNoObject DEF WorkerTakes
    <2>2. worker.key \in Key
      BY <2>1, WorkerKinds DEF TypeOK
    <2>3. u = o.uid
      BY <1>5, <2>1
    <2>4. KeyOf[u] = worker.key
      BY <1>7, <2>1, <2>2, <2>3 DEF WorkerTakes, Ends, UnderOwnKey, Ahead
    <2>5. worker'.stored => Handled(u)
      BY <1>7, <2>1, <2>2, <2>3 DEF WorkerTakes, Ends, EndedOnce
    <2> QED
      BY <1>4, <1>5, <2>1, <2>4, <2>5
  <1>8. CASE WorkerDrops
    BY <1>4, <1>5, <1>8 DEF WorkerDrops
  <1>9. ASSUME NEW g \in GPU, WorkerTouches(g)
        PROVE  Ends'
    <2>1. /\ u = worker.pod.uid /\ worker'.pc = worker.pc /\ worker'.key = worker.key
          /\ worker'.stored = worker.stored /\ UNCHANGED removed
      BY <1>5, <1>9 DEF WorkerTouches
    <2> QED
      BY <1>4, <1>5, <2>1 DEF Ends, UnderOwnKey, EndedOnce
  <1> QED
    BY <1>6, <1>7, <1>8, <1>9, WorkerSteps
-----------------------------------------------------------------------------
(* The steps of a bind call, field by field.                                *)

\* the call goes on at pc, about the same pod
CallGoesTo(b, pc) == bind'[b].pc = pc /\ bind'[b].pod = bind[b].pod

\* the call is over
CallEnds(b) == bind'[b] = IdleBind /\ mutex' = IF mutex = b THEN None ELSE mutex

CallFails(b) ==
  /\ Quiet /\ CallEnds(b)
  /\ bind[b].pc = "mark" => bind[b].rest = {}

CallStarts(b, p) ==
  /\ bind[b].pc = "idle" /\ Quiet /\ UNCHANGED mutex
  /\ bind'[b].pc = "get" /\ bind'[b].pod = p
  /\ \/ /\ api[KeyOf[p]].uid = p /\ ~api[KeyOf[p]].node
        /\ \A c \in Binder : bind[c].pod # p
     \/ "retry" \in Env

CallHolds(b) ==
  /\ bind[b].pc = "get" /\ Quiet /\ UNCHANGED mutex /\ CallGoesTo(b, "lock")
  /\ bind'[b].held \in {lister[TheKey(b)], api[TheKey(b)]}
  /\ bind'[b].held.uid = bind[b].pod

CallLocks(b) ==
  /\ bind[b].pc = "lock" /\ Quiet /\ CallGoesTo(b, "choose")
  /\ bind'[b].held = bind[b].held
  /\ mutex = None /\ mutex' = b

CallChooses(b) ==
  /\ bind[b].pc = "choose" /\ Quiet /\ UNCHANGED mutex /\ CallGoesTo(b, "update")
  /\ bind'[b].held = bind[b].held
  /\ bind'[b].ids \in Outcomes(Free, Req[bind[b].held.uid])

CallRereads(b) ==
  /\ \/ /\ bind[b].pc = "update" /\ CallGoesTo(b, "reget") /\ "bare" \in Env
        /\ bind'[b].held = bind[b].held
     \/ /\ bind[b].pc = "reget" /\ CallGoesTo(b, "reupdate")
        /\ bind'[b].held = api[TheKey(b)] /\ api[TheKey(b)] # NoPod
  /\ Quiet /\ UNCHANGED mutex
  /\ bind'[b].ids = bind[b].ids

CallWrites(b) ==
  /\ bind[b].pc \in {"update", "reupdate"}
  /\ api[TheKey(b)] = bind[b].held
  /\ Store(TheKey(b), [bind[b].held EXCEPT !.ids = bind[b].ids])
  /\ \/ /\ CallGoesTo(b, "bind") /\ UNCHANGED mutex
        /\ bind'[b].held.uid = bind[b].held.uid /\ bind'[b].ids = bind[b].ids
     \/ CallEnds(b) /\ "lost" \in Env
  /\ UNCHANGED <<podMap, isUsed>>

CallBinds(b) ==
  /\ bind[b].pc = "bind"
  /\ api[TheKey(b)].uid = bind[b].held.uid /\ ~api[TheKey(b)].node
  /\ Store(TheKey(b), [api[TheKey(b)] EXCEPT !.node = TRUE])
  /\ \/ /\ CallGoesTo(b, "mark") /\ UNCHANGED mutex
        /\ bind'[b].held = bind[b].held /\ bind'[b].rest = bind[b].ids \ {NoGPU}
     \/ CallEnds(b) /\ "lost" \in Env
  /\ UNCHANGED <<podMap, isUsed>>

CallMarks(b, g) ==
  /\ BindMark(b, g) /\ CallGoesTo(b, "mark")
  /\ bind'[b].held = bind[b].held
  /\ g \in bind[b].rest /\ bind'[b].rest = bind[b].rest \ {g}

CallStep(b) ==
  \/ CallFails(b) \/ CallHolds(b) \/ CallLocks(b) \/ CallChooses(b)
  \/ CallRereads(b) \/ CallWrites(b) \/ CallBinds(b)
  \/ \E p \in Pod : CallStarts(b, p)
  \/ \E g \in GPU : CallMarks(b, g)

LEMMA BindSteps ==
  ASSUME TypeOK, NEW b \in Binder,
         Bind(b) \/ \E p \in Pod : BindRequest(b, p)
  PROVE  /\ UNCHANGED <<born, nodeOk, lister, notes, handler, queue, waiting>>
         /\ UNCHANGED <<removed, worker, known>>
         /\ \A c \in Binder : c # b => bind'[c] = bind[c]
         /\ CallStep(b)
  <1> DEFINE r == bind[b]
  <1>1. r \in BindStates /\ bind \in [Binder -> BindStates]
    BY DEF TypeOK
  <1>2. r.pc \notin {"idle", "get"} =>
          r \in [pc : {"lock", "choose", "update", "reget", "reupdate", "bind", "mark"},
                 pod : Pod, held : Object, ids : SUBSET (GPU \union {NoGPU}),
                 rest : SUBSET GPU]
    BY <1>1, BindKinds
  <1>3. ASSUME \E n : Binding(b, n)
        PROVE  /\ UNCHANGED <<born, nodeOk, lister, notes, handler, queue, waiting>>
               /\ UNCHANGED <<removed, worker, known>>
               /\ \A c \in Binder : c # b => bind'[c] = bind[c]
    BY <1>1, <1>3 DEF Binding, control
  <1>4. \A n : Binding(b, n) => bind'[b] = n
    BY <1>1 DEF Binding
  <1>5. ASSUME Answer(b)
        PROVE  CallEnds(b) /\ \E n : Binding(b, n)
    BY <1>4, <1>5 DEF Answer, CallEnds
  <1>6. ASSUME Answer(b) /\ Quiet, r.pc # "mark" \/ r.rest = {}
        PROVE  CallStep(b) /\ \E n : Binding(b, n)
    BY <1>5, <1>6 DEF CallFails, CallStep
  <1>7. ASSUME NEW p \in Pod, BindRequest(b, p)
        PROVE  CallStep(b) /\ \E n : Binding(b, n)
    <2>1. /\ Binding(b, [IdleBind EXCEPT !.pc = "get", !.pod = p])
          /\ bind[b] = IdleBind /\ Quiet /\ UNCHANGED mutex
          /\ \/ /\ api[KeyOf[p]].uid = p /\ ~api[KeyOf[p]].node
                /\ \A c \in Binder : bind[c].pod # p
             \/ "retry" \in Env
      BY <1>7 DEF BindRequest, Fault
    <2>2. /\ bind[b].pc = "idle" /\ bind'[b].pc = "get" /\ bind'[b].pod = p
      <3>1. bind'[b] = [IdleBind EXCEPT !.pc = "get", !.pod = p]
        BY <1>4, <2>1
      <3> QED
        BY <2>1, <3>1 DEF IdleBind
    <2>3. CallStarts(b, p)
      BY <2>1, <2>2 DEF CallStarts
    <2> QED
      BY <2>1, <2>3 DEF CallStep
  <1>8. CASE BindGetPod(b)
    <2>1. r.pc = "get"
      BY <1>8 DEF BindGetPod
    <2>2. CASE Answer(b) /\ Quiet
      BY <1>6, <2>1, <2>2, <1>3
    <2>3. CASE /\ r.pod \in {lister[TheKey(b)].uid, api[TheKey(b)].uid}
               /\ Binding(b, [r EXCEPT !.pc = "lock",
                              !.held = IF lister[TheKey(b)].uid = r.pod
                                       THEN lister[TheKey(b)] ELSE api[TheKey(b)]])
               /\ UNCHANGED mutex /\ Quiet
      <3>1. PICK o : o = IF lister[TheKey(b)].uid = r.pod
                         THEN lister[TheKey(b)] ELSE api[TheKey(b)]
        OBVIOUS
      <3>2. PICK p : p = r.pod
        OBVIOUS
      <3>3. r = [pc |-> "get", pod |-> p, held |-> NoPod, ids |-> {}, rest |-> {}]
        BY <1>1, <2>1, <3>2, BindKinds
      <3>4. bind'[b] = [r EXCEPT !.pc = "lock", !.held = o]
        BY <1>4, <2>3, <3>1
      <3>5. bind'[b].pc = "lock" /\ bind'[b].pod = p /\ bind'[b].held = o
        BY <3>3, <3>4
      <3>6. CallHolds(b)
        BY <2>1, <2>3, <3>1, <3>2, <3>5 DEF CallHolds, CallGoesTo
      <3> QED
        BY <1>3, <2>3, <3>6 DEF CallStep
    <2> QED
      BY <1>3, <1>8, <2>2, <2>3 DEF BindGetPod, ApiError
  <1>9. CASE BindCount(b)
    <2>1. r.pc = "lock" /\ Quiet
      BY <1>9 DEF BindCount
    <2>2. CASE Answer(b)
      BY <1>3, <1>6, <2>1, <2>2
    <2>3. CASE mutex' = b /\ Binding(b, [r EXCEPT !.pc = "choose"])
      <3>1. bind'[b] = [r EXCEPT !.pc = "choose"] /\ mutex = None
        BY <1>4, <1>9, <2>3 DEF BindCount, Unlocked
      <3>2. CallLocks(b)
        BY <1>2, <2>1, <2>3, <3>1 DEF CallLocks, CallGoesTo
      <3> QED
        BY <1>3, <2>3, <3>2 DEF CallStep
    <2> QED
      BY <1>9, <2>2, <2>3 DEF BindCount
  <1>10. CASE BindChoose(b)
    <2>1. r.pc = "choose" /\ Quiet
      BY <1>10 DEF BindChoose
    <2>2. CASE Answer(b)
      BY <1>3, <1>6, <2>1, <2>2
    <2>3. ASSUME NEW s \in Outcomes(Free, Req[r.held.uid]),
                 Binding(b, [r EXCEPT !.pc = "update", !.ids = s]), UNCHANGED mutex
          PROVE  CallStep(b) /\ \E n : Binding(b, n)
      <3>1. bind'[b] = [r EXCEPT !.pc = "update", !.ids = s]
        BY <1>4, <2>3
      <3>2. /\ bind'[b].pc = "update" /\ bind'[b].ids = s
            /\ bind'[b].pod = r.pod /\ bind'[b].held = r.held
        BY <1>2, <2>1, <3>1
      <3>3. CallChooses(b)
        BY <2>1, <2>3, <3>2 DEF CallChooses, CallGoesTo
      <3> QED
        BY <2>3, <3>3 DEF CallStep
    <2> QED
      BY <1>3, <1>10, <2>2, <2>3 DEF BindChoose
  <1>11. CASE BindGetAgain(b)
    <2>1. r.pc = "reget"
      BY <1>11 DEF BindGetAgain
    <2>2. CASE Answer(b) /\ Quiet
      BY <1>3, <1>6, <2>1, <2>2
    <2>3. CASE /\ api[TheKey(b)] # NoPod
               /\ Binding(b, [r EXCEPT !.pc = "reupdate", !.held = api[TheKey(b)]])
               /\ UNCHANGED mutex /\ Quiet
      <3>1. PICK o : o = api[TheKey(b)]
        OBVIOUS
      <3>2. bind'[b] = [r EXCEPT !.pc = "reupdate", !.held = o]
        BY <1>4, <2>3, <3>1
      <3>3. /\ bind'[b].pc = "reupdate" /\ bind'[b].ids = r.ids
            /\ bind'[b].pod = r.pod /\ bind'[b].held = o
        BY <1>2, <2>1, <3>2
      <3>4. CallRereads(b)
        BY <2>1, <2>3, <3>1, <3>3 DEF CallRereads, CallGoesTo
      <3> QED
        BY <1>3, <2>3, <3>4 DEF CallStep
    <2> QED
      BY <1>11, <2>2, <2>3 DEF BindGetAgain, ApiError
  <1>12. CASE BindReply(b)
    BY <1>3, <1>6, <1>12 DEF BindReply
  <1>13. CASE BindUpdate(b)
    <2>1. r.pc \in {"update", "reupdate"}
      BY <1>13 DEF BindUpdate
    <2>2. CASE Answer(b) /\ Quiet
      BY <1>3, <1>6, <2>1, <2>2
    <2>3. CASE r.pc = "update" /\ "bare" \in Env /\ Goto(b, "reget") /\ Quiet
      <3>1. Binding(b, [r EXCEPT !.pc = "reget"]) /\ UNCHANGED mutex
        BY <2>3 DEF Goto
      <3>2. /\ bind'[b].pc = "reget" /\ bind'[b].ids = r.ids
            /\ bind'[b].pod = r.pod /\ bind'[b].held = r.held
        BY <1>2, <1>4, <2>1, <3>1
      <3>3. CallRereads(b)
        BY <2>3, <3>1, <3>2 DEF CallRereads, CallGoesTo
      <3> QED
        BY <1>3, <3>1, <3>3 DEF CallStep
    <2>4. CASE /\ api[TheKey(b)] = r.held
               /\ Store(TheKey(b), [r.held EXCEPT !.ids = r.ids])
               /\ UNCHANGED <<podMap, isUsed>>
               /\ \/ /\ Binding(b, [r EXCEPT !.pc = "bind",
                                             !.held = [r.held EXCEPT !.ids = r.ids]])
                     /\ UNCHANGED mutex
                  \/ Answer(b) /\ Fault("lost")
      <3>1. CASE Answer(b) /\ Fault("lost")
        <4>1. CallWrites(b)
          BY <1>5, <2>1, <2>4, <3>1 DEF CallWrites, Fault
        <4> QED
          BY <1>3, <1>5, <3>1, <4>1 DEF CallStep
      <3>2. CASE /\ Binding(b, [r EXCEPT !.pc = "bind",
                                         !.held = [r.held EXCEPT !.ids = r.ids]])
                 /\ UNCHANGED mutex
        <4>1. PICK o : o = [r.held EXCEPT !.ids = r.ids]
          OBVIOUS
        <4>2. o.uid = r.held.uid
          BY <1>2, <2>1, <4>1 DEF Object
        <4>3. bind'[b] = [r EXCEPT !.pc = "bind", !.held = o]
          BY <1>4, <3>2, <4>1
        <4>4. /\ bind'[b].pc = "bind" /\ bind'[b].ids = r.ids
              /\ bind'[b].pod = r.pod /\ bind'[b].held = o
          BY <1>2, <2>1, <4>3
        <4>5. CallWrites(b)
          BY <2>1, <2>4, <3>2, <4>2, <4>4 DEF CallWrites, CallGoesTo
        <4> QED
          BY <1>3, <3>2, <4>5 DEF CallStep
      <3> QED
        BY <2>4, <3>1, <3>2
    <2> QED
      BY <1>13, <2>2, <2>3, <2>4 DEF BindUpdate, ApiError
  <1>14. CASE BindBind(b)
    <2>1. r.pc = "bind"
      BY <1>14 DEF BindBind
    <2>2. CASE Answer(b) /\ Quiet
      BY <1>3, <1>6, <2>1, <2>2
    <2>3. CASE /\ api[TheKey(b)].uid = r.held.uid /\ ~api[TheKey(b)].node
               /\ Store(TheKey(b), [api[TheKey(b)] EXCEPT !.node = TRUE])
               /\ UNCHANGED <<podMap, isUsed>>
               /\ \/ /\ Binding(b, [r EXCEPT !.pc = "mark", !.rest = r.ids \ {NoGPU}])
                     /\ UNCHANGED mutex
                  \/ Answer(b) /\ Fault("lost")
      <3>1. CASE Answer(b) /\ Fault("lost")
        <4>1. CallBinds(b)
          BY <1>5, <2>1, <2>3, <3>1 DEF CallBinds, Fault
        <4> QED
          BY <1>3, <1>5, <3>1, <4>1 DEF CallStep
      <3>2. CASE /\ Binding(b, [r EXCEPT !.pc = "mark", !.rest = r.ids \ {NoGPU}])
                 /\ UNCHANGED mutex
        <4>1. PICK s : s = r.ids \ {NoGPU}
          OBVIOUS
        <4>2. bind'[b] = [r EXCEPT !.pc = "mark", !.rest = s]
          BY <1>4, <3>2, <4>1
        <4>3. /\ bind'[b].pc = "mark" /\ bind'[b].rest = s
              /\ bind'[b].pod = r.pod /\ bind'[b].held = r.held
          BY <1>2, <2>1, <4>2
        <4>4. CallBinds(b)
          BY <2>1, <2>3, <3>2, <4>1, <4>3 DEF CallBinds, CallGoesTo
        <4> QED
          BY <1>3, <3>2, <4>4 DEF CallStep
      <3> QED
        BY <2>3, <3>1, <3>2
    <2> QED
      BY <1>14, <2>2, <2>3 DEF BindBind, ApiError
  <1>15. ASSUME NEW g \in GPU, BindMark(b, g)
         PROVE  CallStep(b) /\ \E n : Binding(b, n)
    <2>1. r.pc = "mark" /\ g \in r.rest /\ Binding(b, [r EXCEPT !.rest = @ \ {g}])
      BY <1>15 DEF BindMark
    <2>2. /\ bind'[b].pc = "mark" /\ bind'[b].rest = r.rest \ {g}
          /\ bind'[b].pod = r.pod /\ bind'[b].held = r.held
      BY <1>2, <1>4, <2>1
    <2>3. CallMarks(b, g)
      BY <1>15, <2>1, <2>2 DEF CallMarks, CallGoesTo
    <2> QED
      BY <2>1, <2>3 DEF CallStep
  <1> QED
    BY <1>3, <1>7, <1>8, <1>9, <1>10, <1>11, <1>12, <1>13, <1>14, <1>15 DEF Bind

LEMMA EndsBind ==
  ASSUME TypeOK, Ends, NEW b \in Binder,
         Bind(b) \/ \E p \in Pod : BindRequest(b, p)
  PROVE  Ends'
  <1> DEFINE k == TheKey(b)
  <1>1. /\ UNCHANGED <<born, lister, notes, handler, removed, worker>>
        /\ CallStep(b)
    BY BindSteps
  <1>2. CASE Quiet
    BY <1>1, <1>2, EndsUnchanged DEF Quiet, EndVars
  <1>3. bind[b].pc \notin {"idle", "get"} =>
          /\ k \in Key /\ bind[b].held \in Object
          /\ bind[b].ids \in SUBSET (GPU \union {NoGPU})
    BY BindKinds, KeyOfAssumption DEF TypeOK, TheKey
  <1> HIDE DEF k
  <1>4. ASSUME NEW o \in Object, Store(k, o), k \in Key, o.uid = api[k].uid
        PROVE  Ends'
    <2>1. PICK c : c = Change("set", o)
      OBVIOUS
    <2>2. c \in Changes /\ c.kind = "set" /\ c.obj = o
      BY <2>1 DEF Change, Changes
    <2>3. /\ api' = [api EXCEPT ![k] = IF c.kind = "del" THEN NoPod ELSE c.obj]
          /\ watch' = [watch EXCEPT ![k] = Append(@, c)]
      BY <1>4, <2>1, <2>2 DEF Store
    <2>4. api[k] # NoPod /\ api[k] \in Ahead(k)
      BY <1>4, NoPodIsNoObject, NoneAssumption DEF Object, Ahead
    <2>5. KeyOf[o.uid] = k /\ o.uid \in born
      BY <1>4, <2>4 DEF Ends, UnderOwnKey
    <2> QED
      BY <1>1, <1>4, <2>2, <2>3, <2>5, EndsStored
  <1>5. CASE CallWrites(b)
    <2>1. PICK o : o = [bind[b].held EXCEPT !.ids = bind[b].ids]
      OBVIOUS
    <2>2. o \in Object /\ o.uid = api[k].uid
      BY <1>3, <1>5, <2>1 DEF CallWrites, Object, k
    <2> QED
      BY <1>3, <1>4, <1>5, <2>1, <2>2 DEF CallWrites, k
  <1>6. CASE CallBinds(b)
    <2>1. k \in Key /\ api[k].uid \in Pod /\ Store(k, [api[k] EXCEPT !.node = TRUE])
      BY <1>3, <1>6 DEF CallBinds, k, Object
    <2>2. api[k] \in Object
      BY <2>1, SlotHolds DEF TypeOK
    <2>3. PICK o : o = [api[k] EXCEPT !.node = TRUE]
      OBVIOUS
    <2>4. o \in Object /\ o.uid = api[k].uid
      BY <2>2, <2>3 DEF Object
    <2> QED
      BY <1>4, <2>1, <2>3, <2>4
  <1> QED
    BY <1>1, <1>2, <1>5, <1>6, EndsUnchanged
    DEF CallStep, CallFails, CallHolds, CallLocks, CallChooses, CallRereads,
        CallStarts, CallMarks, BindMark, EndVars
-----------------------------------------------------------------------------
LEMMA EndsCluster ==
  ASSUME TypeOK, Ends, Cluster
  PROVE  Ends'
  <1>1. ASSUME NEW p \in Pod, CreatePod(p)
        PROVE  Ends'
    <2> DEFINE k == KeyOf[p]
    <2>1. PICK c : c = Change("set", NewPod(p))
      OBVIOUS
    <2>2. /\ k \in Key /\ c \in Changes /\ c.kind = "set" /\ c.obj.uid = p
          /\ c.obj = NewPod(p)
      BY <2>1, KeyOfAssumption DEF Change, Changes, NewPod, Object
    <2>3. /\ api' = [api EXCEPT ![k] = IF c.kind = "del" THEN NoPod ELSE c.obj]
          /\ watch' = [watch EXCEPT ![k] = Append(@, c)]
          /\ UNCHANGED <<lister, notes, handler, removed, worker>>
          /\ born' = born \union {p} /\ p \notin born
      BY <1>1, <2>1, <2>2 DEF CreatePod, Store, control
    <2> HIDE DEF k
    <2>4. KeyOf[c.obj.uid] = k /\ born \subseteq born' /\ c.obj.uid \in born'
      BY <2>2, <2>3 DEF k
    <2> QED
      BY <2>2, <2>3, <2>4, EndsStored
  <1>2. ASSUME NEW k \in Key, NEW c \in Changes, c.obj.uid = api[k].uid,
               api' = [api EXCEPT ![k] = IF c.kind = "del" THEN NoPod ELSE c.obj],
               watch' = [watch EXCEPT ![k] = Append(@, c)],
               UNCHANGED <<born, lister, notes, handler, removed, worker>>
        PROVE  Ends'
    <2>1. api[k] # NoPod /\ api[k] \in Ahead(k)
      BY <1>2, NoPodIsNoObject, NoneAssumption DEF Changes, Object, Ahead
    <2>2. KeyOf[c.obj.uid] = k /\ c.obj.uid \in born
      BY <1>2, <2>1 DEF Ends, UnderOwnKey
    <2> QED
      BY <1>2, <2>2, EndsStored
  <1>3. ASSUME NEW k \in Key, FinishPod(k)
        PROVE  Ends'
    <2>1. api[k] \in Object
      BY <1>3, SlotHolds DEF FinishPod, Live, TypeOK
    <2>2. PICK o : o = [api[k] EXCEPT !.done = TRUE]
      OBVIOUS
    <2>3. o \in Object /\ o.uid = api[k].uid
      BY <2>1, <2>2 DEF Object
    <2>4. PICK c : c = Change("set", o)
      OBVIOUS
    <2>5. c \in Changes /\ c.kind = "set" /\ c.obj = o
      BY <2>3, <2>4 DEF Change, Changes
    <2>6. /\ api' = [api EXCEPT ![k] = IF c.kind = "del" THEN NoPod ELSE c.obj]
          /\ watch' = [watch EXCEPT ![k] = Append(@, c)]
          /\ UNCHANGED <<born, lister, notes, handler, removed, worker>>
      BY <1>3, <2>2, <2>4, <2>5 DEF FinishPod, Store, control
    <2> QED
      BY <1>2, <2>3, <2>5, <2>6
  <1>4. ASSUME NEW k \in Key, DeletePod(k)
        PROVE  Ends'
    <2>1. api[k] \in Object
      BY <1>4, SlotHolds DEF DeletePod, TypeOK
    <2>2. PICK c : c = Change("del", api[k])
      OBVIOUS
    <2>3. c \in Changes /\ c.kind = "del" /\ c.obj = api[k]
      BY <2>1, <2>2 DEF Change, Changes
    <2>4. /\ api' = [api EXCEPT ![k] = IF c.kind = "del" THEN NoPod ELSE c.obj]
          /\ watch' = [watch EXCEPT ![k] = Append(@, c)]
          /\ UNCHANGED <<born, lister, notes, handler, removed, worker>>
      BY <1>4, <2>2, <2>3 DEF DeletePod, Delete, control
    <2> QED
      BY <1>2, <2>3, <2>4
  <1>5. CASE NodeFlap
    BY <1>5, EndsUnchanged DEF NodeFlap, EndVars, informer, control
  <1> QED
    BY <1>1, <1>3, <1>4, <1>5 DEF Cluster

LEMMA EndsCrash ==
  ASSUME TypeOK, Ends, CrashRestart
  PROVE  Ends'
  <1>1. /\ notes' = << >> /\ worker'.pc = "idle" /\ handler'.pc = "idle"
        /\ lister' = api /\ UNCHANGED <<api, born>>
        /\ \A k \in Key : watch'[k] = << >> /\ removed'[k] = NoPod
    BY DEF CrashRestart, cluster, IdleWorker, IdleHandler
  <1>2. Deletions' = {} /\ \A k \in Key : \A o \in Ahead(k)' : o = api[k]
    BY <1>1 DEF Deletions, Ahead
  <1>3. \A k \in Key : api[k] \in Ahead(k)
    BY DEF Ahead
  <1> QED
    BY <1>1, <1>2, <1>3 DEF Ends, UnderOwnKey, DeletedLast, EndedOnce, HandlerInPlace

LEMMA EndsStep ==
  ASSUME TypeOK, Ends, [Next]_vars
  PROVE  Ends'
  <1>1. CASE UNCHANGED vars
    BY <1>1, Unchanged, EndsUnchanged DEF EndVars
  <1>2. ASSUME NEW k \in Key, WaitingFires(k)
        PROVE  Ends'
    BY <1>2, EndsUnchanged DEF WaitingFires, EndVars, cluster, informer
  <1> QED
    BY <1>1, <1>2, EndsCluster, EndsInformer, EndsHandler, EndsWorker, EndsBind,
       EndsCrash DEF Next
-----------------------------------------------------------------------------
(* Bind calls: Calls is inductive together with Ends.                       *)

LEMMA CallHolder ==
  ASSUME TypeOK, NEW b \in Binder, bind[b].pc # "idle"
  PROVE  /\ bind[b].pod \in Pod /\ bind[b].pod # None /\ TheKey(b) \in Key
         /\ bind[b].pc # "get" =>
              /\ bind[b].held \in Object /\ bind[b].ids \in SUBSET (GPU \union {NoGPU})
              /\ bind[b].rest \in SUBSET GPU
  BY BindKinds, KeyOfAssumption, NoneAssumption DEF TypeOK, TheKey

LEMMA CallsUnchanged ==
  ASSUME Calls, UNCHANGED <<api, born, bind, mutex>>
  PROVE  Calls'
  BY DEF Calls, LockIsHeld, CallsApart, NotYetBound, TheKey

LEMMA CallsIdle ==
  ASSUME \A b \in Binder : bind[b] = IdleBind
  PROVE  Calls
  BY DEF Calls, LockIsHeld, CallsApart, NotYetBound, IdleBind

LEMMA CallsCluster ==
  ASSUME TypeOK, SafeEnv, Ends, Calls, Cluster
  PROVE  Calls'
  <1>1. UNCHANGED <<bind, mutex>> /\ born \subseteq born'
    BY DEF Cluster, CreatePod, FinishPod, DeletePod, NodeFlap
  <1>2. LockIsHeld' /\ CallsApart'
    BY <1>1 DEF Calls, LockIsHeld, CallsApart
  <1>3. ASSUME NEW p \in Pod, CreatePod(p)
        PROVE  NotYetBound'
    <2>1. /\ p \notin born /\ api' = [api EXCEPT ![KeyOf[p]] = NewPod(p)]
          /\ api \in [Key -> Slot] /\ KeyOf[p] \in Key
      BY <1>3, KeyOfAssumption DEF CreatePod, Store, TypeOK
    <2>2. ASSUME NEW b \in Binder, bind[b].pc # "idle"
          PROVE  /\ api'[TheKey(b)].uid = bind[b].pod => api'[TheKey(b)] = api[TheKey(b)]
                 /\ TheKey(b)' = TheKey(b)
      <3>1. bind[b].pod # p /\ TheKey(b) \in Key
        BY <2>1, <2>2, CallHolder DEF Calls, CallsApart
      <3> QED
        BY <1>1, <2>1, <3>1 DEF NewPod, TheKey
    <2> QED
      BY <1>1, <2>2 DEF Calls, NotYetBound
  <1>4. ASSUME NEW k \in Key, DeletePod(k)
        PROVE  NotYetBound'
    <2>1. api' = [api EXCEPT ![k] = NoPod] /\ api \in [Key -> Slot]
      BY <1>4 DEF DeletePod, Delete, TypeOK
    <2>2. ASSUME NEW b \in Binder, bind[b].pc # "idle"
          PROVE  /\ api'[TheKey(b)].uid = bind[b].pod => api'[TheKey(b)] = api[TheKey(b)]
                 /\ TheKey(b)' = TheKey(b)
      BY <1>1, <2>1, <2>2, CallHolder, NoPodIsNoObject DEF TheKey
    <2> QED
      BY <1>1, <2>2 DEF Calls, NotYetBound
  <1>5. CASE NodeFlap
    BY <1>1, <1>5, CallsUnchanged DEF NodeFlap
  <1> QED
    BY <1>2, <1>3, <1>4, <1>5 DEF Cluster, FinishPod, SafeEnv, Calls

LEMMA CallsBind ==
  ASSUME TypeOK, SafeEnv, Ends, Calls, NEW b \in Binder,
         Bind(b) \/ \E p \in Pod : BindRequest(b, p)
  PROVE  Calls'
  <1> DEFINE k == TheKey(b)
  <1>1. /\ CallStep(b) /\ UNCHANGED born
        /\ \A c \in Binder : c # b => bind'[c] = bind[c]
    BY BindSteps
  <1>2. "lost" \notin Env /\ "retry" \notin Env
    BY DEF SafeEnv
  <1>3. \A c \in Binder : c # b => TheKey(c)' = TheKey(c)
    BY <1>1 DEF TheKey
  <1>4. LockIsHeld'
    <2>1. CASE CallEnds(b)
      BY <1>1, <2>1 DEF CallEnds, IdleBind, Calls, LockIsHeld
    <2>2. CASE CallLocks(b)
      BY <1>1, <2>2, NoneAssumption DEF CallLocks, Calls, LockIsHeld
    <2>3. CASE CallHolds(b) \/ \E p \in Pod : CallStarts(b, p)
      BY <1>1, <2>3 DEF CallHolds, CallStarts, CallGoesTo, Calls, LockIsHeld
    <2>4. CASE /\ bind[b].pc \in {"choose", "update", "reget", "reupdate", "bind", "mark"}
               /\ UNCHANGED mutex
      BY <1>1, <2>4 DEF Calls, LockIsHeld
    <2> QED
      BY <1>1, <1>2, <2>1, <2>2, <2>3, <2>4
      DEF CallStep, CallFails, CallChooses, CallRereads, CallWrites, CallBinds,
          CallMarks, BindMark
  <1>5. CASE CallEnds(b)
    <2>1. CallsApart'
      BY <1>1, <1>5, CallHolder DEF CallEnds, IdleBind, Calls, CallsApart
    <2>2. Quiet
      BY <1>1, <1>2, <1>5 DEF CallStep, CallFails, CallEnds, IdleBind, CallHolds, CallLocks,
         CallChooses, CallRereads, CallWrites, CallBinds, CallStarts, CallMarks, CallGoesTo
    <2>3. NotYetBound'
      BY <1>1, <1>3, <1>5, <2>2 DEF CallEnds, IdleBind, Quiet, Calls, NotYetBound
    <2> QED
      BY <1>4, <2>1, <2>3 DEF Calls
  <1>6. ASSUME NEW p \in Pod, CallStarts(b, p)
        PROVE  Calls'
    <2>1. /\ bind'[b].pc = "get" /\ bind'[b].pod = p
          /\ api[KeyOf[p]].uid = p /\ ~api[KeyOf[p]].node
          /\ \A c \in Binder : bind[c].pod # p
          /\ UNCHANGED api
      BY <1>2, <1>6 DEF CallStarts, Quiet
    <2>2. p \in born
      <3>1. KeyOf[p] \in Key /\ api[KeyOf[p]] \in Ahead(KeyOf[p]) /\ p # None
        BY KeyOfAssumption, NoneAssumption DEF Ahead
      <3> QED
        BY <2>1, <3>1, NoPodIsNoObject DEF Ends, UnderOwnKey
    <2>3. CallsApart'
      BY <1>1, <2>1, <2>2 DEF Calls, CallsApart
    <2>4. NotYetBound'
      BY <1>1, <1>3, <2>1 DEF Calls, NotYetBound, TheKey
    <2> QED
      BY <1>4, <2>3, <2>4 DEF Calls
  <1>7. ASSUME bind[b].pc # "idle", NEW pc, pc # "idle", CallGoesTo(b, pc),
               pc \notin {"idle", "get"} => bind'[b].held.uid = bind[b].pod,
               pc = "reget" => "bare" \in Env,
               \A c \in Binder : c # b /\ TheKey(c) \in Key =>
                 \/ api'[TheKey(c)] = api[TheKey(c)]
                 \/ api'[TheKey(c)].uid = bind[b].pod,
               \/ pc = "mark"
               \/ /\ UNCHANGED api /\ bind[b].pc # "mark" /\ pc # "bind"
               \/ /\ ~api'[k].node /\ (pc = "bind" => api'[k].ids = bind'[b].ids)
        PROVE  Calls'
    <2>1. bind'[b].pc = pc /\ bind'[b].pod = bind[b].pod /\ TheKey(b)' = k
      BY <1>7 DEF CallGoesTo, TheKey
    <2>2. CallsApart'
      BY <1>1, <1>7, <2>1 DEF Calls, CallsApart
    <2>3. ASSUME NEW c \in Binder, c # b, bind[c].pc \notin {"idle", "mark"},
                 api'[TheKey(c)].uid = bind[c].pod
          PROVE  api'[TheKey(c)] = api[TheKey(c)]
      <3>1. bind[c].pod # bind[b].pod /\ TheKey(c) \in Key
        BY <1>7, <2>3, CallHolder DEF Calls, CallsApart
      <3> QED
        BY <1>7, <2>3, <3>1
    <2>4. NotYetBound'
      <3> SUFFICES ASSUME NEW c \in Binder, bind'[c].pc \notin {"idle", "mark"},
                          api'[TheKey(c)'].uid = bind'[c].pod
                   PROVE  /\ ~api'[TheKey(c)'].node
                          /\ bind'[c].pc = "bind" => api'[TheKey(c)'].ids = bind'[c].ids
        BY DEF NotYetBound
      <3>1. CASE c # b
        BY <1>1, <1>3, <2>3, <3>1 DEF Calls, NotYetBound
      <3>2. CASE c = b
        BY <1>7, <2>1, <3>2 DEF Calls, NotYetBound
      <3> QED
        BY <3>1, <3>2
    <2> QED
      BY <1>4, <2>2, <2>4 DEF Calls
  <1>8. CASE CallHolds(b) \/ CallLocks(b) \/ CallChooses(b)
    <2>1. UNCHANGED api
      BY <1>8 DEF CallHolds, CallLocks, CallChooses, Quiet
    <2>2. bind'[b].held.uid = bind[b].pod
      BY <1>8 DEF CallHolds, CallLocks, CallChooses, Calls, CallsApart
    <2> QED
      BY <1>7, <1>8, <2>1, <2>2 DEF CallHolds, CallLocks, CallChooses
  <1>9. CASE CallRereads(b)
    <2>1. UNCHANGED api /\ bind[b].pc \in {"update", "reget"}
      BY <1>9 DEF CallRereads, Quiet
    <2>2. CASE bind[b].pc = "update"
      <3>1. bind'[b].held.uid = bind[b].pod
        BY <1>9, <2>2 DEF CallRereads, Calls, CallsApart
      <3> QED
        BY <1>7, <1>9, <2>1, <2>2, <3>1 DEF CallRereads
    <2>3. CASE bind[b].pc = "reget"
      <3>1. /\ bind'[b].held = api[k] /\ api[k] # NoPod /\ k \in Key
            /\ bind[b].pod \in Pod /\ KeyOf[bind[b].pod] = k
        BY <1>9, <2>3, CallHolder DEF CallRereads, TheKey
      <3>2. api[k].uid \in Pod /\ KeyOf[api[k].uid] = k
        BY <3>1, SlotHolds DEF TypeOK, Ends, UnderOwnKey, Ahead
      <3>3. api[k].uid = bind[b].pod
        BY <2>3, <3>1, <3>2 DEF SafeEnv, Calls, CallsApart
      <3> QED
        BY <1>7, <1>9, <2>1, <2>3, <3>1, <3>3 DEF CallRereads
    <2> QED
      BY <2>1, <2>2, <2>3
  <1>10. CASE CallWrites(b) /\ CallGoesTo(b, "bind")
    <2>1. /\ bind[b].pc \in {"update", "reupdate"} /\ api[k] = bind[b].held
          /\ bind[b].held \in Object /\ k \in Key
          /\ api' = [api EXCEPT ![k] = [bind[b].held EXCEPT !.ids = bind[b].ids]]
          /\ bind[b].held.uid = bind[b].pod
          /\ bind'[b].held.uid = bind[b].pod /\ bind'[b].ids = bind[b].ids
      BY <1>2, <1>10, CallHolder
      DEF CallWrites, Store, Calls, CallsApart, CallEnds, IdleBind, CallGoesTo
    <2>2. api'[k].uid = bind[b].pod /\ api'[k].ids = bind[b].ids
          /\ api'[k].node = api[k].node
          /\ \A j \in Key : j # k => api'[j] = api[j]
      BY <2>1 DEF Object, TypeOK
    <2>3. ~api[k].node
      BY <2>1 DEF Calls, NotYetBound
    <2> QED
      BY <1>7, <1>10, <2>1, <2>2, <2>3
  <1>11. CASE CallBinds(b) /\ CallGoesTo(b, "mark")
    <2>1. /\ bind[b].pc = "bind" /\ k \in Key
          /\ api[k].uid = bind[b].pod /\ bind[b].pod \in Pod
          /\ api' = [api EXCEPT ![k] = [api[k] EXCEPT !.node = TRUE]]
          /\ bind'[b].held.uid = bind[b].pod
      BY <1>2, <1>11, CallHolder
      DEF CallBinds, Store, Calls, CallsApart, CallEnds, IdleBind, CallGoesTo
    <2>2. api[k] \in Object
      BY <2>1, SlotHolds DEF TypeOK
    <2>3. api'[k].uid = bind[b].pod /\ \A j \in Key : j # k => api'[j] = api[j]
      BY <2>1, <2>2 DEF Object, TypeOK
    <2> QED
      BY <1>7, <1>11, <2>1, <2>3
  <1>12. ASSUME NEW g \in GPU, CallMarks(b, g)
         PROVE  Calls'
    <2>1. bind[b].pc = "mark" /\ UNCHANGED api /\ CallGoesTo(b, "mark")
      BY <1>12 DEF CallMarks, BindMark
    <2>2. bind'[b].held.uid = bind[b].pod
      BY <1>12, <2>1 DEF CallMarks, Calls, CallsApart
    <2> QED
      BY <1>7, <2>1, <2>2
  <1> QED
    BY <1>1, <1>2, <1>5, <1>6, <1>8, <1>9, <1>10, <1>11, <1>12
    DEF CallStep, CallFails, CallWrites, CallBinds

LEMMA CallsStep ==
  ASSUME TypeOK, SafeEnv, Ends, Calls, [Next]_vars
  PROVE  Calls'
  <1>1. CASE CrashRestart
    <2>1. \A b \in Binder : bind'[b] = IdleBind
      BY <1>1 DEF CrashRestart
    <2> QED
      BY <2>1 DEF Calls, LockIsHeld, CallsApart, NotYetBound, IdleBind
  <1>2. CASE Informer
    BY <1>2, CallsUnchanged DEF Informer, Deliver, Relist, Resync, Apply, cluster
  <1>3. CASE Handler
    BY <1>3, CallsUnchanged DEF Handler, HandleAdd, HandleUpdate, HandleRecheck,
       HandleDelete, HandleStore, Handling, cluster
  <1>4. CASE Worker
    BY <1>4, CallsUnchanged, WorkerSteps
  <1>5. ASSUME NEW k \in Key, WaitingFires(k)
        PROVE  Calls'
    BY <1>5, CallsUnchanged DEF WaitingFires, cluster
  <1>6. CASE UNCHANGED vars
    BY <1>6, CallsUnchanged, Unchanged
  <1> QED
    BY <1>1, <1>2, <1>3, <1>4, <1>5, <1>6, CallsCluster, CallsBind DEF Next
-----------------------------------------------------------------------------
(* Devices: Devices is inductive together with Ends and Calls.              *)

LEMMA CopiesHold ==
  ASSUME TypeOK
  PROVE  /\ \A o \in Copies : o \in Slot /\ (o.node => o.uid \in Pod)
         /\ \A o \in Slot : \A g \in GPUIDs(o) : g \in GPU /\ g \in o.ids
  <1>1. \A o \in Copies : o \in Slot
    BY AheadHolds, DeletionsHold DEF Copies, TypeOK, Slot
  <1>2. \A o \in Slot : o.node => o.uid \in Pod
    BY SlotHolds
  <1>3. \A o \in Slot : \A g \in GPUIDs(o) : g \in GPU
    BY GPUIDsType
  <1> QED
    BY <1>1, <1>2, <1>3 DEF GPUIDs

LEMMA ReservedSame ==
  ASSUME UNCHANGED <<podMap, isUsed, bind, mutex>>
  PROVE  \A p, g : Reserved(p, g)' <=> Reserved(p, g)
  BY DEF Reserved

\* a step that reserves and releases nothing, and shows no new copy of a bound pod
LEMMA DevicesSame ==
  ASSUME TypeOK, Devices, NEW u, u = worker'.pod.uid,
         \A p, g : Reserved(p, g)' <=> Reserved(p, g),
         FlagMatchesPods', ChosenFree', NothingFinished',
         \A o \in Copies' : o \in Copies \/ ~o.node,
         worker'.pc \in {"add", "remove"} => \A g \in worker'.rest : Reserved(u, g)
  PROVE  Devices'
  <1>1. CopiesReserved'
    BY DEF Devices, CopiesReserved
  <1>2. OneOwner'
    BY DEF Devices, OneOwner
  <1> QED
    BY <1>1, <1>2 DEF Devices

\* a step of the cluster, the informer, the handlers or the worker that touches
\* no device
LEMMA DevicesQuiet ==
  ASSUME TypeOK, Devices, UNCHANGED <<podMap, isUsed, bind, mutex>>,
         NothingFinished',
         \A o \in Copies' : o \in Copies \/ ~o.node,
         NEW u, u = worker'.pod.uid,
         worker'.pc \in {"add", "remove"} => \A g \in worker'.rest : Reserved(u, g)
  PROVE  Devices'
  <1>1. \A p, g : Reserved(p, g)' <=> Reserved(p, g)
    BY ReservedSame
  <1>2. FlagMatchesPods'
    BY DEF Devices, FlagMatchesPods
  <1>3. ChosenFree'
    BY <1>1 DEF Devices, ChosenFree
  <1> QED
    BY <1>1, <1>2, <1>3, DevicesSame

LEMMA DevicesInit == Init => Devices
  <1> SUFFICES ASSUME Init PROVE Devices
    OBVIOUS
  <1>1. /\ notes = << >> /\ worker.pc = "idle" /\ lister = api
        /\ \A k \in Key : watch[k] = << >> /\ removed[k] = NoPod
        /\ \A b \in Binder : bind[b].pc = "idle"
        /\ \A g \in GPU : podMap[g] = {} /\ isUsed[g] = FALSE
    BY DEF Init, IdleWorker, IdleBind
  <1>2. \A k \in Key : ~api[k].node /\ ~api[k].done
    BY DEF Init, NewPod, NoPod
  <1>3. Deletions = {} /\ \A k \in Key : Ahead(k) = {api[k]}
    BY <1>1 DEF Deletions, Ahead
  <1>4. \A o \in Copies : ~o.node
    <2>1. ~NoPod.node
      BY NoPodIsNoObject
    <2> QED
      BY <1>1, <1>2, <1>3, <2>1 DEF Copies
  <1>5. \A p \in Pod, g \in GPU : ~Reserved(p, g)
    BY <1>1 DEF Reserved
  <1> QED
    BY <1>1, <1>2, <1>3, <1>4, <1>5
    DEF Devices, NothingFinished, CopiesReserved, OneOwner, ChosenFree, FlagMatchesPods

\* a step that leaves the handlers and the worker alone
LEMMA CopiesAhead ==
  ASSUME UNCHANGED <<notes, removed, worker>>,
         \A k \in Key : \A o \in Ahead(k)' : o \in Ahead(k) \/ (~o.node /\ ~o.done),
         NothingFinished
  PROVE  /\ NothingFinished'
         /\ \A o \in Copies' : o \in Copies \/ ~o.node
  BY DEF NothingFinished, Copies, Deletions

\* a copy stored under k is what the watch tells
LEMMA AheadStored ==
  ASSUME TypeOK, NEW k \in Key, NEW c \in Changes, NEW s \in {NoPod, c.obj},
         api' = [api EXCEPT ![k] = s],
         watch' = [watch EXCEPT ![k] = Append(@, c)], UNCHANGED lister
  PROVE  \A j \in Key : \A o \in Ahead(j)' : o \in Ahead(j) \/ o = NoPod \/ o = c.obj
  <1>1. /\ watch \in [Key -> Seq(Changes)] /\ api \in [Key -> Slot]
        /\ api'[k] = s /\ watch'[k] = Append(watch[k], c)
        /\ \A j \in Key : j # k => api'[j] = api[j] /\ watch'[j] = watch[j]
    BY DEF TypeOK
  <1> DEFINE n == Len(watch[k])
  <1>2. /\ n \in Nat /\ DOMAIN watch[k] = 1 .. n /\ DOMAIN watch'[k] = 1 .. n + 1
        /\ \A i \in DOMAIN watch[k] : watch'[k][i] = watch[k][i]
        /\ watch'[k][n + 1] = c
    BY <1>1, Appended
  <1> HIDE DEF n
  <1> QED
    BY <1>1, <1>2 DEF Ahead

LEMMA NoPodIsFresh == ~NoPod.node /\ ~NoPod.done
  BY DEF NoPod, NewPod

LEMMA DevicesCluster ==
  ASSUME TypeOK, SafeEnv, Devices, Cluster
  PROVE  Devices'
  <1>1. UNCHANGED <<notes, removed, worker, podMap, isUsed, bind, mutex, lister>>
    BY DEF Cluster, CreatePod, FinishPod, DeletePod, NodeFlap, control, cache, informer
  <1>2. \A k \in Key : \A o \in Ahead(k)' : o \in Ahead(k) \/ (~o.node /\ ~o.done)
    <2>1. ASSUME NEW p \in Pod, CreatePod(p)
          PROVE  \A k \in Key : \A o \in Ahead(k)' : o \in Ahead(k) \/ (~o.node /\ ~o.done)
      <3>1. PICK c : c = Change("set", NewPod(p))
        OBVIOUS
      <3>2. /\ KeyOf[p] \in Key /\ c \in Changes /\ c.obj = NewPod(p)
        BY <3>1, KeyOfAssumption DEF Change, Changes, NewPod, Object
      <3>3. /\ api' = [api EXCEPT ![KeyOf[p]] = c.obj]
            /\ watch' = [watch EXCEPT ![KeyOf[p]] = Append(@, c)]
        BY <2>1, <3>1, <3>2 DEF CreatePod, Store
      <3>4. ~c.obj.node /\ ~c.obj.done
        BY <3>2 DEF NewPod
      <3> QED
        BY <1>1, <3>2, <3>3, <3>4, AheadStored, NoPodIsFresh
    <2>2. ASSUME NEW k \in Key, DeletePod(k)
          PROVE  \A j \in Key : \A o \in Ahead(j)' : o \in Ahead(j) \/ (~o.node /\ ~o.done)
      <3>1. api[k] \in Object
        BY <2>2, SlotHolds DEF DeletePod, TypeOK
      <3>2. PICK c : c = Change("del", api[k])
        OBVIOUS
      <3>3. c \in Changes /\ c.obj = api[k]
        BY <3>1, <3>2 DEF Change, Changes
      <3>4. /\ api' = [api EXCEPT ![k] = NoPod]
            /\ watch' = [watch EXCEPT ![k] = Append(@, c)]
        BY <2>2, <3>2 DEF DeletePod, Delete
      <3>5. ASSUME NEW j \in Key, NEW o \in Ahead(j)', o = api[k]
            PROVE  o \in Ahead(j)
        <4>1. CASE j = k
          BY <3>5, <4>1 DEF Ahead
        <4>2. CASE j # k
          BY <1>1, <3>4, <4>2 DEF Ahead, TypeOK
        <4> QED
          BY <4>1, <4>2
      <3> QED
        BY <1>1, <3>3, <3>4, <3>5, AheadStored, NoPodIsFresh
    <2>3. CASE NodeFlap
      BY <2>3 DEF NodeFlap, informer, Ahead
    <2> QED
      BY <2>1, <2>2, <2>3 DEF Cluster, FinishPod, SafeEnv
  <1>3. /\ NothingFinished'
        /\ \A o \in Copies' : o \in Copies \/ ~o.node
    BY <1>1, <1>2, CopiesAhead DEF Devices
  <1>4. PICK u : u = worker.pod.uid
    OBVIOUS
  <1>5. worker.pc \in {"add", "remove"} => \A g \in worker.rest : Reserved(u, g)
    BY <1>4 DEF Devices, CopiesReserved
  <1> QED
    BY <1>1, <1>3, <1>4, <1>5, DevicesQuiet

LEMMA DevicesInformer ==
  ASSUME TypeOK, Ends, Devices, Informer
  PROVE  Devices'
  <1>1. UNCHANGED <<api, removed, worker, podMap, isUsed, bind, mutex>>
    BY InformerSteps
  <1>2. ASSUME NEW k \in Key, NEW o \in Slot, NEW n \in Notes, Informs(k, o, n)
        PROVE  /\ \A j \in Key : \A q \in Ahead(j)' : q \in Ahead(j) \/ q = NoPod
               /\ \A i \in Deletions' : notes'[i].new \in Copies
    <2>1. \A j \in Key : \A q \in Ahead(j)' : q \in Ahead(j) \/ q = NoPod
      BY <1>1, <1>2, InformerSteps, Applied DEF Informs
    <2> DEFINE m == Len(notes)
    <2>2. notes' = Append(notes, n)
      BY <1>2 DEF Informs
    <2>3. /\ m \in Nat
          /\ DOMAIN notes = 1 .. m /\ DOMAIN notes' = 1 .. m + 1
          /\ \A i \in DOMAIN notes : notes'[i] = notes[i]
          /\ notes'[m + 1] = n
      BY <2>2, Appended DEF TypeOK
    <2> HIDE DEF m
    <2>4. ASSUME NEW i \in Deletions'
          PROVE  notes'[i].new \in Copies
      <3>1. CASE i \in DOMAIN notes
        BY <2>3, <2>4, <3>1 DEF Deletions, Copies
      <3>2. CASE i = m + 1
        BY <1>2, <2>3, <2>4, <3>2 DEF Deletions, Informs, Copies
      <3> QED
        BY <2>3, <2>4, <3>1, <3>2 DEF Deletions
    <2> QED
      BY <2>1, <2>4
  <1>3. ASSUME NEW k \in Key, InformsNothing(k)
        PROVE  /\ \A j \in Key : \A q \in Ahead(j)' : q \in Ahead(j) \/ q = NoPod
               /\ \A i \in Deletions' : notes'[i].new \in Copies
    <2>1. \A j \in Key : \A q \in Ahead(j)' : q \in Ahead(j) \/ q = NoPod
      BY <1>1, <1>3, InformerSteps, Applied DEF InformsNothing
    <2> QED
      BY <1>3, <2>1 DEF InformsNothing, Deletions, Copies
  <1>4. /\ \A j \in Key : \A q \in Ahead(j)' : q \in Ahead(j) \/ q = NoPod
        /\ \A i \in Deletions' : notes'[i].new \in Copies
    BY <1>2, <1>3, InformerSteps
  <1>5. \A o \in Copies' : o \in Copies \/ ~o.node
    BY <1>1, <1>4, NoPodIsFresh DEF Copies
  <1>6. NothingFinished'
    BY <1>1, <1>4, NoPodIsFresh DEF Devices, NothingFinished
  <1>7. PICK u : u = worker.pod.uid
    OBVIOUS
  <1>8. worker.pc \in {"add", "remove"} => \A g \in worker.rest : Reserved(u, g)
    BY <1>7 DEF Devices, CopiesReserved
  <1> QED
    BY <1>1, <1>5, <1>6, <1>7, <1>8, DevicesQuiet

LEMMA DevicesHandler ==
  ASSUME TypeOK, Ends, Devices, Handler
  PROVE  Devices'
  <1>1. /\ notes # << >> /\ notes \in Seq(Notes)
        /\ UNCHANGED <<api, watch, lister, worker, podMap, isUsed, bind, mutex>>
        /\ notes' = notes \/ notes' = Tail(notes)
    BY DEF Handler, HandleAdd, HandleUpdate, HandleRecheck, HandleDelete,
           HandleStore, Handling, TypeOK, cluster, cache
  <1>2. \A k \in Key : \A o \in Ahead(k)' : o \in Ahead(k)
    BY <1>1 DEF Ahead
  <1>3. NothingFinished'
    BY <1>1, <1>2 DEF Devices, NothingFinished
  <1>4. \A i \in Deletions' : notes'[i].new \in Copies
    <2>1. CASE notes' = notes
      BY <2>1 DEF Deletions, Copies
    <2>2. CASE notes' = Tail(notes)
      <3>1. \A i \in Deletions' : /\ i + 1 \in Deletions /\ notes'[i] = notes[i + 1]
        BY <1>1, <2>2, Tailed DEF Deletions
      <3> QED
        BY <3>1 DEF Copies
    <2> QED
      BY <1>1, <2>1, <2>2
  <1>5. \A k \in Key : removed'[k] = removed[k] \/ removed'[k] \in Copies
    <2>1. CASE HandleStore
      <3>1. note = notes[1] /\ 1 \in DOMAIN notes
        BY <1>1, Tailed DEF note
      <3>2. 1 \in Deletions
        BY <2>1, <3>1 DEF HandleStore, Ends, HandlerInPlace, Deletions
      <3>3. note.new \in Copies
        BY <3>1, <3>2 DEF Copies
      <3> QED
        BY <2>1, <3>3 DEF HandleStore, TypeOK
    <2> QED
      BY <2>1 DEF Handler, HandleAdd, HandleUpdate, HandleRecheck, HandleDelete
  <1>6. \A o \in Copies' : o \in Copies
    BY <1>1, <1>2, <1>4, <1>5 DEF Copies
  <1>7. PICK u : u = worker.pod.uid
    OBVIOUS
  <1>8. worker.pc \in {"add", "remove"} => \A g \in worker.rest : Reserved(u, g)
    BY <1>7 DEF Devices, CopiesReserved
  <1> QED
    BY <1>1, <1>3, <1>6, <1>7, <1>8, DevicesQuiet

\* what the worker has in hand
LEMMA InHand ==
  ASSUME TypeOK, worker.pc \in {"add", "remove"}
  PROVE  /\ worker.pod \in Object /\ worker.pod.uid \in Pod
         /\ worker.key \in Key /\ worker.rest \in SUBSET GPU
  BY WorkerKinds DEF TypeOK

\* the pod that the worker is removing has no other copy
LEMMA NoOtherCopy ==
  ASSUME TypeOK, Ends, Devices, worker.pc = "remove"
  PROVE  \A o \in Copies : o.uid # worker.pod.uid
  <1> DEFINE p == worker.pod.uid
  <1>1. /\ Handled(p) /\ KeyOf[p] = worker.key /\ p \in Pod
    BY InHand DEF Ends, EndedOnce, UnderOwnKey, Devices, NothingFinished
  <1>2. /\ \A o \in Ahead(KeyOf[p]) : o.uid # p
        /\ \A i \in Deletions : notes[i].new.uid # p
    BY <1>1 DEF Handled, Past
  <1>3. p # None
    BY <1>1, NoneAssumption
  <1> HIDE DEF p
  <1>4. ASSUME NEW k \in Key, NEW o \in Ahead(k)
        PROVE  o.uid # p
    BY <1>2, <1>3, <1>4, NoPodIsNoObject DEF Ends, UnderOwnKey
  <1>5. ASSUME NEW k \in Key, worker.key # k
        PROVE  removed[k].uid # p
    BY <1>1, <1>3, <1>5, NoPodIsNoObject DEF Ends, UnderOwnKey
  <1> QED
    BY <1>2, <1>4, <1>5 DEF Copies, p

LEMMA DevicesWorker ==
  ASSUME TypeOK, Ends, Calls, Devices, Worker
  PROVE  Devices'
  <1>1. UNCHANGED <<api, watch, lister, notes, bind, mutex>>
    BY WorkerSteps
  <1>2. /\ \A k \in Key : \A o : o \in Ahead(k)' <=> o \in Ahead(k)
        /\ Deletions' = Deletions
    BY <1>1 DEF Ahead, Deletions
  <1>3. (worker'.pc = "remove" => worker'.stored) => NothingFinished'
    BY <1>2 DEF Devices, NothingFinished
  <1>4. PICK u : u = worker'.pod.uid
    OBVIOUS
  <1>5. CASE WorkerPasses
    <2>1. NothingFinished'
      BY <1>3, <1>5 DEF WorkerPasses
    <2>2. \A o \in Copies' : o \in Copies
      BY <1>1, <1>2, <1>5 DEF WorkerPasses, Copies
    <2>3. worker'.pc \notin {"add", "remove"} /\ UNCHANGED <<podMap, isUsed>>
      BY <1>5 DEF WorkerPasses
    <2> QED
      BY <1>1, <1>4, <2>1, <2>2, <2>3, DevicesQuiet
  <1>6. ASSUME NEW o \in Object, WorkerTakes(o)
        PROVE  Devices'
    <2>1. /\ worker.pc \in {"sync", "lookup"} /\ worker.key \in Key
          /\ worker'.pod = o /\ worker'.rest \subseteq GPUIDs(o)
          /\ worker'.rest # {} => o.node
          /\ UNCHANGED <<removed, podMap, isUsed>>
      BY <1>6, WorkerKinds DEF WorkerTakes, TypeOK
    <2>2. o \in Copies /\ (worker.pc = "sync" => o \in Ahead(worker.key))
      BY <1>6, <2>1 DEF WorkerTakes, Copies, Ahead
    <2>3. NothingFinished'
      BY <1>3, <1>6, <2>1, <2>2 DEF WorkerTakes, Devices, NothingFinished
    <2>4. \A q \in Copies' : q \in Copies
      BY <1>1, <1>2, <2>1 DEF Copies
    <2>5. \A g \in worker'.rest : Reserved(u, g)
      <3>1. u = o.uid
        BY <1>4, <2>1
      <3> QED
        BY <2>1, <2>2, <3>1 DEF Devices, CopiesReserved
    <2> QED
      BY <1>1, <1>4, <2>1, <2>3, <2>4, <2>5, DevicesQuiet
  <1>7. CASE WorkerDrops
    <2>1. /\ worker.pc = "remove" /\ worker.stored /\ worker'.pc = "done"
          /\ UNCHANGED <<podMap, isUsed>>
      BY <1>7 DEF WorkerDrops, WorkerForget, Devices, NothingFinished
    <2>2. NothingFinished'
      BY <1>3, <2>1
    <2>3. \A k \in Key : removed'[k] = IF k = worker.key THEN NoPod ELSE removed[k]
      BY <1>7, <2>1 DEF WorkerDrops
    <2>4. \A o \in Copies' : o \in Copies \/ ~o.node
      BY <1>1, <1>2, <2>1, <2>3, NoPodIsFresh DEF Copies
    <2> QED
      BY <1>1, <1>4, <2>1, <2>2, <2>4, DevicesQuiet
  <1>8. ASSUME NEW g \in GPU, WorkerTouches(g)
        PROVE  Devices'
    <2>1. /\ worker'.pc = worker.pc /\ worker'.key = worker.key /\ u = worker.pod.uid
          /\ worker'.stored = worker.stored
          /\ worker'.rest = worker.rest \ {g} /\ g \in worker.rest
          /\ worker.pc \in {"add", "remove"} /\ UNCHANGED removed
      BY <1>4, <1>8 DEF WorkerTouches, WorkerAddDevice, WorkerRemoveDevice
    <2>2. /\ u \in Pod /\ Reserved(u, g)
          /\ \A h \in worker.rest : h \in GPU /\ Reserved(u, h)
      BY <2>1, InHand DEF Devices, CopiesReserved
    <2>3. \A o \in Copies' : o \in Copies
      BY <1>1, <1>2, <2>1 DEF Copies
    <2>4. NothingFinished'
      BY <1>3, <2>1 DEF Devices, NothingFinished
    <2>5. /\ podMap \in [GPU -> SUBSET Pod] /\ isUsed \in [GPU -> BOOLEAN]
          /\ \A h \in GPU : isUsed[h] <=> podMap[h] # {}
      BY DEF TypeOK, Devices, FlagMatchesPods
    <2>6. CASE WorkerAddDevice(g)
      <3>1. /\ podMap' = [podMap EXCEPT ![g] = @ \union {u}]
            /\ isUsed' = [isUsed EXCEPT ![g] = TRUE]
        BY <2>1, <2>6 DEF WorkerAddDevice
      <3>2. \A h \in GPU, p \in Pod : Reserved(p, h)' <=> Reserved(p, h)
        <4>1. \A h \in GPU, p \in Pod :
                (isUsed'[h] /\ p \in podMap'[h]) <=>
                  ((isUsed[h] /\ p \in podMap[h]) \/ (p = u /\ h = g))
          BY <2>5, <3>1
        <4> QED
          BY <1>1, <2>2, <4>1 DEF Reserved
      <3>3. FlagMatchesPods'
        BY <2>5, <3>1 DEF FlagMatchesPods
      <3>4. CopiesReserved'
        <4>1. \A o \in Copies' : o.node => \A h \in GPUIDs(o) : Reserved(o.uid, h)'
          BY <2>3, <3>2, CopiesHold DEF Devices, CopiesReserved
        <4>2. \A h \in worker'.rest : Reserved(u, h)'
          BY <2>1, <2>2, <3>2
        <4> QED
          BY <1>4, <4>1, <4>2 DEF CopiesReserved
      <3>5. OneOwner' /\ ChosenFree'
        BY <1>1, <3>2 DEF Devices, OneOwner, ChosenFree
      <3> QED
        BY <2>4, <3>3, <3>4, <3>5 DEF Devices
    <2>7. CASE WorkerRemoveDevice(g)
      <3>1. /\ podMap' = [podMap EXCEPT ![g] = @ \ {u}]
            /\ isUsed' = [isUsed EXCEPT ![g] = FALSE] /\ worker.pc = "remove"
        BY <2>1, <2>7 DEF WorkerRemoveDevice
      <3>2. \A p \in podMap[g] : p = u
        <4>1. \A p \in podMap[g] : p \in Pod /\ isUsed[g]
          BY <2>5
        <4>2. \A p \in podMap[g] : Reserved(p, g)
          BY <4>1 DEF Reserved
        <4> QED
          BY <2>2, <4>1, <4>2 DEF Devices, OneOwner
      <3>3. \A h \in GPU, p \in Pod : Reserved(p, h)' => Reserved(p, h)
        BY <1>1, <2>5, <3>1 DEF Reserved
      <3>4. \A h \in GPU, p \in Pod :
              Reserved(p, h) /\ (p # u \/ h # g) => Reserved(p, h)'
        <4>1. \A h \in GPU, p \in Pod : p # u \/ h # g =>
                ((isUsed[h] /\ p \in podMap[h]) => (isUsed'[h] /\ p \in podMap'[h]))
          BY <2>5, <3>1, <3>2
        <4> QED
          BY <1>1, <4>1 DEF Reserved
      <3>5. FlagMatchesPods'
        BY <2>5, <3>1, <3>2 DEF FlagMatchesPods
      <3>6. CopiesReserved'
        <4>1. \A o \in Copies : o.uid # u
          BY <2>1, <3>1, NoOtherCopy
        <4>2. \A o \in Copies' : o.node => \A h \in GPUIDs(o) : Reserved(o.uid, h)'
          BY <2>3, <3>4, <4>1, CopiesHold DEF Devices, CopiesReserved
        <4>3. \A h \in worker'.rest : Reserved(u, h)'
          BY <2>1, <2>2, <3>4
        <4> QED
          BY <1>4, <4>2, <4>3 DEF CopiesReserved
      <3>7. OneOwner' /\ ChosenFree'
        BY <1>1, <3>3 DEF Devices, OneOwner, ChosenFree
      <3> QED
        BY <2>4, <3>5, <3>6, <3>7 DEF Devices
    <2> QED
      BY <1>8, <2>6, <2>7 DEF WorkerTouches
  <1> QED
    BY <1>5, <1>6, <1>7, <1>8, WorkerSteps

\* a step of call b that neither begins nor ends its marking
LEMMA ReservedByOthers ==
  ASSUME Calls, Calls', NEW b \in Binder, UNCHANGED <<podMap, isUsed>>,
         \A c \in Binder : c # b => bind'[c] = bind[c],
         bind[b].pc = "mark" => bind[b].rest = {}, bind'[b].pc # "mark"
  PROVE  \A p, g : Reserved(p, g)' <=> Reserved(p, g)
  BY DEF Reserved, Calls, LockIsHeld

\* what call b has chosen is free as long as it holds the lock
LEMMA ChosenByOthers ==
  ASSUME Calls', NEW b \in Binder, mutex' = b,
         bind'[b].pc \in {"update", "reget", "reupdate", "bind"} =>
           \A g \in bind'[b].ids \intersect GPU : \A p \in Pod : ~Reserved(p, g)'
  PROVE  ChosenFree'
  BY DEF Calls, LockIsHeld, ChosenFree

LEMMA ChosenByNobody ==
  ASSUME Calls, Calls', Devices, NEW b \in Binder,
         \A c \in Binder : c # b => bind'[c] = bind[c],
         \A p \in Pod, g \in GPU : Reserved(p, g)' <=> Reserved(p, g),
         bind'[b].pc \notin {"update", "reget", "reupdate", "bind"}
  PROVE  ChosenFree'
  BY DEF Devices, ChosenFree

\* until the API server has bound it, no copy of the pod of a call has a node
LEMMA DevicesBind ==
  ASSUME TypeOK, TypeOK', SafeEnv, Ends, Calls, Calls', Devices, NEW b \in Binder,
         Bind(b) \/ \E p \in Pod : BindRequest(b, p)
  PROVE  Devices'
  <1> DEFINE k == TheKey(b)
  <1>1. /\ CallStep(b) /\ UNCHANGED <<born, lister, notes, removed, worker>>
        /\ \A c \in Binder : c # b => bind'[c] = bind[c]
    BY BindSteps
  <1>2. "lost" \notin Env
    BY DEF SafeEnv
  <1>3. PICK u : u = worker.pod.uid
    OBVIOUS
  <1>4. worker.pc \in {"add", "remove"} =>
          u \in Pod /\ \A g \in worker.rest : g \in GPU /\ Reserved(u, g)
    BY <1>3, InHand DEF Devices, CopiesReserved
  <1>5. ASSUME UNCHANGED <<podMap, isUsed>>, ChosenFree',
               \A p, g : Reserved(p, g)' <=> Reserved(p, g),
               \A j \in Key : \A o \in Ahead(j)' : o \in Ahead(j) \/ (~o.node /\ ~o.done)
        PROVE  Devices'
    <2>1. /\ NothingFinished'
          /\ \A o \in Copies' : o \in Copies \/ ~o.node
      BY <1>1, <1>5, CopiesAhead DEF Devices
    <2>2. FlagMatchesPods'
      BY <1>5 DEF Devices, FlagMatchesPods
    <2> QED
      BY <1>1, <1>3, <1>4, <1>5, <2>1, <2>2, DevicesSame
  <1>6. ASSUME Quiet, bind[b].pc = "mark" => bind[b].rest = {}, bind'[b].pc # "mark",
               \/ bind'[b].pc \notin {"update", "reget", "reupdate", "bind"}
               \/ /\ mutex' = b
                  /\ \A g \in bind'[b].ids \intersect GPU : \A p \in Pod : ~Reserved(p, g)
        PROVE  Devices'
    <2>1. \A p, g : Reserved(p, g)' <=> Reserved(p, g)
      BY <1>1, <1>6, ReservedByOthers DEF Quiet
    <2>2. ChosenFree'
      BY <1>1, <1>6, <2>1, ChosenByOthers, ChosenByNobody
    <2>3. \A j \in Key : \A o \in Ahead(j)' : o \in Ahead(j)
      BY <1>1, <1>6 DEF Quiet, Ahead
    <2> QED
      BY <1>5, <1>6, <2>1, <2>2, <2>3 DEF Quiet
  <1>7. CASE CallFails(b)
    BY <1>6, <1>7 DEF CallFails, CallEnds, IdleBind
  <1>8. ASSUME NEW p \in Pod, CallStarts(b, p)
        PROVE  Devices'
    BY <1>6, <1>8 DEF CallStarts
  <1>9. CASE CallHolds(b)
    BY <1>6, <1>9 DEF CallHolds, CallGoesTo
  <1>10. CASE CallLocks(b)
    BY <1>6, <1>10 DEF CallLocks, CallGoesTo
  <1>11. CASE CallChooses(b)
    <2>1. /\ bind[b].pc = "choose" /\ Quiet /\ UNCHANGED mutex /\ bind'[b].pc = "update"
          /\ bind'[b].ids \in Outcomes(Free, Req[bind[b].held.uid])
          /\ bind[b].held.uid \in Pod /\ mutex = b
      BY <1>11, CallHolder DEF CallChooses, CallGoesTo, Calls, LockIsHeld, Object
    <2>2. bind'[b].ids \subseteq Free \union {NoGPU}
      <3>1. Free \in SUBSET GPU
        BY DEF Free
      <3> QED
        BY <2>1, <3>1, OutcomesAssumption
    <2>3. \A g \in Free : \A p \in Pod : ~Reserved(p, g)
      BY <2>1 DEF Free, Reserved
    <2>4. NoGPU \notin GPU
      BY GPUAssumption DEF NoGPU
    <2> QED
      BY <1>6, <2>1, <2>2, <2>3, <2>4
  <1>12. CASE CallRereads(b)
    <2>1. /\ bind[b].pc \in {"update", "reget"} /\ bind'[b].pc \in {"reget", "reupdate"}
          /\ bind'[b].ids = bind[b].ids /\ Quiet /\ UNCHANGED mutex /\ mutex = b
      BY <1>12 DEF CallRereads, CallGoesTo, Calls, LockIsHeld
    <2>2. \A g \in bind[b].ids \intersect GPU : \A p \in Pod : ~Reserved(p, g)
      BY <2>1 DEF Devices, ChosenFree
    <2> QED
      BY <1>6, <2>1, <2>2
  <1>13. ASSUME NEW o \in Object, k \in Key, Store(k, o)
         PROVE  \A j \in Key : \A q \in Ahead(j)' : q \in Ahead(j) \/ q = NoPod \/ q = o
    <2>1. PICK c : c = Change("set", o)
      OBVIOUS
    <2>2. c \in Changes /\ c.obj = o
      BY <2>1 DEF Change, Changes
    <2> QED
      BY <1>1, <1>13, <2>1, <2>2, AheadStored DEF Store
  <1>14. CASE CallWrites(b)
    <2>1. /\ bind[b].pc \in {"update", "reupdate"} /\ api[k] = bind[b].held
          /\ bind[b].held \in Object /\ k \in Key
          /\ bind[b].held.uid = bind[b].pod
          /\ bind'[b].pc = "bind" /\ bind'[b].ids = bind[b].ids
          /\ UNCHANGED <<mutex, podMap, isUsed>> /\ mutex = b
      BY <1>2, <1>14, CallHolder
      DEF CallWrites, Calls, CallsApart, LockIsHeld, CallGoesTo
    <2>2. PICK o : o = [bind[b].held EXCEPT !.ids = bind[b].ids]
      OBVIOUS
    <2>3. o \in Object /\ o.node = api[k].node /\ o.done = api[k].done
      BY <2>1, <2>2, CallHolder DEF Object
    <2>4. ~o.node /\ ~o.done
      <3>1. ~api[k].node
        BY <2>1 DEF Calls, NotYetBound
      <3>2. ~api[k].done
        BY <2>1 DEF Devices, NothingFinished, Ahead
      <3> QED
        BY <2>3, <3>1, <3>2
    <2>5. \A j \in Key : \A q \in Ahead(j)' : q \in Ahead(j) \/ (~q.node /\ ~q.done)
      BY <1>13, <1>14, <2>1, <2>2, <2>3, <2>4, NoPodIsFresh DEF CallWrites
    <2>6. \A p, g : Reserved(p, g)' <=> Reserved(p, g)
      BY <1>1, <2>1, ReservedByOthers
    <2>7. \A g \in bind[b].ids \intersect GPU : \A p \in Pod : ~Reserved(p, g)
      BY <2>1 DEF Devices, ChosenFree
    <2>8. ChosenFree'
      BY <2>1, <2>6, <2>7, ChosenByOthers
    <2> QED
      BY <1>5, <2>1, <2>5, <2>6, <2>8
  <1>15. CASE CallBinds(b)
    <2>1. /\ bind[b].pc = "bind" /\ k \in Key /\ bind[b].pod \in Pod
          /\ api[k].uid = bind[b].pod /\ bind[b].held.uid = bind[b].pod
          /\ bind'[b].pc = "mark" /\ bind'[b].held.uid = bind[b].pod
          /\ bind'[b].rest = bind[b].ids \ {NoGPU}
          /\ UNCHANGED <<mutex, podMap, isUsed>> /\ mutex = b
      BY <1>2, <1>15, CallHolder
      DEF CallBinds, Calls, CallsApart, LockIsHeld, CallGoesTo
    <2>2. api[k] \in Object /\ api[k].ids = bind[b].ids
      BY <2>1, SlotHolds DEF TypeOK, Calls, NotYetBound
    <2>3. PICK o : o = [api[k] EXCEPT !.node = TRUE]
      OBVIOUS
    <2>4. /\ o \in Object /\ o.ids = bind[b].ids /\ o.uid = bind[b].pod
          /\ o.done = api[k].done
      BY <2>1, <2>2, <2>3 DEF Object
    <2>5. \A j \in Key : \A q \in Ahead(j)' : q \in Ahead(j) \/ q = NoPod \/ q = o
      BY <1>13, <1>15, <2>1, <2>3, <2>4 DEF CallBinds
    <2>6. NothingFinished'
      <3>1. ~o.done
        BY <2>1, <2>4 DEF Devices, NothingFinished, Ahead
      <3> QED
        BY <1>1, <2>5, <3>1, NoPodIsFresh DEF Devices, NothingFinished
    <2>7. \A p, g : Reserved(p, g)' <=>
            Reserved(p, g) \/ (p = bind[b].pod /\ g \in bind[b].ids \ {NoGPU})
      BY <1>1, <2>1 DEF Reserved
    <2>8. \A g \in GPU : g \in bind[b].ids \ {NoGPU} => \A p \in Pod : ~Reserved(p, g)
      BY <2>1 DEF Devices, ChosenFree
    <2>9. OneOwner'
      BY <2>7, <2>8 DEF Devices, OneOwner
    <2>10. ChosenFree'
      BY <2>1, ChosenByOthers
    <2>11. CopiesReserved'
      <3>1. \A q \in Copies' : q \in Copies \/ ~q.node \/ q = o
        BY <1>1, <2>5, NoPodIsFresh DEF Copies, Deletions
      <3>2. \A g \in GPUIDs(o) : g \in bind[b].ids \ {NoGPU}
        BY <2>4 DEF GPUIDs
      <3>3. \A q \in Copies' : q.node => \A g \in GPUIDs(q) : Reserved(q.uid, g)'
        BY <2>4, <2>7, <3>1, <3>2 DEF Devices, CopiesReserved
      <3>4. worker.pc \in {"add", "remove"} => \A g \in worker.rest : Reserved(u, g)'
        BY <1>4, <2>7
      <3> QED
        BY <1>1, <1>3, <3>3, <3>4 DEF CopiesReserved
    <2>12. FlagMatchesPods'
      BY <2>1 DEF Devices, FlagMatchesPods
    <2> QED
      BY <2>6, <2>9, <2>10, <2>11, <2>12 DEF Devices
  <1>16. ASSUME NEW g \in GPU, CallMarks(b, g)
         PROVE  Devices'
    <2> DEFINE p == bind[b].held.uid
    <2>1. /\ bind[b].pc = "mark" /\ mutex = b /\ g \in bind[b].rest
          /\ bind'[b].pc = "mark" /\ bind'[b].held.uid = p
          /\ bind'[b].rest = bind[b].rest \ {g}
          /\ podMap' = [podMap EXCEPT ![g] = @ \union {p}]
          /\ isUsed' = [isUsed EXCEPT ![g] = TRUE]
          /\ UNCHANGED <<api, watch, mutex>>
      BY <1>16 DEF CallMarks, BindMark, CallGoesTo, Calls, LockIsHeld
    <2>2. /\ podMap \in [GPU -> SUBSET Pod] /\ isUsed \in [GPU -> BOOLEAN]
          /\ \A h \in GPU : isUsed[h] <=> podMap[h] # {}
      BY DEF TypeOK, Devices, FlagMatchesPods
    <2> HIDE DEF p
    <2>3. \A h \in GPU : \A q : Reserved(q, h)' <=> Reserved(q, h)
      <3>1. \A h \in GPU : \A q :
              (isUsed'[h] /\ q \in podMap'[h]) <=>
                ((isUsed[h] /\ q \in podMap[h]) \/ (q = p /\ h = g))
        BY <2>1, <2>2
      <3>2. \A q, h :
              (\E c \in Binder : /\ bind[c].pc = "mark" /\ mutex = c
                                 /\ bind[c].held.uid = q /\ h \in bind[c].rest)
                <=> q = p /\ h \in bind[b].rest
        BY <2>1 DEF p
      <3>3. \A q, h :
              (\E c \in Binder : /\ bind'[c].pc = "mark" /\ mutex' = c
                                 /\ bind'[c].held.uid = q /\ h \in bind'[c].rest)
                <=> q = p /\ h \in bind[b].rest \ {g}
        BY <2>1
      <3> QED
        BY <2>1, <3>1, <3>2, <3>3 DEF Reserved
    <2>4. FlagMatchesPods'
      BY <2>1, <2>2 DEF FlagMatchesPods
    <2>5. ChosenFree'
      BY <2>1, ChosenByOthers
    <2>6. \A j \in Key : \A o : o \in Ahead(j)' <=> o \in Ahead(j)
      BY <1>1, <2>1 DEF Ahead
    <2>7. NothingFinished' /\ \A o \in Copies' : o \in Copies
      BY <1>1, <2>6 DEF Devices, NothingFinished, Copies, Deletions
    <2>8. CopiesReserved'
      <3>1. \A o \in Copies' : o.node => \A h \in GPUIDs(o) : Reserved(o.uid, h)'
        BY <2>3, <2>7, CopiesHold DEF Devices, CopiesReserved
      <3>2. worker.pc \in {"add", "remove"} => \A h \in worker.rest : Reserved(u, h)'
        BY <1>4, <2>3
      <3> QED
        BY <1>1, <1>3, <3>1, <3>2 DEF CopiesReserved
    <2>9. OneOwner'
      BY <2>3 DEF Devices, OneOwner
    <2> QED
      BY <2>4, <2>5, <2>7, <2>8, <2>9 DEF Devices
  <1> QED
    BY <1>1, <1>7, <1>8, <1>9, <1>10, <1>11, <1>12, <1>14, <1>15, <1>16 DEF CallStep

\* BuildCache: the bound pods that are listed have had their devices all along
LEMMA DevicesCrash ==
  ASSUME TypeOK, Devices, CrashRestart
  PROVE  Devices'
  <1>1. /\ notes' = << >> /\ worker'.pc = "idle" /\ lister' = api /\ UNCHANGED api
        /\ \A k \in Key : watch'[k] = << >> /\ removed'[k] = NoPod
        /\ \A b \in Binder : bind'[b].pc = "idle"
        /\ podMap' = BuiltPodMap(api) /\ isUsed' = BuiltUsed(api)
    BY DEF CrashRestart, cluster, IdleWorker, IdleBind
  <1>2. Deletions' = {} /\ \A k \in Key : \A o \in Ahead(k)' : o = api[k]
    BY <1>1 DEF Deletions, Ahead
  <1>3. \A k \in Key : api[k] \in Copies /\ api[k] \in Ahead(k)
    BY DEF Copies, Ahead
  <1>4. NothingFinished'
    BY <1>1, <1>2, <1>3 DEF Devices, NothingFinished
  <1>5. FlagMatchesPods'
    BY <1>1 DEF BuiltUsed, BuiltPodMap, FlagMatchesPods
  <1>6. \A g \in GPU : \A p : Reserved(p, g)' <=>
          \E k \in Key : api[k].node /\ GPUIDs(api[k]) # {} /\ api[k].uid = p /\ g \in api[k].ids
    <2>1. \A g \in GPU : \A p : Reserved(p, g)' <=> p \in podMap'[g]
      BY <1>1, <1>5 DEF Reserved, FlagMatchesPods
    <2>2. \A g \in GPU : podMap'[g] = {o.uid : o \in {l \in Listed(api) : g \in l.ids}}
      BY <1>1 DEF BuiltPodMap
    <2>3. \A o : o \in Listed(api) <=>
            \E k \in Key : api[k].node /\ GPUIDs(api[k]) # {} /\ o = api[k]
      BY DEF Listed
    <2>4. \A g \in GPU : \A p : p \in podMap'[g] <=>
            \E o \in Listed(api) : g \in o.ids /\ o.uid = p
      BY <2>2
    <2> QED
      BY <2>1, <2>3, <2>4
  <1>7. \A k \in Key : GPUIDs(api[k]) # {} => GPUIDs(api[k]) = api[k].ids
    BY DEF GPUIDs
  <1>8. OneOwner'
    <2>1. \A g \in GPU, p \in Pod : Reserved(p, g)' => Reserved(p, g)
      BY <1>3, <1>6, <1>7 DEF Devices, CopiesReserved
    <2> QED
      BY <2>1 DEF Devices, OneOwner
  <1>9. CopiesReserved'
    <2>1. \A o \in Copies' : o = NoPod \/ \E k \in Key : o = api[k]
      BY <1>1, <1>2 DEF Copies
    <2>2. \A k \in Key : api[k].node => \A g \in GPUIDs(api[k]) : Reserved(api[k].uid, g)'
      <3>1. \A k \in Key : \A g \in GPUIDs(api[k]) : g \in GPU /\ g \in api[k].ids
        BY <1>3, CopiesHold
      <3> SUFFICES ASSUME NEW k \in Key, api[k].node, NEW g \in GPUIDs(api[k])
                   PROVE  Reserved(api[k].uid, g)'
        BY <1>1
      <3>2. g \in GPU /\ g \in api[k].ids /\ GPUIDs(api[k]) # {}
        BY <3>1
      <3>3. PICK p : p = api[k].uid
        OBVIOUS
      <3>4. Reserved(p, g)'
        BY <1>6, <3>2, <3>3
      <3> QED
        BY <1>1, <3>3, <3>4
    <2> QED
      BY <1>1, <2>1, <2>2, NoPodIsFresh DEF CopiesReserved
  <1>10. ChosenFree'
    BY <1>1 DEF ChosenFree
  <1> QED
    BY <1>4, <1>5, <1>8, <1>9, <1>10 DEF Devices

LEMMA DevicesStep ==
  ASSUME TypeOK, TypeOK', SafeEnv, Ends, Calls, Calls', Devices, [Next]_vars
  PROVE  Devices'
  <1>1. ASSUME UNCHANGED <<podMap, isUsed, bind, mutex, worker, api, watch>>,
               UNCHANGED <<lister, notes, removed>>
        PROVE  Devices'
    <2>1. \A k \in Key : \A o : o \in Ahead(k)' <=> o \in Ahead(k)
      BY <1>1 DEF Ahead
    <2>2. NothingFinished' /\ \A o \in Copies' : o \in Copies
      BY <1>1, <2>1 DEF Devices, NothingFinished, Copies, Deletions
    <2>3. PICK u : u = worker.pod.uid
      OBVIOUS
    <2>4. worker.pc \in {"add", "remove"} => \A g \in worker.rest : Reserved(u, g)
      BY <2>3 DEF Devices, CopiesReserved
    <2> QED
      BY <1>1, <2>2, <2>3, <2>4, DevicesQuiet
  <1>2. CASE UNCHANGED vars
    BY <1>1, <1>2, Unchanged
  <1>3. ASSUME NEW k \in Key, WaitingFires(k)
        PROVE  Devices'
    BY <1>1, <1>3 DEF WaitingFires, cluster, informer, cache
  <1> QED
    BY <1>2, <1>3, DevicesCluster, DevicesInformer, DevicesHandler, DevicesWorker,
       DevicesBind, DevicesCrash DEF Next
-----------------------------------------------------------------------------
LEMMA ExclusionInit == Init => Exclusion
  <1>1. Init => Calls
    BY CallsIdle DEF Init
  <1> QED
    BY <1>1, EndsInit, DevicesInit DEF Exclusion

LEMMA ExclusionStep ==
  ASSUME SafeEnv, TypeOK, Exclusion, [Next]_vars
  PROVE  Exclusion'
  <1>1. TypeOK'
    BY NextType
  <1>2. Ends'
    BY EndsStep DEF Exclusion
  <1>3. Calls'
    BY CallsStep DEF Exclusion
  <1>4. Devices'
    BY <1>1, <1>3, DevicesStep DEF Exclusion
  <1> QED
    BY <1>2, <1>3, <1>4 DEF Exclusion

(***************************************************************************)
(* Ends are reported once, a pod that a call is about is not bound before, *)
(* and a device is reserved for one pod at a time: the inductive invariant *)
(* of the allocation, from allocate.go:20-86, controller.go:166-238 and    *)
(* :256-345 and deviceinfo.go:40-55 together.                              *)
(***************************************************************************)
THEOREM ExclusionHolds ==
  ASSUME SafeEnv
  PROVE  Spec => []Exclusion
  <1>1. Init => Exclusion
    BY ExclusionInit
  <1>2. TypeOK /\ Exclusion /\ [Next]_vars => Exclusion'
    BY ExclusionStep
  <1> QED
    BY <1>1, <1>2, TypeCorrect, PTL DEF Spec

\* the device of a running pod is reserved for it
LEMMA GrantedIsReserved ==
  ASSUME TypeOK, Exclusion, NEW k \in Key, NEW g \in Granted(k)
  PROVE  /\ api[k] \in Copies /\ api[k].uid \in Pod /\ KeyOf[api[k].uid] = k
         /\ g \in GPU /\ Reserved(api[k].uid, g)
  <1>1. api[k].node /\ g \in GPUIDs(api[k])
    BY DEF Granted, Live
  <1>2. api[k] \in Copies /\ api[k] \in Ahead(k) /\ api[k] \in Slot
    BY DEF Copies, Ahead, TypeOK
  <1>3. api[k] # NoPod /\ api[k].uid \in Pod
    BY <1>1, <1>2, SlotHolds, NoPodIsNoObject
  <1>4. KeyOf[api[k].uid] = k
    BY <1>2, <1>3 DEF Exclusion, Ends, UnderOwnKey
  <1>5. g \in GPU
    BY <1>1, <1>2, CopiesHold
  <1>6. Reserved(api[k].uid, g)
    BY <1>1, <1>2 DEF Exclusion, Devices, CopiesReserved
  <1> QED
    BY <1>2, <1>3, <1>4, <1>5, <1>6

(***************************************************************************)
(* A device that a running pod was told to use is marked for it, or is     *)
(* about to be by the call that holds Policy.rwmu (allocate.go:67-81).     *)
(***************************************************************************)
THEOREM MarkedWhileRunning ==
  ASSUME SafeEnv
  PROVE  Spec => []RunningIsMarked
  <1>1. TypeOK /\ Exclusion => RunningIsMarked
    BY GrantedIsReserved DEF RunningIsMarked
  <1> QED
    BY <1>1, TypeCorrect, ExclusionHolds, PTL

(***************************************************************************)
(* designs.md:23: GPUs are not oversubscribed.                             *)
(***************************************************************************)
THEOREM NeverOversubscribed ==
  ASSUME SafeEnv
  PROVE  Spec => []NoOversubscription
  <1>1. TypeOK /\ Exclusion => NoOversubscription
    <2> SUFFICES ASSUME TypeOK, Exclusion, NEW k \in Key, NEW j \in Key,
                        NEW g \in Granted(k), g \in Granted(j)
                 PROVE  k = j
      BY DEF NoOversubscription
    <2>1. api[k].uid = api[j].uid
      BY GrantedIsReserved DEF Exclusion, Devices, OneOwner
    <2> QED
      BY <2>1, GrantedIsReserved
  <1> QED
    BY <1>1, TypeCorrect, ExclusionHolds, PTL

(***************************************************************************)
(* isUsed says whether podMap is empty, although DeviceInfo.RemovePod      *)
(* clears it whatever podMap holds (deviceinfo.go:53-54).                  *)
(***************************************************************************)
THEOREM FlagsAgree ==
  ASSUME SafeEnv
  PROVE  Spec => []FlagMatchesPods
  <1>1. Exclusion => FlagMatchesPods
    BY DEF Exclusion, Devices
  <1> QED
    BY <1>1, ExclusionHolds, PTL

\* a step that clears the flag of device g
LEMMA ClearedByRemoval ==
  ASSUME TypeOK, [Next]_vars, NEW g \in GPU, isUsed[g], ~isUsed'[g]
  PROVE  CrashRestart \/ WorkerRemoveDevice(g)
  <1>1. isUsed \in [GPU -> BOOLEAN]
    BY DEF TypeOK
  <1>2. ASSUME Worker
        PROVE  WorkerRemoveDevice(g)
    <2>1. PICK h \in GPU : WorkerTouches(h)
      BY <1>1, <1>2, WorkerSteps DEF WorkerPasses, WorkerTakes, WorkerDrops, WorkerForget
    <2>2. CASE WorkerAddDevice(h)
      BY <1>1, <2>2 DEF WorkerAddDevice
    <2>3. CASE WorkerRemoveDevice(h)
      BY <1>1, <2>3 DEF WorkerRemoveDevice
    <2> QED
      BY <2>1, <2>2, <2>3 DEF WorkerTouches
  <1>3. ASSUME NEW b \in Binder, Bind(b) \/ \E p \in Pod : BindRequest(b, p)
        PROVE  FALSE
    <2>1. CallStep(b)
      BY <1>3, BindSteps
    <2>2. ASSUME NEW h \in GPU, CallMarks(b, h)
          PROVE  FALSE
      BY <1>1, <2>2 DEF CallMarks, BindMark
    <2> QED
      BY <2>1, <2>2 DEF CallStep, CallFails, CallHolds, CallLocks, CallChooses,
         CallRereads, CallWrites, CallBinds, CallStarts, Quiet
  <1>4. ~Cluster
    BY DEF Cluster, CreatePod, FinishPod, DeletePod, NodeFlap, cache
  <1>5. ~Informer
    BY DEF Informer, Deliver, Relist, Resync, Apply, cache
  <1>6. ~Handler
    BY DEF Handler, HandleAdd, HandleUpdate, HandleRecheck, HandleDelete, HandleStore,
           Handling, cache
  <1>7. \A k \in Key : ~WaitingFires(k)
    BY DEF WaitingFires, cache
  <1>8. ~UNCHANGED vars
    BY Unchanged
  <1> QED
    BY <1>2, <1>3, <1>4, <1>5, <1>6, <1>7, <1>8 DEF Next

(***************************************************************************)
(* A device is only freed when no running pod was told to use it: the      *)
(* worker removes a pod after its end, once (controller.go:195-217).       *)
(***************************************************************************)
THEOREM OnlyEndedAreReleased ==
  ASSUME SafeEnv
  PROVE  Spec => ReleasesOnlyEnded
  <1>1. TypeOK /\ Exclusion /\ [Next]_vars =>
          [\A g \in GPU : isUsed[g] /\ ~isUsed'[g] => \A k \in Key : g \notin Granted(k)]_vars
    <2> SUFFICES ASSUME TypeOK, Exclusion, [Next]_vars,
                        NEW g \in GPU, isUsed[g], ~isUsed'[g],
                        NEW k \in Key, g \in Granted(k)
                 PROVE  FALSE
      OBVIOUS
    <2>1. CASE WorkerRemoveDevice(g)
      <3>1. worker.pc = "remove" /\ g \in worker.rest
        BY <2>1 DEF WorkerRemoveDevice
      <3>2. Reserved(worker.pod.uid, g) /\ worker.pod.uid \in Pod
        BY <3>1, InHand DEF Exclusion, Devices, CopiesReserved
      <3>3. worker.pod.uid = api[k].uid
        BY <3>2, GrantedIsReserved DEF Exclusion, Devices, OneOwner
      <3> QED
        BY <3>1, <3>3, NoOtherCopy, GrantedIsReserved DEF Exclusion
    <2>2. CASE CrashRestart
      <3>1. isUsed' = BuiltUsed(api)
        BY <2>2 DEF CrashRestart
      <3>2. g \in api[k].ids /\ api[k].node /\ GPUIDs(api[k]) # {}
        BY DEF Granted, Live, GPUIDs
      <3>3. BuiltPodMap(api)[g] = {o.uid : o \in {l \in Listed(api) : g \in l.ids}}
        BY DEF BuiltPodMap
      <3>4. api[k] \in Listed(api)
        BY <3>2 DEF Listed
      <3>5. api[k].uid \in BuiltPodMap(api)[g]
        BY <3>2, <3>3, <3>4
      <3> QED
        BY <3>1, <3>5 DEF BuiltUsed
    <2> QED
      BY <2>1, <2>2, ClearedByRemoval
  <1> QED
    BY <1>1, TypeCorrect, ExclusionHolds, PTL DEF Spec, ReleasesOnlyEnded
=============================================================================
