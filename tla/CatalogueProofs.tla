--------------------------- MODULE CatalogueProofs --------------------------
(***************************************************************************)
(* Proofs about Catalogue, for any number of queries, fetches and records  *)
(* and any status codes.                                                   *)
(***************************************************************************)
EXTENDS Catalogue, TLAPS

\* A fetch that was not started has no calls.
StartInv ==
    \A f \in Fetches : pc[f] = "none" => \A q \in Queries : call[<<f, q>>] = "none"

\* Router.task was assigned before the first call could be answered.
TaskInv == \A c \in Calls : call[c] = "sent" => task \in Calls

\* The call for a query of a fetch is over.
Over(f, q) == call[<<f, q>>] = "ended"

\* What a fetch has collected: accepted answers to its own calls, each of them over.
Collects(f) ==
    /\ \A i \in DOMAIN collection[f] :
         /\ collection[f][i].fetch = f
         /\ Over(f, collection[f][i].query)
         /\ collection[f][i].code \in 200..299
    /\ \A i, j \in DOMAIN collection[f] :
         collection[f][i].query = collection[f][j].query => i = j

CollectionInv == \A f \in Fetches : Collects(f)

\* The inductive invariant.
Inv ==
    /\ TypeOK
    /\ StartInv
    /\ TaskInv
    /\ CollectionInv
    /\ TrapOnlyInWindow
    /\ ModelOfOneFetch

-----------------------------------------------------------------------------
LEMMA NothingCollected ==
    /\ <<>> \in Seq(Section) /\ [f \in Fetches |-> <<>>] \in [Fetches -> Seq(Section)]
    /\ <<1>> \in Seq(Nat)
<1>1. <<>> \in Seq(Section) /\ <<1>> \in Seq(Nat)
  OBVIOUS
<1> QED
  BY <1>1

LEMMA InitInv == Init => Inv
<1> SUFFICES ASSUME Init PROVE Inv
  OBVIOUS
<1>1. TypeOK
  BY NothingCollected DEF Init, TypeOK
<1>2. StartInv /\ TaskInv /\ CollectionInv /\ ModelOfOneFetch /\ TrapOnlyInWindow
  BY DEF Init, StartInv, Calls, TaskInv, CollectionInv, Collects, ModelOfOneFetch,
         TrapOnlyInWindow, OutOfRange
<1> QED
  BY <1>1, <1>2 DEF Inv

\* A step that leaves the calls, their results and the catalogue alone.
LEMMA ViewStep ==
    ASSUME Inv, TypeOK', StartInv', UNCHANGED <<call, collection, model, wireVars>>,
           TrapOnlyInWindow'
    PROVE  Inv'
<1> USE DEF Inv, wireVars
<1>1. TaskInv'
  BY DEF TaskInv
<1>2. CollectionInv' /\ ModelOfOneFetch'
  BY DEF CollectionInv, Collects, Over, ModelOfOneFetch
<1> QED
  BY <1>1, <1>2

\* A collected result belongs to a call.
LEMMA Queried ==
    ASSUME TypeOK, NEW f \in Fetches, NEW i \in DOMAIN collection[f]
    PROVE  /\ collection[f][i] \in Section
           /\ collection[f][i].query \in Queries
<1>1. collection[f][i] \in Section
  BY DEF TypeOK
<1> QED
  BY <1>1 DEF Section

\* A call that is over stays so.
LEMMA OverKept ==
    ASSUME \A d \in Calls : call[d] = "ended" => call'[d] = "ended"
    PROVE  \A f \in Fetches : \A q \in Queries : Over(f, q) => Over(f, q)'
<1> TAKE f \in Fetches
<1> TAKE q \in Queries
<1>1. <<f, q>> \in Calls
  BY DEF Calls
<1> QED
  BY <1>1 DEF Over

\* A step that changes no collection and ends calls only keeps what was collected.
LEMMA StillCollects ==
    ASSUME TypeOK, NEW f \in Fetches, Collects(f), collection'[f] = collection[f],
           \A q \in Queries : Over(f, q) => Over(f, q)'
    PROVE  Collects(f)'
<1>1. \A i \in DOMAIN collection[f] : Over(f, collection[f][i].query)'
  <2> TAKE i \in DOMAIN collection[f]
  <2>1. collection[f][i].query \in Queries
    BY Queried
  <2>2. Over(f, collection[f][i].query)
    BY DEF Collects
  <2> QED
    BY <2>1, <2>2
<1> QED
  BY <1>1 DEF Collects

\* A step that leaves the view and the catalogue alone.
LEMMA CalmTrap ==
    ASSUME TrapOnlyInWindow, UNCHANGED modelVars
    PROVE  TrapOnlyInWindow'
  BY DEF TrapOnlyInWindow, OutOfRange, modelVars

-----------------------------------------------------------------------------
LEMMA AppearInv ==
    ASSUME Inv, NEW f \in Fetches, Appear(f)
    PROVE  Inv'
<1> USE DEF Inv
<1>1. TypeOK'
  BY DEF TypeOK, Appear, modelVars, wireVars, Calls
<1>2. \A c \in Calls : call[c] # "none" => call'[c] = call[c]
  BY DEF Appear, StartInv, Calls
<1>3. \A c \in Calls : call'[c] = "sent" => call[c] = "sent"
  BY DEF Appear
<1>4. StartInv'
  BY DEF StartInv, Appear, Calls, TypeOK
<1>5. TaskInv'
  BY <1>2, <1>3 DEF TaskInv, Appear, wireVars, TypeOK
<1>6. CollectionInv'
  <2>1. \A g \in Fetches : \A q \in Queries : Over(g, q) => Over(g, q)'
    BY <1>2, OverKept
  <2> QED
    BY <2>1, StillCollects DEF CollectionInv, Appear
<1>7. ModelOfOneFetch' /\ TrapOnlyInWindow'
  BY CalmTrap DEF ModelOfOneFetch, Appear, modelVars
<1> QED
  BY <1>1, <1>4, <1>5, <1>6, <1>7

LEMMA TrapsInv ==
    ASSUME Inv, DisplayTraps
    PROVE  Inv'
<1> USE DEF Inv
<1>1. TypeOK'
  BY NothingCollected DEF TypeOK, DisplayTraps, Fresh
<1>2. \A c \in Calls : /\ call'[c] # "sent"
                      /\ call[c] = "ended" => call'[c] = "ended"
  BY DEF DisplayTraps
<1>3. StartInv'
  BY DEF StartInv, DisplayTraps, Calls, TypeOK
<1>4. TaskInv'
  BY <1>2 DEF TaskInv, DisplayTraps, TypeOK
<1>5. CollectionInv' /\ ModelOfOneFetch' /\ TrapOnlyInWindow'
  BY DEF CollectionInv, Collects, ModelOfOneFetch, TrapOnlyInWindow, OutOfRange,
         DisplayTraps, Fresh
<1> QED
  BY <1>1, <1>3, <1>4, <1>5

LEMMA SendInv ==
    ASSUME Inv, NEW c \in Calls, Send(c)
    PROVE  Inv'
<1> USE DEF Inv
<1>1. TypeOK'
  BY DEF TypeOK, Send, viewVars, modelVars
<1>2. \A d \in Calls : call[d] = "ended" => call'[d] = "ended"
  BY DEF Send, TypeOK
<1>3. StartInv'
  BY DEF StartInv, Send, Calls, TypeOK
<1>4. TaskInv'
  BY <1>2 DEF TaskInv, Send, TypeOK
<1>5. CollectionInv'
  <2>1. \A g \in Fetches : \A q \in Queries : Over(g, q) => Over(g, q)'
    BY <1>2, OverKept
  <2> QED
    BY <2>1, StillCollects DEF CollectionInv, Send
<1>6. ModelOfOneFetch' /\ TrapOnlyInWindow'
  BY CalmTrap DEF ModelOfOneFetch, Send, modelVars
<1> QED
  BY <1>1, <1>3, <1>4, <1>5, <1>6

LEMMA FailsInv ==
    ASSUME Inv, NEW c \in Calls, CallFails(c)
    PROVE  Inv'
<1> USE DEF Inv
<1>1. TypeOK'
  BY DEF TypeOK, CallFails, viewVars, modelVars, wireVars
<1>2. \A d \in Calls : call[d] = "ended" => call'[d] = "ended"
  BY DEF CallFails, TypeOK
<1>9. \A d \in Calls : call'[d] = "sent" => call[d] = "sent"
  BY DEF CallFails, TypeOK
<1>3. StartInv'
  BY DEF StartInv, CallFails, Calls, TypeOK
<1>4. TaskInv'
  BY <1>2, <1>9 DEF TaskInv, CallFails, wireVars, TypeOK
<1>5. CollectionInv'
  <2>1. \A g \in Fetches : \A q \in Queries : Over(g, q) => Over(g, q)'
    BY <1>2, OverKept
  <2> QED
    BY <2>1, StillCollects DEF CollectionInv, CallFails
<1>6. ModelOfOneFetch' /\ TrapOnlyInWindow'
  BY CalmTrap DEF ModelOfOneFetch, CallFails, modelVars
<1> QED
  BY <1>1, <1>3, <1>4, <1>5, <1>6

\* An answer adds at most one section, to the collection of the fetch that made the call.
LEMMA AnswerInv ==
    ASSUME Inv, NEW c \in Calls, NEW code \in Codes, NEW decodes \in BOOLEAN,
           NEW n \in Counts, Answer(c, code, decodes, n)
    PROVE  Inv'
<1> USE DEF Inv
<1> DEFINE sec == [fetch |-> c[1], query |-> c[2], code |-> code, records |-> n]
           accepted == HandleNetworkResponse(code) = "success" /\ decodes
<1>0. /\ c[1] \in Fetches /\ c[2] \in Queries /\ c = <<c[1], c[2]>>
      /\ sec \in Section
  BY DEF Calls, Section
<1>1. TypeOK'
  <2>1. collection' \in [Fetches -> Seq(Section)]
    <3>1. collection[c[1]] \in Seq(Section)
      BY <1>0 DEF TypeOK
    <3>2. Append(collection[c[1]], sec) \in Seq(Section)
      BY <1>0, <3>1
    <3> QED
      BY <1>0, <3>2 DEF Answer, TypeOK
  <2>2. task \in Calls
    BY DEF Answer, TaskInv
  <2> QED
    BY <2>1, <2>2 DEF TypeOK, Answer, viewVars, modelVars
<1>2. \A d \in Calls : call[d] = "ended" => call'[d] = "ended"
  BY DEF Answer, TypeOK
<1>9. \A d \in Calls : call'[d] = "sent" => call[d] = "sent"
  BY DEF Answer, TypeOK
<1>3. StartInv'
  BY DEF StartInv, Answer, Calls, TypeOK
<1>4. TaskInv'
  BY <1>2, <1>9 DEF TaskInv, Answer, TypeOK
<1>6. CollectionInv'
  <2> SUFFICES ASSUME NEW f \in Fetches PROVE Collects(f)'
    BY DEF CollectionInv
  <2>0. \A q \in Queries : Over(f, q) => Over(f, q)'
    BY <1>2, OverKept
  <2>1. CASE ~accepted \/ f # c[1]
    <3>1. collection'[f] = collection[f]
      BY <2>1, <1>0 DEF Answer, TypeOK
    <3> QED
      BY <3>1, <2>0, StillCollects DEF CollectionInv
  <2>2. CASE accepted /\ f = c[1]
    <3> DEFINE s == collection[f]
    <3>1. collection'[f] = Append(s, sec) /\ s \in Seq(Section)
      BY <2>2, <1>0 DEF Answer, TypeOK
    <3>2. /\ Len(s) \in Nat
          /\ DOMAIN s = 1..Len(s)
          /\ DOMAIN Append(s, sec) = 1..(Len(s) + 1)
          /\ \A i \in 1..Len(s) : Append(s, sec)[i] = s[i]
          /\ Append(s, sec)[Len(s) + 1] = sec
      BY <3>1, <1>0
    <3>3. code \in 200..299
      BY <2>2 DEF HandleNetworkResponse
    <3>4. ~Over(f, c[2]) /\ Over(f, c[2])'
      BY <1>0, <2>2 DEF Answer, TypeOK, Over
    <3>5. \A i \in 1..Len(s) : /\ s[i].fetch = f
                               /\ s[i].query \in Queries
                               /\ Over(f, s[i].query)
                               /\ s[i].code \in 200..299
      BY <3>2, Queried DEF CollectionInv, Collects
    <3>6. \A i, j \in 1..Len(s) : s[i].query = s[j].query => i = j
      BY <3>2 DEF CollectionInv, Collects
    <3>7. \A q \in Queries \cup {c[2]} : (q = c[2] \/ Over(f, q)) => Over(f, q)'
      BY <2>0, <3>4
    <3>8. sec.fetch = f /\ sec.query = c[2] /\ sec.code = code /\ c = <<f, c[2]>>
      BY <2>2, <1>0
    <3> HIDE DEF s, sec
    <3>9. \A i \in 1..(Len(s) + 1) : i \in 1..Len(s) \/ i = Len(s) + 1
      BY <3>2
    <3>10. \A i \in 1..(Len(s) + 1) :
             /\ Append(s, sec)[i].fetch = f
             /\ Append(s, sec)[i].code \in 200..299
             /\ Append(s, sec)[i].query \in Queries \cup {c[2]}
             /\ Append(s, sec)[i].query = c[2] \/ Over(f, Append(s, sec)[i].query)
      <4> TAKE i \in 1..(Len(s) + 1)
      <4>1. CASE i \in 1..Len(s)
        BY <3>2, <3>5, <4>1
      <4>2. CASE i = Len(s) + 1
        BY <3>2, <3>3, <3>8, <4>2
      <4> QED
        BY <3>9, <4>1, <4>2
    <3>11. \A i \in 1..(Len(s) + 1) : \A q : q = Append(s, sec)[i].query => Over(f, q)'
      BY <3>7, <3>10
    <3>12. \A i, j \in 1..(Len(s) + 1) :
             Append(s, sec)[i].query = Append(s, sec)[j].query => i = j
      BY <3>2, <3>4, <3>5, <3>6, <3>8, <3>9
    <3>13. (\A i \in DOMAIN collection[f] : Over(f, collection[f][i].query))'
      BY <3>1, <3>2, <3>11
    <3> QED
      BY <3>1, <3>2, <3>10, <3>12, <3>13 DEF Collects
  <2> QED
    BY <2>1, <2>2
<1>7. ModelOfOneFetch' /\ TrapOnlyInWindow'
  BY CalmTrap DEF ModelOfOneFetch, Answer, modelVars
<1> QED
  BY <1>1, <1>3, <1>4, <1>6, <1>7

\* The new model is the collection of one fetch, and either a reload is due or the
\* assignment was missed.
LEMMA AssignInv ==
    ASSUME Inv, NEW f \in Fetches, Assign(f)
    PROVE  Inv'
<1> USE DEF Inv
<1>1. TypeOK'
  BY NothingCollected DEF TypeOK, Assign, viewVars, wireVars
<1>2. StartInv' /\ TaskInv'
  BY DEF StartInv, TaskInv, Assign, TypeOK, wireVars
<1>3. \A g \in Fetches : collection'[g] = IF g = f THEN <<>> ELSE collection[g]
  BY DEF Assign, TypeOK
<1>4. CollectionInv'
  <2> SUFFICES ASSUME NEW g \in Fetches PROVE Collects(g)'
    BY DEF CollectionInv
  <2>1. CASE g = f
    BY <2>1, <1>3 DEF Collects
  <2>2. CASE g # f
    <3>1. \A q \in Queries : Over(g, q) => Over(g, q)'
      BY DEF Over, Assign
    <3> QED
      BY <2>2, <1>3, <3>1, StillCollects DEF CollectionInv
  <2> QED
    BY <2>1, <2>2
<1>5. ModelOfOneFetch'
  <2>1. Collects(f)
    BY DEF CollectionInv
  <2>2. model' = collection[f]
    BY DEF Assign
  <2>3. \A i \in DOMAIN collection[f] :
          /\ collection[f][i].fetch = f
          /\ collection[f][i].code >= 200 /\ collection[f][i].code < 300
    BY <2>1 DEF Collects
  <2> QED
    BY <2>1, <2>2, <2>3 DEF ModelOfOneFetch, Collects
<1>6. TrapOnlyInWindow'
  <2>1. reloads \in Nat => reloads + 1 > 0
    OBVIOUS
  <2>2. reloads' > 0 \/ missed'
    BY <2>1 DEF Assign, TypeOK
  <2> QED
    BY <2>2 DEF TrapOnlyInWindow
<1> QED
  BY <1>1, <1>2, <1>4, <1>5, <1>6

\* A reload lays out the sections of the model at hand, and Return changes pc only of a
\* fetch under way.
LEMMA ViewInv ==
    ASSUME Inv,
           Disappear \/ HideLoader \/ Reload \/ \E f \in Fetches : Return(f)
    PROVE  Inv'
<1> USE DEF Inv
<1>1. CASE Disappear
  <2>1. TypeOK' /\ StartInv' /\ TrapOnlyInWindow'
    BY <1>1, CalmTrap DEF TypeOK, StartInv, Disappear, modelVars, wireVars
  <2> QED
    BY <1>1, <2>1, ViewStep DEF Disappear, modelVars
<1>2. CASE HideLoader
  <2>1. TypeOK' /\ StartInv' /\ TrapOnlyInWindow'
    BY <1>2, CalmTrap DEF TypeOK, StartInv, HideLoader, modelVars, wireVars
  <2> QED
    BY <1>2, <2>1, ViewStep DEF HideLoader, modelVars
<1>3. CASE Reload
  <2>1. \A i \in DOMAIN model : model[i].records \in Nat \cup {None}
    <3>1. \A i \in DOMAIN model : model[i] \in Section
      BY DEF TypeOK
    <3> QED
      BY <3>1, SetsAssumption DEF Section
  <2>2. /\ NumberOfItems \in Seq(Nat)
        /\ got => /\ DOMAIN NumberOfItems = DOMAIN model
                  /\ \A i \in DOMAIN model :
                       NumberOfItems[i] \in Nat /\ NumberOfItems[i] = NumberOfItemsInSection(i)
    <3>1. \A i \in DOMAIN model : NumberOfItemsInSection(i) \in Nat
      BY <2>1 DEF NumberOfItemsInSection
    <3>2. Len(model) \in Nat /\ DOMAIN model = 1..Len(model)
      BY DEF TypeOK
    <3>3. CASE got
      <4>1. NumberOfItems = [i \in 1..Len(model) |-> NumberOfItemsInSection(i)]
        BY <3>2, <3>3 DEF NumberOfItems
      <4> QED
        BY <3>1, <3>2, <4>1
    <3>4. CASE ~got
      BY <3>4 DEF NumberOfItems
    <3> QED
      BY <3>3, <3>4
  <2>3. reloads' \in Nat
    BY <1>3 DEF TypeOK, Reload
  <2>6. TypeOK'
    BY <1>3, <2>2, <2>3 DEF TypeOK, Reload, viewVars, wireVars
  <2>4. TrapOnlyInWindow'
    <3> SUFFICES ASSUME got, NEW i \in DOMAIN model, model[i].records # None
                 PROVE  ~(NumberOfItems[i] > model[i].records)
      BY <1>3, <2>2 DEF TrapOnlyInWindow, OutOfRange, Reload
    <3> QED
      BY <2>1, <2>2 DEF NumberOfItemsInSection
  <2>5. StartInv'
    BY <1>3 DEF StartInv, Reload
  <2> QED
    BY <1>3, <2>4, <2>5, <2>6, ViewStep DEF Reload
<1>4. CASE \E f \in Fetches : Return(f)
  <2>1. PICK f \in Fetches : Return(f)
    BY <1>4
  <2>2. TypeOK' /\ StartInv' /\ TrapOnlyInWindow'
    BY <2>1, CalmTrap DEF TypeOK, StartInv, Return, modelVars, wireVars
  <2> QED
    BY <2>1, <2>2, ViewStep DEF Return, modelVars
<1> QED
  BY <1>1, <1>2, <1>3, <1>4

-----------------------------------------------------------------------------
LEMMA NextInv == Inv /\ [Next]_vars => Inv'
<1> SUFFICES ASSUME Inv, [Next]_vars PROVE Inv'
  OBVIOUS
<1>1. CASE Disappear \/ HideLoader \/ Reload \/ \E f \in Fetches : Return(f)
  BY <1>1, ViewInv
<1>2. CASE DisplayTraps
  BY <1>2, TrapsInv
<1>3. ASSUME NEW f \in Fetches, Appear(f) PROVE Inv'
  BY <1>3, AppearInv
<1>4. ASSUME NEW f \in Fetches, Assign(f) PROVE Inv'
  BY <1>4, AssignInv
<1>5. ASSUME NEW c \in Calls, Send(c) PROVE Inv'
  BY <1>5, SendInv
<1>6. ASSUME NEW c \in Calls, CallFails(c) PROVE Inv'
  BY <1>6, FailsInv
<1>7. ASSUME NEW c \in Calls, NEW code \in Codes, NEW decodes \in BOOLEAN,
             NEW n \in Counts, Answer(c, code, decodes, n)
      PROVE  Inv'
  BY <1>7, AnswerInv
<1>8. CASE UNCHANGED vars
  <2>1. TypeOK' /\ StartInv' /\ TrapOnlyInWindow'
    BY <1>8 DEF Inv, TypeOK, StartInv, TrapOnlyInWindow, OutOfRange, vars, viewVars,
                modelVars, wireVars
  <2> QED
    BY <1>8, <2>1, ViewStep DEF vars, modelVars
<1> QED
  BY <1>1, <1>2, <1>3, <1>4, <1>5, <1>6, <1>7, <1>8 DEF Next, Step, Progress

LEMMA Invariance == Spec => []Inv
  BY InitInv, NextInv, PTL DEF Spec

-----------------------------------------------------------------------------
\* The state of the home screen, its fetches and its router is always well typed; in
\* particular Router.task is never nil when an answer resumes it.
THEOREM TypeCorrect == Spec => []TypeOK
<1>1. Inv => TypeOK
  BY DEF Inv
<1> QED
  BY <1>1, Invariance, PTL

\* The data source of the home screen can subscript out of range, by section or by item,
\* only between an assignment of the model and the reload it is due, for any number of
\* overlapping fetches and any numbers of records.
THEOREM TrapsOnlyInWindow == Spec => []TrapOnlyInWindow
<1>1. Inv => TrapOnlyInWindow
  BY DEF Inv
<1> QED
  BY <1>1, Invariance, PTL

\* The catalogue is never a mixture of fetches: one fetch, one section per query, and
\* every section from an answer that handleNetworkResponse accepts.
THEOREM CatalogueOfOneFetch == Spec => []ModelOfOneFetch
<1>1. Inv => ModelOfOneFetch
  BY DEF Inv
<1> QED
  BY <1>1, Invariance, PTL
=============================================================================
