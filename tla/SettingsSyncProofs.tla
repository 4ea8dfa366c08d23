-------------------------- MODULE SettingsSyncProofs --------------------------
(***************************************************************************)
(* Proofs about SettingsSync for any number of pages of both kinds and any *)
(* number of edits, theme changes and restarts: the type invariant,        *)
(* FileCurrent, PagesAgree and EditsKept.                                  *)
(*                                                                         *)
(* PagesAgree speaks of the moment when nothing is on the way, so the      *)
(* invariant has to say what is on the way until then: the youngest        *)
(* message to a page is the object, and a page to which nothing is on the  *)
(* way differs from the object only if it has sent a save itself (Agree).  *)
(* EditsKept follows from what all the messages on the way have in common  *)
(* as long as edits did not overlap (Kept).                                *)
(***************************************************************************)
EXTENDS SettingsSync, FiniteSetTheorems, SequenceTheorems, TLAPS

-----------------------------------------------------------------------------
(* Queues of messages.                                                     *)

(* Two copies agree on the settings that are saved.                        *)
Same(a, b) == \A k \in Saved : a[k] = b[k]

Newest(s) == s[Len(s)]

(* A message is appended to those on the way.                              *)
LEMMA AppendFacts ==
  ASSUME NEW S, NEW s \in Seq(S), NEW e \in S
  PROVE  /\ Append(s, e) \in Seq(S) /\ Append(s, e) # <<>>
         /\ Newest(Append(s, e)) = e
         /\ \A i \in DOMAIN Append(s, e) :
              Append(s, e)[i] = e \/ (i \in DOMAIN s /\ Append(s, e)[i] = s[i])
<1>1. /\ Len(s) \in Nat /\ DOMAIN s = 1..Len(s)
      /\ Append(s, e) \in Seq(S) /\ Len(Append(s, e)) = Len(s) + 1
      /\ DOMAIN Append(s, e) = 1..(Len(s) + 1)
      /\ \A i \in 1..Len(s) : Append(s, e)[i] = s[i]
      /\ Append(s, e)[Len(s) + 1] = e
  OBVIOUS
<1> QED
  BY <1>1 DEF Newest

(* The oldest message is taken.                                            *)
LEMMA TakeFacts ==
  ASSUME NEW S, NEW s \in Seq(S), s # <<>>
  PROVE  /\ Head(s) \in S /\ Tail(s) \in Seq(S)
         /\ 1 \in DOMAIN s /\ Head(s) = s[1]
         /\ \A i \in DOMAIN Tail(s) : i + 1 \in DOMAIN s /\ Tail(s)[i] = s[i + 1]
         /\ Tail(s) # <<>> => Newest(Tail(s)) = Newest(s)
         /\ Tail(s) = <<>> => Head(s) = Newest(s)
<1>1. /\ Len(s) \in Nat \ {0} /\ DOMAIN s = 1..Len(s)
      /\ Tail(s) \in Seq(S) /\ Head(s) = s[1] /\ Head(s) \in S
      /\ Len(Tail(s)) = Len(s) - 1 /\ DOMAIN Tail(s) = 1..(Len(s) - 1)
      /\ \A i \in 1..(Len(s) - 1) : Tail(s)[i] = s[i + 1]
  OBVIOUS
<1>2. Tail(s) # <<>> => Len(s) - 1 \in 1..(Len(s) - 1)
  BY <1>1
<1>3. Tail(s) = <<>> => Len(s) = 1
  <2>1. Tail(s) = <<>> => Len(Tail(s)) = 0
    BY <1>1, EmptySeq
  <2> QED
    BY <1>1, <2>1
<1> QED
  BY <1>1, <1>2, <1>3 DEF Newest

(* A page sends the same copy several times, or not at all.                *)
Sending(s, e, n) == s \o [i \in 1..n |-> e]

(* What that adds to the messages on the way.                              *)
LEMMA SendingFacts ==
  ASSUME NEW S, NEW s \in Seq(S), NEW e \in S, NEW n, n \in Nat
  PROVE  /\ Sending(s, e, n) \in Seq(S)
         /\ \A i \in DOMAIN Sending(s, e, n) :
              Sending(s, e, n)[i] = e \/ (i \in DOMAIN s /\ Sending(s, e, n)[i] = s[i])
         /\ Sending(s, e, n) = <<>> => s = <<>> /\ n = 0
<1> DEFINE r == [i \in 1..n |-> e]
           t == s \o r
<1>1. r \in Seq(S) /\ Len(r) = n /\ \A i \in 1..n : r[i] = e
  OBVIOUS
<1> HIDE DEF r
<1>2. /\ t \in Seq(S) /\ Len(t) = Len(s) + n /\ Len(s) \in Nat
      /\ DOMAIN t = 1..(Len(s) + n) /\ DOMAIN s = 1..Len(s)
      /\ \A i \in 1..Len(s) : t[i] = s[i]
      /\ \A i \in (Len(s) + 1)..(Len(s) + n) : t[i] = r[i - Len(s)]
  BY <1>1
<1>r. Sending(s, e, n) = t
  BY DEF Sending, r
<1> HIDE DEF t
<1>3. \A i \in DOMAIN t : t[i] = e \/ (i \in DOMAIN s /\ t[i] = s[i])
  <2> SUFFICES ASSUME NEW i \in DOMAIN t, i \notin DOMAIN s PROVE t[i] = e
    BY <1>2
  <2>1. i \in (Len(s) + 1)..(Len(s) + n) /\ i - Len(s) \in 1..n
    BY <1>2
  <2> QED
    BY <1>1, <1>2, <2>1
<1>4. t = <<>> => s = <<>> /\ n = 0
  <2>1. t = <<>> => Len(t) = 0
    BY <1>2, EmptySeq
  <2> QED
    BY <1>2, <2>1
<1> QED
  BY <1>2, <1>3, <1>4, <1>r

-----------------------------------------------------------------------------
(* The inductive invariant.                                                *)

(* A write in progress has the object, unless a change has come since.     *)
FileKept ==
  /\ FileCurrent
  /\ writes # <<>> /\ ~missed => writes[1] = object

(* Nothing is on the way to or from a page that is not there.              *)
Closed == \A p \in Pages : p \notin open => toMain[p] = <<>> /\ toPage[p] = <<>>

(* The youngest message to a page is the object; without one, a page that  *)
(* differs has sent its copy.                                              *)
Agree ==
  \A p \in open : IF toPage[p] # <<>> THEN Same(Newest(toPage[p]), object)
                  ELSE toMain[p] = <<>> => Same(view[p], object)

(* As long as nothing overlapped every message is what the user wants, and *)
(* so is the object once no page has anything left to save.                *)
AllWanted ==
  \A p \in Pages : /\ \A i \in DOMAIN toMain[p] : Same(toMain[p][i], wanted)
                   /\ \A i \in DOMAIN toPage[p] : Same(toPage[p][i], wanted)
NothingToSave == \A p \in Pages : toMain[p] = <<>>
Kept == ~raced => AllWanted /\ (NothingToSave => Same(object, wanted))

IInv == TypeOK /\ FileKept /\ Closed /\ Agree /\ Kept

(* No copy is what a torn file is.                                         *)
LEMMA TornIsNoCopy == Torn \notin Copies
<1> SUFFICES ASSUME Torn \in Copies PROVE FALSE
  OBVIOUS
<1>1. DOMAIN Torn = {} /\ "syncType" \in DOMAIN Torn
  BY DEF Torn, Copies, Keys
<1> QED
  BY <1>1

(* The initial state satisfies the invariant.                              *)
LEMMA InitIInv == Init => IInv
<1> SUFFICES ASSUME Init PROVE IInv
  OBVIOUS
<1>0. Defaults \in Copies /\ <<>> \in Seq(Copies) /\ Len(<<>>) = 0 /\ DOMAIN <<>> = {}
  BY DEF Defaults, Copies
<1>1. TypeOK
  <2>1. /\ toMain \in [Pages -> Seq(Copies)] /\ toPage \in [Pages -> Seq(Copies)]
        /\ view \in [Pages -> Copies]
    BY <1>0 DEF Init
  <2>2. edits \in 0..MaxEdits /\ themes \in 0..MaxThemes /\ restarts \in 0..MaxRestarts
    BY BoundsAssumption DEF Init
  <2>3. /\ object \in Copies /\ wanted \in Copies /\ file \in Copies \cup {Torn}
        /\ writes \in Seq(Copies) /\ pendingSaving \in 0..2
        /\ open \subseteq Pages /\ shown \subseteq open
    BY <1>0 DEF Init
  <2>4. raced \in BOOLEAN /\ missed \in BOOLEAN
    BY DEF Init
  <2> QED
    BY <2>1, <2>2, <2>3, <2>4 DEF TypeOK
<1>2. FileKept
  BY <1>0 DEF Init, FileKept, FileCurrent
<1>3. Closed /\ Agree
  BY DEF Init, Closed, Agree
<1>4. Kept
  BY <1>0 DEF Init, Kept, AllWanted, Same
<1> QED
  BY <1>1, <1>2, <1>3, <1>4 DEF IInv

-----------------------------------------------------------------------------
(* The steps.                                                              *)

(* What an edit or a message does to its page: the copies on the way to    *)
(* the main process are joined by copies of the new settings, as many as   *)
(* are saved.                                                              *)
LEMMA BecomeFacts ==
  ASSUME TypeOK, NEW p \in Pages, NEW new \in Copies, NEW saves \in Nat, Become(p, new, saves)
  PROVE  /\ toMain' \in [Pages -> Seq(Copies)] /\ view' \in [Pages -> Copies]
         /\ view'[p] = new
         /\ \A q \in Pages : q # p => toMain'[q] = toMain[q] /\ view'[q] = view[q]
         /\ \A i \in DOMAIN toMain'[p] :
              toMain'[p][i] = new \/ (i \in DOMAIN toMain[p] /\ toMain'[p][i] = toMain[p][i])
         /\ toMain'[p] = <<>> => toMain[p] = <<>> /\ saves = 0 /\ Fired(p, new) = {}
<1>1. toMain \in [Pages -> Seq(Copies)] /\ view \in [Pages -> Copies]
  BY DEF TypeOK
<1>2. IsFiniteSet(Fired(p, new))
  <2>1. IsFiniteSet(Keys)
    <3>1. /\ IsFiniteSet({"syncType"})
          /\ IsFiniteSet({"syncType"} \cup {"screenshotWithAI"})
          /\ IsFiniteSet({"syncType"} \cup {"screenshotWithAI"} \cup {"hotDetection"})
          /\ IsFiniteSet({"syncType"} \cup {"screenshotWithAI"} \cup {"hotDetection"}
                           \cup {"screenshotFormat"})
      BY FS_Singleton, FS_Union
    <3>2. Keys = {"syncType"} \cup {"screenshotWithAI"} \cup {"hotDetection"}
                   \cup {"screenshotFormat"}
      BY DEF Keys
    <3> QED
      BY <3>1, <3>2
  <2>2. Fired(p, new) \subseteq Keys
    BY DEF Fired, Watched, Keys
  <2> QED
    BY <2>1, <2>2, FS_Subset
<1> DEFINE n == saves + Cardinality(Fired(p, new))
           t == Sending(toMain[p], new, n)
<1>3. Cardinality(Fired(p, new)) \in Nat /\ (Cardinality(Fired(p, new)) = 0 <=> Fired(p, new) = {})
  BY <1>2, FS_CardinalityType, FS_EmptySet
<1>4. n \in Nat /\ (n = 0 => saves = 0 /\ Fired(p, new) = {})
  BY <1>3
<1>5. view' = [view EXCEPT ![p] = new] /\ toMain' = [toMain EXCEPT ![p] = t]
  BY DEF Become, Sending
<1>s. toMain[p] \in Seq(Copies) /\ n \in Nat
  BY <1>1, <1>4
<1> HIDE DEF n
<1>6. /\ t \in Seq(Copies)
      /\ \A i \in DOMAIN t : t[i] = new \/ (i \in DOMAIN toMain[p] /\ t[i] = toMain[p][i])
      /\ t = <<>> => toMain[p] = <<>> /\ n = 0
  BY <1>s, SendingFacts
<1> HIDE DEF t
<1>7. /\ view' \in [Pages -> Copies] /\ view'[p] = new
      /\ \A q \in Pages : q # p => view'[q] = view[q]
  BY <1>1, <1>5
<1>8. /\ toMain' \in [Pages -> Seq(Copies)] /\ toMain'[p] = t
      /\ \A q \in Pages : q # p => toMain'[q] = toMain[q]
  BY <1>1, <1>5, <1>6
<1> QED
  BY <1>4, <1>6, <1>7, <1>8

(* What a broadcast puts on the way.                                       *)
LEMMA SendToFacts ==
  ASSUME TypeOK, NEW new \in Copies, SendTo(open, new)
  PROVE  /\ toPage' \in [Pages -> Seq(Copies)]
         /\ \A q \in Pages :
              /\ q \in open => toPage'[q] # <<>> /\ Newest(toPage'[q]) = new
              /\ q \notin open => toPage'[q] = toPage[q]
              /\ \A i \in DOMAIN toPage'[q] :
                   toPage'[q][i] = new
                     \/ (i \in DOMAIN toPage[q] /\ toPage'[q][i] = toPage[q][i])
<1>1. toPage \in [Pages -> Seq(Copies)]
  BY DEF TypeOK
<1>2. toPage' = [q \in Pages |-> IF q \in open THEN Append(toPage[q], new) ELSE toPage[q]]
  BY DEF SendTo
<1>3. \A q \in Pages :
        /\ Append(toPage[q], new) \in Seq(Copies)
        /\ Append(toPage[q], new) # <<>> /\ Newest(Append(toPage[q], new)) = new
        /\ \A i \in DOMAIN Append(toPage[q], new) :
             Append(toPage[q], new)[i] = new
               \/ (i \in DOMAIN toPage[q] /\ Append(toPage[q], new)[i] = toPage[q][i])
  BY <1>1, AppendFacts
<1> QED
  BY <1>1, <1>2, <1>3

(* A setting that is saved cannot be edited without being sent.            *)
LEMMA EditsAreSent ==
  ASSUME TypeOK, NEW p \in Pages, NEW k \in Saved, k \in Editable(p),
         k = "hotDetection" \/ p \in shown, NEW new, new[k] # view[p][k]
  PROVE  SavesOf(k) # 0 \/ Fired(p, new) # {}
<1>1. CASE k = "hotDetection"
  BY <1>1 DEF SavesOf
<1>2. CASE k # "hotDetection"
  <2>1. k \in Watched(p)
    BY <1>2 DEF Editable, Watched, Saved, Keys
  <2> QED
    BY <1>2, <2>1 DEF Fired
<1> QED
  BY <1>1, <1>2

(* The user edits a setting.                                               *)
LEMMA EditStep ==
  ASSUME IInv, NEW p \in Pages, NEW k \in Keys, Edit(p, k)
  PROVE  IInv'
<1> DEFINE new == [view[p] EXCEPT ![k] = 1 - view[p][k]]
<1>0. TypeOK /\ view \in [Pages -> Copies] /\ view[p] \in Copies
  BY DEF IInv, TypeOK
<1>1. new \in Copies /\ new[k] = 1 - view[p][k] /\ new[k] # view[p][k]
      /\ \A j \in Keys : j # k => new[j] = view[p][j]
  BY <1>0 DEF Copies
<1>2. /\ Become(p, new, SavesOf(k)) /\ wanted' = [wanted EXCEPT ![k] = new[k]]
      /\ raced' = (raced \/ ~Quiet)
      /\ edits' = edits + 1 /\ edits < MaxEdits /\ p \in open /\ k \in Editable(p)
      /\ k = "hotDetection" \/ p \in shown
      /\ UNCHANGED <<object, disk, open, shown, toPage, themes, restarts>>
  BY DEF Edit
<1> HIDE DEF new
<1>3. SavesOf(k) \in Nat
  BY DEF SavesOf
<1>4. /\ toMain' \in [Pages -> Seq(Copies)] /\ view' \in [Pages -> Copies]
      /\ view'[p] = new
      /\ \A q \in Pages : q # p => toMain'[q] = toMain[q] /\ view'[q] = view[q]
      /\ \A i \in DOMAIN toMain'[p] :
           toMain'[p][i] = new \/ (i \in DOMAIN toMain[p] /\ toMain'[p][i] = toMain[p][i])
      /\ toMain'[p] = <<>> => toMain[p] = <<>> /\ SavesOf(k) = 0 /\ Fired(p, new) = {}
  BY <1>0, <1>1, <1>2, <1>3, BecomeFacts
<1>5. k \in Saved => toMain'[p] # <<>>
  BY <1>0, <1>1, <1>2, <1>4, EditsAreSent
<1>6. wanted' \in Copies /\ wanted'[k] = new[k] /\ \A j \in Keys : j # k => wanted'[j] = wanted[j]
  BY <1>0, <1>1, <1>2 DEF TypeOK, Copies
<1>7. TypeOK'
  <2>1. edits' \in 0..MaxEdits
    BY <1>0, <1>2, BoundsAssumption DEF TypeOK
  <2>2. raced' \in BOOLEAN
    BY <1>2
  <2> QED
    BY <1>0, <1>2, <1>4, <1>6, <2>1, <2>2 DEF TypeOK, disk
<1>8. FileKept' /\ Closed'
  BY <1>2, <1>4 DEF IInv, FileKept, FileCurrent, Closed, disk
<1>9. Agree'
  <2> SUFFICES ASSUME NEW q \in open, toPage[q] = <<>>, toMain'[q] = <<>>
               PROVE  Same(view'[q], object)
    BY <1>2 DEF IInv, Agree
  <2>1. q \in Pages
    BY <1>0 DEF TypeOK
  <2>2. toMain[q] = <<>>
    BY <1>4, <2>1
  <2>3. Same(view[q], object)
    BY <2>2 DEF IInv, Agree
  <2>4. q = p => k \notin Saved
    BY <1>5
  <2>5. \A j \in Saved : view'[q][j] = view[q][j]
    BY <1>1, <1>4, <2>1, <2>4 DEF Saved
  <2> QED
    BY <2>3, <2>5 DEF Same
<1>10. Kept'
  <2> SUFFICES ASSUME ~raced, Quiet
               PROVE  AllWanted' /\ (NothingToSave' => Same(object, wanted'))
    BY <1>2 DEF Kept
  <2>1. \A q \in Pages : toMain[q] = <<>> /\ toPage[q] = <<>>
    BY DEF Quiet
  <2>2. Same(object, wanted)
    BY <2>1 DEF IInv, Kept, NothingToSave
  <2>3. Same(view[p], object)
    BY <1>2, <2>1 DEF IInv, Agree
  <2>4. Same(new, wanted')
    BY <1>1, <1>6, <2>2, <2>3 DEF Same, Saved
  <2>5. AllWanted'
    <3>1. \A q \in Pages : \A i \in DOMAIN toMain'[q] : toMain'[q][i] = new
      BY <1>4, <2>1
    <3>2. \A q \in Pages : DOMAIN toPage'[q] = {}
      BY <1>2, <2>1
    <3> QED
      BY <2>4, <3>1, <3>2 DEF AllWanted
  <2>6. NothingToSave' => Same(object, wanted')
    <3> SUFFICES ASSUME NothingToSave' PROVE Same(object, wanted')
      OBVIOUS
    <3>1. k \notin Saved
      BY <1>5 DEF NothingToSave
    <3> QED
      BY <1>6, <2>2, <3>1 DEF Same, Saved
  <2> QED
    BY <2>5, <2>6
<1> QED
  BY <1>7, <1>8, <1>9, <1>10 DEF IInv

(* A page handles a broadcast.                                             *)
LEMMA ReceiveStep ==
  ASSUME IInv, NEW p \in Pages, Receive(p)
  PROVE  IInv'
<1> DEFINE new == Head(toPage[p])
<1>0. TypeOK /\ toPage \in [Pages -> Seq(Copies)] /\ toPage[p] \in Seq(Copies)
  BY DEF IInv, TypeOK
<1>1. /\ toPage[p] # <<>> /\ Become(p, new, 0)
      /\ toPage' = [toPage EXCEPT ![p] = Tail(toPage[p])]
      /\ UNCHANGED <<object, disk, open, shown, outside, wanted, raced>>
  BY DEF Receive
<1>2. /\ new \in Copies /\ Tail(toPage[p]) \in Seq(Copies)
      /\ 1 \in DOMAIN toPage[p] /\ new = toPage[p][1]
      /\ \A i \in DOMAIN Tail(toPage[p]) :
           i + 1 \in DOMAIN toPage[p] /\ Tail(toPage[p])[i] = toPage[p][i + 1]
      /\ Tail(toPage[p]) # <<>> => Newest(Tail(toPage[p])) = Newest(toPage[p])
      /\ Tail(toPage[p]) = <<>> => new = Newest(toPage[p])
  BY <1>0, <1>1, TakeFacts
<1>3. /\ toPage' \in [Pages -> Seq(Copies)] /\ toPage'[p] = Tail(toPage[p])
      /\ \A q \in Pages : q # p => toPage'[q] = toPage[q]
  BY <1>0, <1>1, <1>2
<1> HIDE DEF new
<1>4. /\ toMain' \in [Pages -> Seq(Copies)] /\ view' \in [Pages -> Copies]
      /\ view'[p] = new
      /\ \A q \in Pages : q # p => toMain'[q] = toMain[q] /\ view'[q] = view[q]
      /\ \A i \in DOMAIN toMain'[p] :
           toMain'[p][i] = new \/ (i \in DOMAIN toMain[p] /\ toMain'[p][i] = toMain[p][i])
      /\ toMain'[p] = <<>> => toMain[p] = <<>>
  BY <1>0, <1>1, <1>2, BecomeFacts
<1>5. TypeOK'
  BY <1>0, <1>1, <1>3, <1>4 DEF TypeOK, disk, outside
<1>6. p \in open
  BY <1>1 DEF IInv, Closed
<1>7. FileKept' /\ Closed'
  BY <1>1, <1>3, <1>4, <1>6 DEF IInv, FileKept, FileCurrent, Closed, disk
<1>8. Agree'
  <2>1. open \subseteq Pages
    BY <1>0 DEF TypeOK
  <2>2. ASSUME NEW q \in open, q # p
        PROVE  IF toPage'[q] # <<>> THEN Same(Newest(toPage'[q]), object)
               ELSE toMain'[q] = <<>> => Same(view'[q], object)
    BY <1>3, <1>4, <2>1, <2>2 DEF IInv, Agree
  <2>3. Same(Newest(toPage[p]), object)
    BY <1>1, <1>6 DEF IInv, Agree
  <2>4. IF toPage'[p] # <<>> THEN Same(Newest(toPage'[p]), object)
        ELSE toMain'[p] = <<>> => Same(view'[p], object)
    BY <1>2, <1>3, <1>4, <2>3
  <2>5. object' = object /\ open' = open
    BY <1>1
  <2> QED
    BY <2>2, <2>4, <2>5 DEF Agree
<1>9. Kept'
  <2> SUFFICES ASSUME ~raced
               PROVE  AllWanted' /\ (NothingToSave' => Same(object, wanted))
    BY <1>1 DEF Kept
  <2>1. AllWanted /\ (NothingToSave => Same(object, wanted))
    BY DEF IInv, Kept
  <2>2. Same(new, wanted)
    BY <1>2, <2>1 DEF AllWanted
  <2>3. AllWanted'
    <3>1. \A q \in Pages : \A i \in DOMAIN toMain'[q] : Same(toMain'[q][i], wanted)
      BY <1>4, <2>1, <2>2 DEF AllWanted
    <3>2. ASSUME NEW q \in Pages, NEW i \in DOMAIN toPage'[q]
          PROVE  Same(toPage'[q][i], wanted)
      <4>1. CASE q = p
        <5>1. i + 1 \in DOMAIN toPage[p] /\ toPage'[q][i] = toPage[p][i + 1]
          BY <1>2, <1>3, <3>2, <4>1
        <5> QED
          BY <2>1, <5>1 DEF AllWanted
      <4>2. CASE q # p
        BY <1>3, <2>1, <3>2, <4>2 DEF AllWanted
      <4> QED
        BY <4>1, <4>2
    <3>3. wanted' = wanted
      BY <1>1
    <3> QED
      BY <3>1, <3>2, <3>3 DEF AllWanted
  <2>4. NothingToSave' => NothingToSave
    BY <1>4 DEF NothingToSave
  <2> QED
    BY <2>1, <2>3, <2>4
<1> QED
  BY <1>5, <1>7, <1>8, <1>9 DEF IInv

(* The main process broadcasts its object, which nobody has changed.       *)
LEMMA BroadcastAgrees ==
  ASSUME TypeOK, NEW new \in Copies, SendTo(open, new), object' = new, open' = open
  PROVE  Agree'
<1>1. \A q \in open : toPage'[q] # <<>> /\ Newest(toPage'[q]) = new
  BY SendToFacts DEF TypeOK
<1> QED
  BY <1>1 DEF Agree, Same

(* The main process takes over a page's copy.                              *)
LEMMA SaveStep ==
  ASSUME IInv, NEW p \in Pages, SaveSettings(p)
  PROVE  IInv'
<1> DEFINE new == Head(toMain[p])
<1>0. TypeOK /\ toMain \in [Pages -> Seq(Copies)] /\ toMain[p] \in Seq(Copies)
  BY DEF IInv, TypeOK
<1>1. /\ toMain[p] # <<>> /\ toMain' = [toMain EXCEPT ![p] = Tail(toMain[p])]
      /\ object' = new /\ SendTo(open, new) /\ CountUp
      /\ writes' = IF pendingSaving = 0 THEN Append(writes, new) ELSE writes
      /\ missed' = (writes # <<>>)
      /\ UNCHANGED <<file, open, shown, view, outside, wanted, raced>>
  BY DEF SaveSettings, Receivers, AddToSaveQueue
<1>2. /\ new \in Copies /\ Tail(toMain[p]) \in Seq(Copies)
      /\ 1 \in DOMAIN toMain[p] /\ new = toMain[p][1]
      /\ \A i \in DOMAIN Tail(toMain[p]) :
           i + 1 \in DOMAIN toMain[p] /\ Tail(toMain[p])[i] = toMain[p][i + 1]
  BY <1>0, <1>1, TakeFacts
<1>3. /\ toMain' \in [Pages -> Seq(Copies)] /\ toMain'[p] = Tail(toMain[p])
      /\ \A q \in Pages : q # p => toMain'[q] = toMain[q]
  BY <1>0, <1>1, <1>2
<1> HIDE DEF new
<1>4. /\ toPage' \in [Pages -> Seq(Copies)]
      /\ \A q \in Pages :
           /\ q \notin open => toPage'[q] = toPage[q]
           /\ \A i \in DOMAIN toPage'[q] :
                toPage'[q][i] = new \/ (i \in DOMAIN toPage[q] /\ toPage'[q][i] = toPage[q][i])
  BY <1>0, <1>1, <1>2, SendToFacts
<1>5. p \in open
  BY <1>1 DEF IInv, Closed
<1>6. /\ writes \in Seq(Copies) /\ (pendingSaving = 0 <=> writes = <<>>) /\ Len(writes) <= 1
  BY DEF IInv, TypeOK, FileKept, FileCurrent
<1>7. /\ pendingSaving' \in 0..2 /\ pendingSaving' # 0
      /\ writes' \in Seq(Copies) /\ writes' # <<>> /\ Len(writes') <= 1
      /\ writes = <<>> => writes'[1] = new
  <2>1. CASE writes = <<>>
    <3>1. writes' = <<new>> /\ pendingSaving' = 1
      BY <1>1, <1>6, <2>1 DEF CountUp
    <3> QED
      BY <1>2, <3>1
  <2>2. CASE writes # <<>>
    BY <1>1, <1>6, <2>2 DEF CountUp
  <2> QED
    BY <2>1, <2>2
<1>8. TypeOK'
  BY <1>0, <1>1, <1>2, <1>3, <1>4, <1>7 DEF TypeOK, outside
<1>9. FileKept'
  BY <1>1, <1>7 DEF FileKept, FileCurrent
<1>10. Closed'
  BY <1>1, <1>3, <1>4, <1>5 DEF IInv, Closed
<1>11. Agree'
  BY <1>0, <1>1, <1>2, BroadcastAgrees
<1>12. Kept'
  <2> SUFFICES ASSUME ~raced PROVE AllWanted' /\ Same(new, wanted)
    BY <1>1 DEF Kept
  <2>1. AllWanted
    BY DEF IInv, Kept
  <2>2. Same(new, wanted)
    BY <1>2, <2>1 DEF AllWanted
  <2>3. \A q \in Pages : \A i \in DOMAIN toPage'[q] : Same(toPage'[q][i], wanted)
    BY <1>4, <2>1, <2>2 DEF AllWanted
  <2>4. ASSUME NEW q \in Pages, NEW i \in DOMAIN toMain'[q] PROVE Same(toMain'[q][i], wanted)
    <3>1. CASE q = p
      <4>1. i + 1 \in DOMAIN toMain[p] /\ toMain'[q][i] = toMain[p][i + 1]
        BY <1>2, <1>3, <2>4, <3>1
      <4> QED
        BY <2>1, <4>1 DEF AllWanted
    <3>2. CASE q # p
      BY <1>3, <2>1, <2>4, <3>2 DEF AllWanted
    <3> QED
      BY <3>1, <3>2
  <2>5. wanted' = wanted
    BY <1>1
  <2> QED
    BY <2>2, <2>3, <2>4, <2>5 DEF AllWanted
<1> QED
  BY <1>8, <1>9, <1>10, <1>11, <1>12 DEF IInv

(* The theme of the system changes.                                        *)
LEMMA ThemeStep ==
  ASSUME IInv, ThemeUpdated
  PROVE  IInv'
<1>0. TypeOK /\ object \in Copies
  BY DEF IInv, TypeOK
<1>1. /\ SendTo(open, object) /\ raced' = (raced \/ ~Quiet)
      /\ themes' = themes + 1 /\ themes < MaxThemes
      /\ UNCHANGED <<object, disk, open, shown, view, toMain, edits, restarts, wanted>>
  BY DEF ThemeUpdated
<1>2. /\ toPage' \in [Pages -> Seq(Copies)]
      /\ \A q \in Pages :
           /\ q \notin open => toPage'[q] = toPage[q]
           /\ \A i \in DOMAIN toPage'[q] :
                toPage'[q][i] = object \/ (i \in DOMAIN toPage[q] /\ toPage'[q][i] = toPage[q][i])
  BY <1>0, <1>1, SendToFacts
<1>3. TypeOK'
  <2>1. themes' \in 0..MaxThemes
    BY <1>0, <1>1, BoundsAssumption DEF TypeOK
  <2>2. raced' \in BOOLEAN
    BY <1>1
  <2> QED
    BY <1>0, <1>1, <1>2, <2>1, <2>2 DEF TypeOK, disk
<1>4. FileKept' /\ Closed'
  BY <1>1, <1>2 DEF IInv, FileKept, FileCurrent, Closed, disk
<1>5. Agree'
  BY <1>0, <1>1, BroadcastAgrees
<1>6. Kept'
  <2> SUFFICES ASSUME ~raced, Quiet PROVE AllWanted' /\ Same(object, wanted)
    BY <1>1 DEF Kept
  <2>1. \A q \in Pages : toMain[q] = <<>> /\ toPage[q] = <<>>
    BY DEF Quiet
  <2>2. Same(object, wanted)
    BY <2>1 DEF IInv, Kept, NothingToSave
  <2>3. \A q \in Pages : DOMAIN toMain'[q] = {} /\ DOMAIN toPage[q] = {}
    BY <1>1, <2>1
  <2>4. \A q \in Pages : \A i \in DOMAIN toPage'[q] : toPage'[q][i] = object
    BY <1>2, <2>3
  <2> QED
    BY <1>1, <2>2, <2>3, <2>4 DEF AllWanted
<1> QED
  BY <1>3, <1>4, <1>5, <1>6 DEF IInv

(* A page comes, or its controls come or go.                               *)
LEMMA PageStep ==
  ASSUME IInv, NEW p \in Pages, OpenPage(p) \/ ShowControls(p) \/ HideControls(p)
  PROVE  IInv'
<1>0. TypeOK
  BY DEF IInv
<1>1. CASE OpenPage(p)
  <2>1. /\ p \notin open /\ open' = open \cup {p} /\ view' = [view EXCEPT ![p] = object]
        /\ UNCHANGED <<object, disk, shown, toMain, toPage, outside, wanted, raced>>
    BY <1>1 DEF OpenPage
  <2>2. view' \in [Pages -> Copies] /\ view'[p] = object
        /\ \A q \in Pages : q # p => view'[q] = view[q]
    BY <1>0, <2>1 DEF TypeOK
  <2>3. TypeOK'
    BY <1>0, <2>1, <2>2 DEF TypeOK, disk, outside
  <2>4. FileKept' /\ Closed' /\ Kept'
    BY <2>1 DEF IInv, FileKept, FileCurrent, Closed, Kept, AllWanted, NothingToSave, disk
  <2>5. Agree'
    <3>1. toPage[p] = <<>> /\ Same(view'[p], object)
      BY <2>1, <2>2 DEF IInv, Closed, Same
    <3>2. \A q \in open : q \in Pages /\ q # p
      BY <1>0, <2>1 DEF TypeOK
    <3> QED
      BY <2>1, <2>2, <3>1, <3>2 DEF IInv, Agree
  <2> QED
    BY <2>3, <2>4, <2>5 DEF IInv
<1>2. CASE ShowControls(p) \/ HideControls(p)
  <2>1. /\ shown' \subseteq open
        /\ UNCHANGED <<object, disk, open, view, toMain, toPage, outside, wanted, raced>>
    BY <1>0, <1>2 DEF ShowControls, HideControls, TypeOK
  <2>2. TypeOK'
    BY <1>0, <2>1 DEF TypeOK, disk, outside
  <2> QED
    BY <2>1, <2>2 DEF IInv, FileKept, FileCurrent, Closed, Agree, Kept, AllWanted, NothingToSave, disk
<1> QED
  BY <1>1, <1>2

(* A write ends or fails: it was the only one.                             *)
LEMMA WriteStep ==
  ASSUME IInv, NEW i \in 1..Len(writes), NEW ok \in BOOLEAN, WriteEnds(i, ok)
  PROVE  IInv'
<1>0. /\ TypeOK /\ writes \in Seq(Copies) /\ Len(writes) \in Nat /\ Len(writes) <= 1
      /\ writes # <<>> /\ (~missed => writes[1] = object)
  BY DEF IInv, TypeOK, FileKept, FileCurrent
<1>1. i = 1 /\ Len(writes) = 1 /\ writes[1] \in Copies
  <2>1. Len(writes) \in Nat /\ Len(writes) <= 1 /\ i \in Nat /\ 1 <= i /\ i <= Len(writes)
    BY <1>0
  <2>2. i = 1 /\ Len(writes) = 1
    <3>1. \A m, n \in Nat : n <= 1 /\ 1 <= m /\ m <= n => m = 1 /\ n = 1
      OBVIOUS
    <3> QED
      BY <2>1, <3>1
  <2> QED
    BY <1>0, <2>2
<1>2. /\ writes' = [n \in 1..(Len(writes) - 1) |-> writes[IF n < i THEN n ELSE n + 1]]
      /\ file' \in IF ok THEN {writes[i]} ELSE {file, Torn}
      /\ missed' = (missed \/ ~ok) /\ pendingSaving' = 0
      /\ UNCHANGED <<object, open, shown, view, toMain, toPage, outside, wanted, raced>>
  BY DEF WriteEnds, PendingAfterWrite
<1>3. writes' = <<>>
  <2>1. /\ Len(writes) - 1 = 0
        /\ writes' = [n \in 1..(Len(writes) - 1) |-> writes[IF n < i THEN n ELSE n + 1]]
    BY <1>1, <1>2
  <2>2. writes' = [n \in 1..0 |-> writes[IF n < i THEN n ELSE n + 1]]
    BY <2>1
  <2>3. \A n \in 1..0 : writes[IF n < i THEN n ELSE n + 1] \in Copies
    OBVIOUS
  <2>4. writes' \in [1..0 -> Copies]
    BY <2>2, <2>3
  <2>5. writes' \in Seq(Copies) /\ DOMAIN writes' = 1..0
    BY <2>4, SeqDef
  <2>6. Len(writes') = 0
    BY <2>5
  <2> QED
    BY <2>5, <2>6, EmptySeq
<1>4. writes' \in Seq(Copies) /\ Len(writes') <= 1
  BY <1>3, EmptySeq
<1>5. TypeOK'
  <2>1. missed' \in BOOLEAN
    BY <1>2
  <2>2. file' \in Copies \cup {Torn}
    BY <1>0, <1>1, <1>2 DEF TypeOK
  <2> QED
    BY <1>0, <1>2, <1>4, <2>1, <2>2 DEF TypeOK, outside
<1>6. FileKept'
  BY <1>0, <1>1, <1>2, <1>3, <1>4 DEF FileKept, FileCurrent
<1> QED
  BY <1>2, <1>5, <1>6 DEF IInv, Closed, Agree, Kept, AllWanted, NothingToSave

(* The application quits and starts again.                                 *)
LEMMA RestartStep ==
  ASSUME IInv, Restart
  PROVE  IInv'
<1> DEFINE settled == Quiet /\ writes = <<>> /\ ~missed
<1>0. TypeOK /\ writes \in Seq(Copies)
  BY DEF IInv, TypeOK
<1>1. /\ restarts' = restarts + 1 /\ restarts < MaxRestarts
      /\ file' \in LeftByWrites
      /\ object' = IF file' = Torn THEN Defaults ELSE file'
      /\ wanted' = IF settled THEN wanted ELSE object'
      /\ raced' = (raced /\ settled)
      /\ missed' = (file' = Torn)
      /\ writes' = <<>> /\ pendingSaving' = 0 /\ open' = {} /\ shown' = {}
      /\ toMain' = [q \in Pages |-> <<>>] /\ toPage' = [q \in Pages |-> <<>>]
      /\ view' = [q \in Pages |-> Defaults]
      /\ UNCHANGED <<edits, themes>>
  BY DEF Restart, Loaded
<1> HIDE DEF settled
<1>2. file' \in Copies \cup {Torn}
  <2>1. \A i \in DOMAIN writes : writes[i] \in Copies
    BY <1>0
  <2> QED
    BY <1>0, <1>1, <2>1 DEF LeftByWrites, TypeOK
<1>3. Defaults \in Copies
  BY DEF Defaults, Copies
<1>4. object' \in Copies /\ wanted' \in Copies
  BY <1>0, <1>1, <1>2, <1>3 DEF TypeOK
<1>5. TypeOK'
  <2>1. /\ toMain' \in [Pages -> Seq(Copies)] /\ toPage' \in [Pages -> Seq(Copies)]
        /\ view' \in [Pages -> Copies]
    BY <1>1, <1>3
  <2>2. restarts' \in 0..MaxRestarts
    BY <1>0, <1>1, BoundsAssumption DEF TypeOK
  <2>3. raced' \in BOOLEAN /\ missed' \in BOOLEAN
    BY <1>1
  <2>4. /\ writes' \in Seq(Copies) /\ pendingSaving' \in 0..2 /\ open' \subseteq Pages
        /\ shown' \subseteq open'
    BY <1>1
  <2> QED
    BY <1>0, <1>1, <1>2, <1>4, <2>1, <2>2, <2>3, <2>4 DEF TypeOK
<1>6. FileKept'
  <2>1. Len(writes') <= 1
    BY <1>1, EmptySeq
  <2>2. ~missed' => file' = object'
    BY <1>1
  <2> QED
    BY <1>1, <2>1, <2>2 DEF FileKept, FileCurrent
<1>7. Closed' /\ Agree'
  BY <1>1 DEF Closed, Agree
<1>8. Kept'
  <2>1. AllWanted'
    BY <1>1 DEF AllWanted
  <2>2. ASSUME ~raced' PROVE Same(object', wanted')
    <3>1. CASE ~settled
      BY <1>1, <3>1 DEF Same
    <3>2. CASE settled
      <4>1. Quiet /\ writes = <<>> /\ ~missed /\ ~raced
        BY <1>1, <2>2, <3>2 DEF settled
      <4>2. file = object /\ file' = file
        BY <1>1, <4>1 DEF IInv, FileKept, FileCurrent, LeftByWrites
      <4>3. object' = object
        BY <1>0, <1>1, <4>2, TornIsNoCopy DEF TypeOK
      <4>4. Same(object, wanted)
        BY <4>1 DEF IInv, Kept, NothingToSave, Quiet
      <4> QED
        BY <1>1, <3>2, <4>3, <4>4
    <3> QED
      BY <3>1, <3>2
  <2> QED
    BY <2>1, <2>2 DEF Kept
<1> QED
  BY <1>5, <1>6, <1>7, <1>8 DEF IInv

(* Every step preserves the inductive invariant.                           *)
LEMMA StepIInv == IInv /\ [Next]_vars => IInv'
<1> SUFFICES ASSUME IInv, [Next]_vars PROVE IInv'
  OBVIOUS
<1>1. CASE UNCHANGED vars
  <2>1. TypeOK'
    BY <1>1 DEF IInv, TypeOK, vars, disk, outside
  <2> QED
    BY <1>1, <2>1 DEF IInv, FileKept, FileCurrent, Closed, Agree, Kept, AllWanted, NothingToSave,
                      vars, disk
<1> QED
  BY <1>1, EditStep, ReceiveStep, SaveStep, ThemeStep, PageStep, WriteStep, RestartStep
  DEF Next, Traffic, Stopped

-----------------------------------------------------------------------------
(* The theorems.                                                           *)

(* The inductive invariant holds in every reachable state, whatever the    *)
(* pages and the bounds.                                                   *)
THEOREM Invariance == Spec => []IInv
BY InitIInv, StepIInv, PTL DEF Spec

(* The settings, their copies and all messages always have their types.    *)
THEOREM TypeCorrect == Spec => []TypeOK
<1>1. IInv => TypeOK
  BY DEF IInv
<1> QED
  BY <1>1, Invariance, PTL

(* Writes of settings.json never overlap, and what it holds after the last *)
(* one is the object unless a change came during it or it failed.          *)
THEOREM FileIsCurrent == Spec => []FileCurrent
<1>1. IInv => FileCurrent
  BY DEF IInv, FileKept
<1> QED
  BY <1>1, Invariance, PTL

(* When nothing is on the way, all pages show the main process's settings, *)
(* whoever edited at the same time.                                        *)
THEOREM AllPagesAgree == Spec => []PagesAgree
<1>1. IInv => PagesAgree
  BY DEF IInv, TypeOK, Agree, PagesAgree, Quiet, Same
<1> QED
  BY <1>1, Invariance, PTL

(* Edits that did not overlap are never taken back, not even by a restart. *)
THEOREM EditsAreKept == Spec => []EditsKept
<1>1. IInv => EditsKept
  BY DEF IInv, Kept, NothingToSave, EditsKept, Quiet, Same
<1> QED
  BY <1>1, Invariance, PTL
=============================================================================
