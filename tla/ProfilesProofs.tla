----------------------------- MODULE ProfilesProofs -----------------------------
(***************************************************************************)
(* Proofs about the profiles, for any number of windows that share the two *)
(* files, of profiles, and of failures.                                    *)
(***************************************************************************)
EXTENDS ProfilesProperties, Least, SequenceTheorems, TLAPS

-----------------------------------------------------------------------------
(* Lists of profiles                                                       *)

\* What DeleteProfile leaves of a list.
LEMMA Removed ==
  ASSUME NEW s \in Seq(Profile), NEW i \in 1 .. Len(s)
  PROVE  /\ RemoveAt(s, i) \in Seq(Profile)
         /\ Len(RemoveAt(s, i)) = Len(s) - 1
         /\ \A n \in 1 .. Len(s) - 1 : RemoveAt(s, i)[n] = IF n < i THEN s[n] ELSE s[n + 1]
<1> DEFINE a == SubSeq(s, 1, i - 1)  b == SubSeq(s, i + 1, Len(s))
<1>1. /\ a \in Seq(Profile) /\ Len(a) = i - 1
      /\ \A n \in 1 .. i - 1 : a[n] = s[n]
  OBVIOUS
<1>2. /\ b \in Seq(Profile) /\ Len(b) = Len(s) - i
      /\ \A n \in 1 .. Len(s) - i : b[n] = s[n + i]
  OBVIOUS
<1>3. RemoveAt(s, i) = a \o b
  BY DEF RemoveAt
<1>4. i \in Nat /\ Len(s) \in Nat /\ 1 <= i /\ i <= Len(s)
  OBVIOUS
<1> HIDE DEF a, b
<1>5. a \o b \in Seq(Profile) /\ Len(a \o b) = Len(s) - 1
  <2>1. a \o b \in Seq(Profile) /\ Len(a \o b) = Len(a) + Len(b)
    BY <1>1, <1>2, ConcatProperties, Zenon
  <2>2. (i - 1) + (Len(s) - i) = Len(s) - 1
    BY <1>4
  <2> QED
    BY <1>1, <1>2, <2>1, <2>2
<1>6. ASSUME NEW n \in 1 .. Len(s) - 1
      PROVE  (a \o b)[n] = IF n < i THEN s[n] ELSE s[n + 1]
  <2>1. CASE n < i
    BY <1>1, <1>2, <1>4, <2>1
  <2>2. CASE ~(n < i)
    <3>1. (a \o b)[n] = b[n - (i - 1)]
      BY <1>1, <1>2, <1>4, <2>2
    <3>2. n - (i - 1) \in 1 .. Len(s) - i /\ n - (i - 1) + i = n + 1
      BY <1>4, <2>2
    <3> QED
      BY <1>2, <2>2, <3>1, <3>2
  <2> QED
    BY <2>1, <2>2
<1> QED
  BY <1>3, <1>5, <1>6

\* The last of some of the indices of a list.
LEMMA LastOne ==
  ASSUME NEW k \in Nat, NEW S \in SUBSET (0 .. k - 1), S # {}
  PROVE  Max(S) \in S
<1> DEFINE T == {k - n : n \in S}
<1>1. T \in SUBSET Nat /\ T # {} /\ IsFiniteSet(T)
  <2>0. \A n \in S : k - n \in T /\ k - n \in 0 .. k
    OBVIOUS
  <2>1. T \subseteq 0 .. k /\ T # {}
    BY <2>0
  <2>2. IsFiniteSet(0 .. k)
    BY FS_Interval
  <2>3. 0 .. k \subseteq Nat
    OBVIOUS
  <2> HIDE DEF T
  <2> QED
    BY <2>1, <2>2, <2>3, FS_Subset
<1>2. PICK m \in T : \A n \in T : m <= n
  BY <1>1, LeastExists
<1>3. k - m \in S /\ \A n \in S : k - m >= n
  BY <1>2
<1> QED
  BY <1>3 DEF Max

LEMMA SelectedType ==
  ASSUME NEW s \in Seq(Profile), NEW last \in Int
  PROVE  Selected(s, last) \in -1 .. Len(s)
<1>1. CASE HasDefault(s)
  <2> DEFINE D == {n \in 0 .. Len(s) - 1 : s[n + 1].default}
  <2>1. D \in SUBSET (0 .. Len(s) - 1)
    OBVIOUS
  <2>2. PICK m \in 1 .. Len(s) : s[m].default
    BY <1>1 DEF HasDefault
  <2>3. m - 1 \in 0 .. Len(s) - 1 /\ (m - 1) + 1 = m
    OBVIOUS
  <2>4. m - 1 \in D
    BY <2>2, <2>3
  <2>5. Max(D) \in D
    <3>1. Len(s) \in Nat
      OBVIOUS
    <3> HIDE DEF D
    <3> QED
      BY <2>1, <2>4, <3>1, LastOne
  <2> QED
    BY <1>1, <2>5 DEF Selected
<1>2. CASE ~HasDefault(s)
  BY <1>2 DEF Selected
<1> QED
  BY <1>1, <1>2

LEMMA EntryType ==
  ASSUME NEW s \in Seq(Profile), NEW index \in Int
  PROVE  Entry(s, index) \in Ids \cup {Blank}
<1>1. CASE InRange(s, index)
  <2>1. index + 1 \in 1 .. Len(s)
    BY <1>1 DEF InRange
  <2>2. s[index + 1] \in Profile
    BY <2>1
  <2> QED
    BY <1>1, <2>2 DEF Entry, Profile
<1> QED
  BY <1>1 DEF Entry

LEMMA GetProfilesType == FilesOK => \A w \in Windows : GetProfiles(w) \in Seq(Profile)
BY DEF FilesOK, GetProfiles

-----------------------------------------------------------------------------
(* Types                                                                   *)

\* What is left alone keeps its type.
LEMMA TypesStay ==
  ASSUME TypeOK
  PROVE  /\ UNCHANGED files => FilesOK'
         /\ UNCHANGED process => ProcessOK'
         /\ UNCHANGED window => WindowOK'
         /\ UNCHANGED manager /\ UNCHANGED pc => ManagerOK'
         /\ UNCHANGED history => HistoryOK'
<1> USE DEF TypeOK, files, process, window, manager, history
<1>1. UNCHANGED files => FilesOK'
  BY DEF FilesOK
<1>2. UNCHANGED process => ProcessOK'
  BY DEF ProcessOK
<1>3. UNCHANGED window => WindowOK'
  BY DEF WindowOK
<1>4. UNCHANGED manager /\ UNCHANGED pc => ManagerOK'
  BY DEF ManagerOK
<1>5. UNCHANGED history => HistoryOK'
  BY DEF HistoryOK
<1> QED
  BY <1>1, <1>2, <1>3, <1>4, <1>5

\* A window that is not idle says nothing about its manager.
LEMMA ManagerStays ==
  ASSUME ManagerOK, UNCHANGED manager, NEW w \in Windows, pc \in [Windows -> STRING],
         NEW to \in STRING \ {"idle"}, pc' = [pc EXCEPT ![w] = to]
  PROVE  ManagerOK'
BY DEF ManagerOK, manager

LEMMA LoadStoredType ==
  ASSUME TypeOK, NEW w \in Windows, LoadStoredProfiles(w)
  PROVE  /\ WindowOK'
         /\ invalidKey' \in [Windows -> BOOLEAN]
<1> DEFINE s == GetProfiles(w)  index == Selected(s, lastProfileIndex[w])
<1>1. s \in Seq(Profile) /\ lastProfileIndex[w] \in Int
  BY GetProfilesType DEF TypeOK, ProcessOK
<1>2. index \in -1 .. Len(s)
  BY <1>1, SelectedType
<1>3. Entry(s, IF index = -1 THEN 0 ELSE index) \in Ids \cup {Blank, Edited}
  BY <1>1, <1>2, EntryType
<1>4. /\ combo' = [combo EXCEPT ![w] = s] /\ current' = [current EXCEPT ![w] = index]
      /\ fields' = [fields EXCEPT ![w] = Entry(s, IF index = -1 THEN 0 ELSE index)]
      /\ Decrypted(w, profilesFile)
  BY DEF LoadStoredProfiles
<1> HIDE DEF s, index
<1>5. WindowOK'
  BY <1>1, <1>2, <1>3, <1>4 DEF TypeOK, WindowOK
<1>6. invalidKey' \in [Windows -> BOOLEAN]
  BY <1>4 DEF Decrypted, TypeOK, ProcessOK
<1> QED
  BY <1>5, <1>6

\* A process that has not shown its window has no manager: fields that are
\* enabled belong to the list in memory.
Fresh ==
  \A w \in Windows :
    pc[w] \in {"settings", "profiles", "closed", "dead"} \/ (Saving(w) /\ after[w] = "start")
    => ~edit[w]

Typed == TypeOK /\ Fresh

LEMMA TypedInit == Init => Typed
<1> SUFFICES ASSUME Init PROVE Typed
  OBVIOUS
<1>1. FilesOK
  BY DEF Init, FilesOK, Readable
<1>2. ProcessOK
  BY DEF Init, ProcessOK
<1>3. WindowOK
  BY DEF Init, WindowOK
<1>4. ManagerOK
  BY DEF Init, ManagerOK
<1>5. HistoryOK
  BY DEF Init, HistoryOK
<1>6. Fresh
  BY DEF Init, Fresh
<1> QED
  BY <1>1, <1>2, <1>3, <1>4, <1>5, <1>6 DEF Typed, TypeOK

LEMMA BecomesType ==
  ASSUME TypeOK, NEW w \in Windows, NEW is \in Readable, Becomes(w, is)
  PROVE  FilesOK'
<1>1. /\ lastProfileIndex[w] \in Int /\ combo[w] \in Seq(Profile)
      /\ current[w] \in Int /\ list[w] \in Seq(Profile)
  BY DEF TypeOK, ProcessOK, WindowOK, ManagerOK
<1>2. Entry(combo[w], current[w]) \in Ids \cup {Blank}
  BY <1>1, EntryType
<1>3. << >> \in Seq(Profile)
  OBVIOUS
<1> DEFINE whole == [is |-> is, index |-> lastProfileIndex[w],
                     chosen |-> Entry(combo[w], current[w]), among |-> combo[w]]
           other == [is |-> is, index |-> -1, chosen |-> Blank, among |-> << >>]
           stored == [is |-> is, list |-> IF is = "whole" THEN list[w] ELSE << >>]
           Settings == [is : Readable, index : Int, chosen : Ids \cup {Blank}, among : Seq(Profile)]
           Lists == [is : Readable, list : Seq(Profile)]
<1>4. whole \in Settings /\ other \in Settings /\ stored \in Lists
  BY <1>1, <1>2, <1>3
<1>5. CASE SavesSettings(w)
  <2>1. (settingsFile' = whole \/ settingsFile' = other) /\ profilesFile' = profilesFile
    BY <1>5 DEF Becomes
  <2> HIDE DEF whole, other
  <2> QED
    BY <1>4, <2>1 DEF TypeOK, FilesOK
<1>6. CASE ~SavesSettings(w)
  <2>1. profilesFile' = stored /\ settingsFile' = settingsFile
    BY <1>6 DEF Becomes
  <2> HIDE DEF stored
  <2> QED
    BY <1>4, <2>1 DEF TypeOK, FilesOK
<1> QED
  BY <1>5, <1>6

LEMMA GoneType ==
  ASSUME Typed, NEW w \in Windows, NEW how \in {"closed", "dead"}, Gone(w, how)
  PROVE  ProcessOK' /\ WindowOK' /\ ManagerOK' /\ Fresh'
<1> USE DEF Typed, TypeOK
<1>1. ProcessOK'
  BY DEF Gone, ProcessOK
<1>2. WindowOK'
  <2>1. << >> \in Seq(Profile) /\ Len(<< >>) = 0
    OBVIOUS
  <2> QED
    BY <2>1 DEF Gone, WindowOK
<1>3. ManagerOK'
  BY DEF Gone, ProcessOK, ManagerOK
<1>4. Fresh'
  BY DEF Gone, ProcessOK, ManagerOK, Fresh, Saving
<1> QED
  BY <1>1, <1>2, <1>3, <1>4

\* The beginning of a window.
LEMMA StartTyped ==
  ASSUME Typed, NEW w \in Windows, Start(w) \/ GetSettings(w) \/ Open(w)
  PROVE  Typed'
<1> USE DEF Typed, TypeOK
<1>1. CASE Start(w)
  <2>1. PICK to \in {"settings", "remove"} :
          /\ pc' = [pc EXCEPT ![w] = to]
          /\ \/ to = "settings" /\ UNCHANGED after
             \/ to = "remove" /\ after' = [after EXCEPT ![w] = "start"]
    <3>1. CASE settingsFile.is = "whole"
      BY <1>1, <3>1 DEF Start
    <3>2. CASE settingsFile.is # "whole"
      BY <1>1, <3>2 DEF Start
    <3> QED
      BY <3>1, <3>2
  <2>2. ProcessOK'
    <3>1. pc' \in [Windows -> Running \cup {"closed", "dead"}]
      BY <2>1 DEF ProcessOK, Running
    <3>2. after' \in [Windows -> {"none", "start", "exit", "add", "delete", "save"}]
      BY <2>1 DEF ProcessOK
    <3>3. settingsFile.index \in Int
      BY DEF FilesOK
    <3>4. invalidKey' \in [Windows -> BOOLEAN]
      BY <1>1 DEF Start, ProcessOK
    <3>5. lastProfileIndex' \in [Windows -> Int]
      BY <1>1, <3>3 DEF Start, ProcessOK
    <3> QED
      BY <3>1, <3>2, <3>4, <3>5 DEF ProcessOK
  <2>3. ManagerOK'
    BY <1>1, <2>1 DEF Start, manager, ProcessOK, ManagerOK
  <2>4. Fresh'
    BY <1>1, <2>1 DEF Start, manager, Alive, Running, ProcessOK, ManagerOK, Fresh, Saving
  <2>5. HistoryOK'
    BY <1>1 DEF Start, HistoryOK
  <2> QED
    BY <1>1, <2>2, <2>3, <2>4, <2>5, TypesStay DEF Start
<1>2. CASE GetSettings(w)
  <2>1. ProcessOK'
    BY <1>2 DEF GetSettings, Go, Decrypted, ProcessOK, FilesOK, Running
  <2>2. ManagerOK' /\ Fresh'
    BY <1>2 DEF GetSettings, Go, manager, ProcessOK, ManagerOK, Fresh, Saving
  <2> QED
    BY <1>2, <2>1, <2>2, TypesStay DEF GetSettings
<1>3. CASE Open(w)
  <2>1. WindowOK' /\ ProcessOK'
    BY <1>3, LoadStoredType DEF Open, Go, ProcessOK, Running
  <2>2. ManagerOK' /\ Fresh'
    BY <1>3 DEF Open, Go, manager, ProcessOK, ManagerOK, Fresh, Saving
  <2> QED
    BY <1>3, <2>1, <2>2, TypesStay DEF Open
<1> QED
  BY <1>1, <1>2, <1>3

\* The combo box.
LEMMA ComboTyped ==
  ASSUME Typed, NEW w \in Windows,
         Press(w) \/ (\E index \in 0 .. Len(combo[w]) : Pick(w, index)) \/ EditFields(w)
  PROVE  Typed'
<1> USE DEF Typed, TypeOK
<1>1. CASE Press(w)
  <2>1. pc' = pc
    BY <1>1 DEF Press, Go, ProcessOK
  <2>2. WindowOK' /\ ProcessOK'
    BY <1>1, <2>1, LoadStoredType DEF Press, ProcessOK
  <2>3. Fresh'
    BY <1>1, <2>1 DEF Press, manager, Fresh, Saving
  <2> QED
    BY <1>1, <2>1, <2>2, <2>3, TypesStay DEF Press
<1>2. ASSUME NEW index \in 0 .. Len(combo[w]), Pick(w, index) PROVE Typed'
  <2>1. pc' = pc
    BY <1>2 DEF Pick, Go, ProcessOK
  <2>2. index \in Int /\ combo[w] \in Seq(Profile)
    BY DEF WindowOK
  <2>3. Entry(combo[w], index) \in Ids \cup {Blank}
    BY <2>2, EntryType
  <2>4. WindowOK'
    BY <1>2, <2>2, <2>3 DEF Pick, WindowOK
  <2>5. ProcessOK' /\ Fresh'
    BY <1>2, <2>1 DEF Pick, manager, ProcessOK, Fresh, Saving
  <2> QED
    BY <1>2, <2>1, <2>4, <2>5, TypesStay DEF Pick
<1>3. CASE EditFields(w)
  <2>1. pc' = pc
    BY <1>3 DEF EditFields, Go, ProcessOK
  <2>2. WindowOK'
    BY <1>3 DEF EditFields, WindowOK
  <2>3. ProcessOK' /\ Fresh'
    BY <1>3, <2>1 DEF EditFields, manager, ProcessOK, Fresh, Saving
  <2> QED
    BY <1>3, <2>1, <2>2, <2>3, TypesStay DEF EditFields
<1> QED
  BY <1>1, <1>2, <1>3

\* Looking at profiles in the manager.
LEMMA ViewTyped ==
  ASSUME Typed, NEW w \in Windows,
         \/ ViewProfileManager(w) \/ CloseManager(w)
         \/ (\E index \in 0 .. Len(list[w]) : ChooseItem(w, index))
  PROVE  Typed'
<1> USE DEF Typed, TypeOK
<1>1. CASE ViewProfileManager(w)
  <2> DEFINE s == GetProfiles(w)
  <2>1. s \in Seq(Profile) /\ pc' = pc /\ pc[w] = "idle"
    BY <1>1, GetProfilesType DEF ViewProfileManager, Go, ProcessOK
  <2>2. /\ shown' = [shown EXCEPT ![w] = TRUE] /\ list' = [list EXCEPT ![w] = s]
        /\ IF s # << >> THEN LoadProfile(w, s, 0)
           ELSE selected' = [selected EXCEPT ![w] = -1] /\ NoProfile(w)
    BY <1>1 DEF ViewProfileManager
  <2> HIDE DEF s
  <2>3. s # << >> => InRange(s, 0)
    BY <2>1 DEF InRange
  <2>4. ManagerOK' /\ Fresh'
    <3>1. CASE s # << >>
      <4>1. /\ selected' = [selected EXCEPT ![w] = 0] /\ edit' = [edit EXCEPT ![w] = TRUE]
            /\ free' = [free EXCEPT ![w] = s[0 + 1].default \/ ~HasDefault(s)]
        BY <2>2, <3>1 DEF LoadProfile
      <4>2. free' \in [Windows -> BOOLEAN]
        <5>1. s[0 + 1] \in Profile
          BY <2>1, <2>3, <3>1 DEF InRange
        <5>2. (s[0 + 1].default \/ ~HasDefault(s)) \in BOOLEAN
          OBVIOUS
        <5> QED
          BY <4>1, <5>2 DEF ManagerOK
      <4>3. ManagerOK'
        BY <2>1, <2>2, <2>3, <3>1, <4>1, <4>2 DEF ManagerOK
      <4>4. Fresh'
        BY <1>1, <2>1, <4>1 DEF ViewProfileManager, ManagerOK, Fresh, Saving
      <4> QED
        BY <4>3, <4>4
    <3>2. CASE s = << >>
      <4>0. /\ selected' = [selected EXCEPT ![w] = -1] /\ edit' = [edit EXCEPT ![w] = FALSE]
            /\ free' = [free EXCEPT ![w] = FALSE] /\ shown' = [shown EXCEPT ![w] = TRUE]
            /\ list' = [list EXCEPT ![w] = s]
        BY <2>2, <3>2 DEF NoProfile
      <4>1. ManagerOK'
        BY <2>1, <4>0 DEF ManagerOK
      <4>2. Fresh'
        BY <1>1, <2>1, <2>2, <3>2 DEF ViewProfileManager, NoProfile, ManagerOK, Fresh, Saving
      <4> QED
        BY <4>1, <4>2
    <3> QED
      BY <3>1, <3>2
  <2>5. ProcessOK'
    BY <1>1, <2>1 DEF ViewProfileManager, Decrypted, ProcessOK
  <2> QED
    BY <1>1, <2>4, <2>5, TypesStay DEF ViewProfileManager
<1>2. CASE CloseManager(w)
  <2>1. pc' = pc /\ << >> \in Seq(Profile)
    BY <1>2 DEF CloseManager, Go, ProcessOK
  <2>2. ManagerOK' /\ ProcessOK' /\ Fresh'
    BY <1>2, <2>1 DEF CloseManager, NoProfile, ManagerOK, ProcessOK, Fresh, Saving
  <2> QED
    BY <1>2, <2>2, TypesStay DEF CloseManager
<1>3. ASSUME NEW index \in 0 .. Len(list[w]), ChooseItem(w, index) PROVE Typed'
  <2>1. pc' = pc /\ index \in Int /\ pc[w] = "idle"
    BY <1>3 DEF ChooseItem, Go, ProcessOK, ManagerOK
  <2>2. ManagerOK' /\ ProcessOK' /\ Fresh'
    BY <1>3, <2>1 DEF ChooseItem, LoadProfile, ManagerOK, ProcessOK, Fresh, Saving
  <2> QED
    BY <1>3, <2>2, TypesStay DEF ChooseItem
<1> QED
  BY <1>1, <1>2, <1>3
\* What SaveProfile makes of a list.
LEMMA Boxed ==
  ASSUME NEW s \in Seq(Profile), NEW i \in 1 .. Len(s), NEW box \in BOOLEAN
  PROVE  /\ [s EXCEPT ![i].default = box] \in Seq(Profile)
         /\ Len([s EXCEPT ![i].default = box]) = Len(s)
         /\ \A n \in 1 .. Len(s) :
              [s EXCEPT ![i].default = box][n].default = IF n = i THEN box ELSE s[n].default
<1> DEFINE p == [s[i] EXCEPT !.default = box]
<1>1. s[i] \in Profile
  OBVIOUS
<1>2. p \in Profile /\ p.default = box
  BY <1>1 DEF Profile
<1>3. [s EXCEPT ![i].default = box] = [s EXCEPT ![i] = p]
  OBVIOUS
<1> HIDE DEF p
<1>4. /\ [s EXCEPT ![i] = p] \in Seq(Profile) /\ Len([s EXCEPT ![i] = p]) = Len(s)
      /\ \A n \in 1 .. Len(s) : [s EXCEPT ![i] = p][n] = IF n = i THEN p ELSE s[n]
  BY <1>2
<1> QED
  BY <1>2, <1>3, <1>4

\* A handler begins to save.
LEMMA SaveTyped ==
  ASSUME Typed, NEW w \in Windows,
         \/ Exit(w) \/ (\E id \in Ids : AddNewProfile(w, id))
         \/ DeleteProfile(w) \/ SaveProfile(w)
  PROVE  Typed'
<1> USE DEF Typed, TypeOK
<1>0. ASSUME NEW handler \in {"exit", "add", "delete", "save"}, Save(w, handler)
      PROVE  /\ pc' \in [Windows -> Running \cup {"closed", "dead"}]
             /\ after' \in [Windows -> {"none", "start", "exit", "add", "delete", "save"}]
             /\ pc[w] = "idle" /\ pc' = [pc EXCEPT ![w] = "remove"]
             /\ edit' = edit => Fresh'
  <2>1. pc[w] = "idle" /\ pc' = [pc EXCEPT ![w] = "remove"] /\ after' = [after EXCEPT ![w] = handler]
    BY <1>0 DEF Save, Go
  <2>2. pc' \in [Windows -> Running \cup {"closed", "dead"}]
    BY <2>1 DEF ProcessOK, Running
  <2>3. after' \in [Windows -> {"none", "start", "exit", "add", "delete", "save"}]
    BY <2>1 DEF ProcessOK
  <2>4. edit' = edit => Fresh'
    BY <2>1 DEF ProcessOK, Fresh, Saving
  <2> QED
    BY <2>1, <2>2, <2>3, <2>4
<1>1. CASE Exit(w)
  <2>1. Save(w, "exit")
    BY <1>1 DEF Exit
  <2>2. ProcessOK'
    BY <1>0, <1>1, <2>1 DEF Exit, ProcessOK, WindowOK
  <2>3. ManagerOK'
    BY <1>0, <1>1, <2>1 DEF Exit, manager, ProcessOK, ManagerOK
  <2>4. Fresh'
    BY <1>0, <1>1, <2>1 DEF Exit, manager
  <2> QED
    BY <1>1, <2>2, <2>3, <2>4, TypesStay DEF Exit
<1>2. ASSUME NEW id \in Ids, AddNewProfile(w, id) PROVE Typed'
  <2>1. Save(w, "add")
    BY <1>2 DEF AddNewProfile
  <2>2. ProcessOK' /\ Fresh'
    BY <1>0, <1>2, <2>1 DEF AddNewProfile, ProcessOK
  <2>3. [id |-> id, default |-> FALSE] \in Profile
    BY DEF Profile
  <2>4. Append(list[w], [id |-> id, default |-> FALSE]) \in Seq(Profile)
    BY <2>3 DEF ManagerOK
  <2>5. ManagerOK'
    BY <1>0, <1>2, <2>1, <2>4 DEF AddNewProfile, ProcessOK, ManagerOK
  <2>6. HistoryOK'
    BY <1>2 DEF AddNewProfile, HistoryOK
  <2> QED
    BY <1>2, <2>2, <2>5, <2>6, TypesStay DEF AddNewProfile
<1>3. CASE DeleteProfile(w)
  <2>1. Save(w, "delete") /\ edit[w]
    BY <1>3 DEF DeleteProfile
  <2>2. ProcessOK' /\ Fresh'
    BY <1>0, <1>3, <2>1 DEF DeleteProfile, ProcessOK
  <2>3. list[w] \in Seq(Profile) /\ selected[w] + 1 \in 1 .. Len(list[w])
    BY <1>0, <2>1 DEF ManagerOK, InRange
  <2>4. RemoveAt(list[w], selected[w] + 1) \in Seq(Profile)
    BY <2>3, Removed
  <2>5. list' = [list EXCEPT ![w] = RemoveAt(list[w], selected[w] + 1)]
    BY <1>3 DEF DeleteProfile
  <2>6. ManagerOK'
    BY <1>0, <1>3, <2>1, <2>4, <2>5 DEF DeleteProfile, ProcessOK, ManagerOK
  <2>7. HistoryOK'
    BY <1>3 DEF DeleteProfile, HistoryOK
  <2> QED
    BY <1>3, <2>2, <2>6, <2>7, TypesStay DEF DeleteProfile
<1>4. CASE SaveProfile(w)
  <2>1. Save(w, "save") /\ edit[w]
    BY <1>4 DEF SaveProfile
  <2>2. ProcessOK' /\ Fresh'
    BY <1>0, <1>4, <2>1 DEF SaveProfile, ProcessOK
  <2>3. list[w] \in Seq(Profile) /\ selected[w] + 1 \in 1 .. Len(list[w])
    BY <1>0, <2>1 DEF ManagerOK, InRange
  <2>4. PICK box \in BOOLEAN : list' = [list EXCEPT ![w][selected[w] + 1].default = box]
    BY <1>4 DEF SaveProfile
  <2>5. list' = [list EXCEPT ![w] = [list[w] EXCEPT ![selected[w] + 1].default = box]]
    BY <2>4
  <2>6. [list[w] EXCEPT ![selected[w] + 1].default = box] \in Seq(Profile)
    BY <2>3, Boxed
  <2>7. ManagerOK'
    BY <1>0, <1>4, <2>1, <2>5, <2>6 DEF SaveProfile, ProcessOK, ManagerOK
  <2> QED
    BY <1>4, <2>2, <2>7, TypesStay DEF SaveProfile
<1> QED
  BY <1>1, <1>2, <1>3, <1>4

\* A save ends, and the handler goes on.
LEMMA SavedTyped ==
  ASSUME Typed, NEW w \in Windows, NEW from \in {"open", "write"}, Saved(w, from)
  PROVE  ProcessOK' /\ WindowOK' /\ ManagerOK' /\ Fresh'
<1> USE DEF Typed, TypeOK
<1>1. CASE after[w] = "exit"
  BY <1>1, GoneType DEF Saved
<1>2. CASE after[w] # "exit"
  <2>1. /\ pc[w] = from /\ pc' = [pc EXCEPT ![w] = Resume(w)]
        /\ UNCHANGED <<after, invalidKey, lastProfileIndex, window, manager>>
    BY <1>2 DEF Saved, Go
  <2>2. Resume(w) \in {"settings", "reload"} /\ (Resume(w) = "settings" => after[w] = "start")
    <3>1. CASE after[w] = "start"
      BY <3>1 DEF Resume
    <3>2. CASE after[w] # "start"
      BY <1>2, <3>2 DEF Resume
    <3> QED
      BY <3>1, <3>2
  <2>3. ProcessOK'
    BY <2>1, <2>2 DEF ProcessOK, Running
  <2>4. ManagerOK'
    BY <2>1, <2>2 DEF manager, ProcessOK, ManagerOK
  <2>5. Fresh'
    BY <2>1, <2>2 DEF manager, ProcessOK, Fresh, Saving
  <2> QED
    BY <2>1, <2>3, <2>4, <2>5, TypesStay
<1> QED
  BY <1>1, <1>2

\* The steps of a save.
LEMMA FileTyped ==
  ASSUME Typed, NEW w \in Windows,
         RemoveFile(w) \/ OpenFile(w) \/ OpenFails(w) \/ WriteFile(w) \/ WriteFails(w)
  PROVE  Typed'
<1> USE DEF Typed, TypeOK
<1>1. Harmed(w) => (UNCHANGED book => HistoryOK')
  BY DEF Harmed, HistoryOK
<1>2. ASSUME NEW from \in {"remove", "open"}, NEW to \in {"open", "write"}, Go(w, from, to),
             UNCHANGED <<after, invalidKey, lastProfileIndex, window, manager>>
      PROVE  ProcessOK' /\ WindowOK' /\ ManagerOK' /\ Fresh'
  <2>1. pc[w] = from /\ pc' = [pc EXCEPT ![w] = to]
    BY <1>2 DEF Go
  <2>2. ProcessOK'
    BY <1>2, <2>1 DEF ProcessOK, Running
  <2>3. ManagerOK'
    BY <1>2, <2>1 DEF manager, ProcessOK, ManagerOK
  <2>4. Fresh'
    BY <1>2, <2>1 DEF manager, ProcessOK, Fresh, Saving
  <2> QED
    BY <1>2, <2>2, <2>3, <2>4, TypesStay
<1>3. CASE RemoveFile(w)
  <2>1. FilesOK'
    BY <1>3, BecomesType DEF RemoveFile, Readable
  <2> QED
    BY <1>2, <1>3, <2>1, TypesStay DEF RemoveFile
<1>4. CASE OpenFile(w)
  <2>1. FilesOK'
    BY <1>4, BecomesType DEF OpenFile, Readable
  <2> QED
    BY <1>2, <1>4, <2>1, TypesStay DEF OpenFile
<1>5. CASE OpenFails(w)
  BY <1>1, <1>5, SavedTyped, TypesStay DEF OpenFails
<1>6. CASE WriteFile(w)
  <2>1. FilesOK'
    BY <1>6, BecomesType DEF WriteFile, Readable
  <2> QED
    BY <1>6, <2>1, SavedTyped, TypesStay DEF WriteFile
<1>7. CASE WriteFails(w)
  <2>1. PICK is \in {"empty", "torn"} : Becomes(w, is)
    BY <1>7 DEF WriteFails
  <2>2. is \in Readable
    BY DEF Readable
  <2>3. FilesOK'
    BY <2>1, <2>2, BecomesType
  <2> QED
    BY <1>1, <1>7, <2>3, SavedTyped, TypesStay DEF WriteFails
<1> QED
  BY <1>3, <1>4, <1>5, <1>6, <1>7

\* The process ends, by itself or not.
LEMMA EndTyped ==
  ASSUME Typed, NEW w \in Windows, ExitUnselected(w) \/ Kill(w) \/ ReloadOutOfRange(w)
  PROVE  Typed'
<1> USE DEF Typed, TypeOK
<1>1. CASE ExitUnselected(w)
  BY <1>1, GoneType, TypesStay DEF ExitUnselected
<1>2. CASE ReloadOutOfRange(w)
  BY <1>2, GoneType, TypesStay DEF ReloadOutOfRange
<1>3. CASE Kill(w)
  <2>1. ProcessOK' /\ WindowOK' /\ ManagerOK' /\ Fresh'
    BY <1>3, GoneType DEF Kill
  <2>2. HistoryOK'
    BY <1>3 DEF Kill, Harmed, HistoryOK
  <2>3. "torn" \in Readable
    BY DEF Readable
  <2>4. FilesOK'
    BY <1>3, <2>3, BecomesType, TypesStay DEF Kill
  <2> QED
    BY <2>1, <2>2, <2>4
<1> QED
  BY <1>1, <1>2, <1>3

\* The manager reads what was saved.
LEMMA ReloadTyped ==
  ASSUME Typed, NEW w \in Windows, Reload(w)
  PROVE  Typed'
<1> USE DEF Typed, TypeOK
<1> DEFINE s == GetProfiles(w)  index == Returns(w)
<1>1. s \in Seq(Profile)
  BY GetProfilesType
<1>2. /\ pc' = [pc EXCEPT ![w] = "idle"] /\ after' = [after EXCEPT ![w] = "none"]
      /\ Decrypted(w, profilesFile) /\ lastProfileIndex' = lastProfileIndex
  BY DEF Reload, Go
<1>3. ProcessOK'
  BY <1>2 DEF Decrypted, ProcessOK, Running
<1>4. list' = [list EXCEPT ![w] = s] /\ shown' = shown
  BY DEF Reload
<1>5. index = -1 \/ InRange(s, index)
  BY DEF Reload
<1>6. index = -1 => UNCHANGED selected /\ NoProfile(w)
  BY DEF Reload
<1>7. index # -1 => LoadProfile(w, s, index)
  BY DEF Reload
<1> HIDE DEF s, index
<1>8. CASE index = -1
  <2>1. /\ selected' = selected /\ edit' = [edit EXCEPT ![w] = FALSE]
        /\ free' = [free EXCEPT ![w] = FALSE]
    BY <1>6, <1>8 DEF NoProfile
  <2>2. ManagerOK'
    BY <1>1, <1>2, <1>4, <2>1 DEF ProcessOK, ManagerOK
  <2>3. Fresh'
    BY <1>2, <2>1 DEF ProcessOK, ManagerOK, Fresh, Saving
  <2> QED
    BY <1>3, <2>2, <2>3, TypesStay DEF Reload
<1>9. CASE index # -1
  <2>1. /\ selected' = [selected EXCEPT ![w] = index] /\ edit' = [edit EXCEPT ![w] = TRUE]
        /\ free' = [free EXCEPT ![w] = s[index + 1].default \/ ~HasDefault(s)]
    BY <1>7, <1>9 DEF LoadProfile
  <2>2. (s[index + 1].default \/ ~HasDefault(s)) \in BOOLEAN
    OBVIOUS
  <2>3. free' \in [Windows -> BOOLEAN]
    BY <2>1, <2>2 DEF ManagerOK
  <2>4. index \in Int /\ InRange(s, index)
    BY <1>1, <1>5, <1>9 DEF InRange
  <2>5. ManagerOK'
    BY <1>1, <1>2, <1>4, <2>1, <2>3, <2>4 DEF ProcessOK, ManagerOK
  <2>6. Fresh'
    BY <1>2, <2>1 DEF ProcessOK, ManagerOK, Fresh, Saving
  <2> QED
    BY <1>3, <2>5, <2>6, TypesStay DEF Reload
<1> QED
  BY <1>8, <1>9

LEMMA TypedStep == Typed /\ [Next]_vars => Typed'
<1> SUFFICES ASSUME Typed, [Next]_vars PROVE Typed'
  OBVIOUS
<1>1. CASE UNCHANGED vars
  <2>1. Fresh'
    BY <1>1 DEF Typed, vars, process, manager, Fresh, Saving
  <2> QED
    BY <1>1, <2>1, TypesStay DEF Typed, TypeOK, vars, process
<1>2. CASE Next
  <2>1. PICK w \in Windows : User(w) \/ Handler(w) \/ Kill(w)
    BY <1>2 DEF Next
  <2>2. CASE User(w)
    BY <2>2, StartTyped, ComboTyped, ViewTyped, SaveTyped, EndTyped DEF User
  <2>3. CASE Handler(w)
    BY <2>3, StartTyped, FileTyped, ReloadTyped, EndTyped DEF Handler
  <2>4. CASE Kill(w)
    BY <2>4, EndTyped
  <2> QED
    BY <2>1, <2>2, <2>3, <2>4
<1> QED
  BY <1>1, <1>2

LEMMA AlwaysTyped == Spec => []Typed
<1>1. Init => Typed
  BY TypedInit
<1>2. Typed /\ [Next]_vars => Typed'
  BY TypedStep
<1> QED
  BY <1>1, <1>2, PTL DEF Spec

\* In particular the manager only ever edits a profile that is in its list,
\* however often the list is read again from a file others write.
THEOREM TypeCorrect == Spec => []TypeOK
<1>1. Typed => TypeOK
  BY DEF Typed
<1> QED
  BY <1>1, AlwaysTyped, PTL
-----------------------------------------------------------------------------
(* The fields of the main window                                           *)

\* What happens to a main window: nothing, the profiles are read, one is
\* picked, the fields are edited, or the window is gone.
LEMMA WindowMoves ==
  ASSUME Next
  PROVE  \/ UNCHANGED window
         \/ \E w \in Windows : \/ LoadStoredProfiles(w)
                               \/ \E index \in 0 .. Len(combo[w]) : Pick(w, index)
                               \/ EditFields(w)
                               \/ Gone(w, "closed") \/ Gone(w, "dead")
<1>1. PICK w \in Windows : User(w) \/ Handler(w) \/ Kill(w)
  BY DEF Next
<1>2. CASE User(w)
  <2>1. CASE UNCHANGED window
    BY <2>1
  <2>2. CASE ~UNCHANGED window
    BY <1>2, <2>2 DEF User, Start, Exit, ExitUnselected, Press, ViewProfileManager, CloseManager,
                      ChooseItem, AddNewProfile, DeleteProfile, SaveProfile
  <2> QED
    BY <2>1, <2>2
<1>3. CASE Handler(w)
  BY <1>3 DEF Handler, GetSettings, Open, RemoveFile, OpenFile, OpenFails, WriteFile, WriteFails,
              Saved, Reload, ReloadOutOfRange
<1>4. CASE Kill(w)
  BY <1>4 DEF Kill
<1> QED
  BY <1>1, <1>2, <1>3, <1>4

\* FieldsFollow for a process that is not idle too.
Follow ==
  \A w \in Windows : current[w] # -1 => fields[w] \in {Entry(combo[w], current[w]), Edited}

LEMMA FollowStep == Typed /\ Follow /\ [Next]_vars => Follow'
<1> SUFFICES ASSUME Typed, Follow, [Next]_vars PROVE Follow'
  OBVIOUS
<1> USE DEF Typed, TypeOK
<1>1. CASE UNCHANGED window
  BY <1>1 DEF Follow, window, Entry, InRange
<1>2. ASSUME NEW w \in Windows, LoadStoredProfiles(w) PROVE Follow'
  <2> DEFINE s == GetProfiles(w)  index == Selected(s, lastProfileIndex[w])
  <2>1. /\ combo' = [combo EXCEPT ![w] = s] /\ current' = [current EXCEPT ![w] = index]
        /\ fields' = [fields EXCEPT ![w] = Entry(s, IF index = -1 THEN 0 ELSE index)]
    BY <1>2 DEF LoadStoredProfiles
  <2> HIDE DEF s, index
  <2> QED
    BY <2>1 DEF WindowOK, Follow, Entry, InRange
<1>3. ASSUME NEW w \in Windows, NEW index \in 0 .. Len(combo[w]), Pick(w, index) PROVE Follow'
  BY <1>3 DEF Pick, WindowOK, Follow, Entry, InRange
<1>a. ASSUME NEW w \in Windows, EditFields(w) PROVE Follow'
  BY <1>a DEF EditFields, WindowOK, Follow, Entry, InRange
<1>4. ASSUME NEW w \in Windows, NEW how \in {"closed", "dead"}, Gone(w, how) PROVE Follow'
  BY <1>4 DEF Gone, WindowOK, Follow, Entry, InRange
<1>5. CASE UNCHANGED vars
  BY <1>1, <1>5 DEF vars
<1>6. CASE Next
  <2>1. CASE UNCHANGED window
    BY <1>1, <2>1
  <2>2. CASE ~UNCHANGED window
    <3>1. PICK w \in Windows : \/ LoadStoredProfiles(w)
                               \/ \E index \in 0 .. Len(combo[w]) : Pick(w, index)
                               \/ EditFields(w)
                               \/ Gone(w, "closed") \/ Gone(w, "dead")
      BY <1>6, <2>2, WindowMoves
    <3> QED
      BY <1>2, <1>3, <1>a, <1>4, <3>1
  <2> QED
    BY <2>1, <2>2
<1> QED
  BY <1>5, <1>6

\* The fields show the profile that is selected or what was typed after that,
\* in every window, whatever becomes of the list.
THEOREM FieldsAlwaysFollow == Spec => []FieldsFollow
<1>1. Init => Follow
  BY DEF Init, Follow
<1>2. Typed /\ Follow /\ [Next]_vars => Follow'
  BY FollowStep
<1>3. Follow => FieldsFollow
  BY DEF Follow, FieldsFollow
<1> QED
  BY <1>1, <1>2, <1>3, AlwaysTyped, PTL DEF Spec

-----------------------------------------------------------------------------
(* The default                                                             *)

LEMMA KeepsOne ==
  ASSUME NEW s \in Seq(Profile), AtMostOne(s)
  PROVE  /\ AtMostOne(<< >>)
         /\ \A id \in Ids : AtMostOne(Append(s, [id |-> id, default |-> FALSE]))
         /\ \A i \in 1 .. Len(s) : AtMostOne(RemoveAt(s, i))
<1>1. AtMostOne(<< >>)
  BY DEF AtMostOne
<1>2. ASSUME NEW id \in Ids PROVE AtMostOne(Append(s, [id |-> id, default |-> FALSE]))
  <2> DEFINE p == [id |-> id, default |-> FALSE]
  <2>1. p \in Profile /\ p.default = FALSE
    BY DEF Profile
  <2> HIDE DEF p
  <2>2. /\ DOMAIN Append(s, p) = 1 .. Len(s) + 1
        /\ \A n \in 1 .. Len(s) : Append(s, p)[n] = s[n]
        /\ Append(s, p)[Len(s) + 1] = p
    BY <2>1
  <2>3. \A n \in 1 .. Len(s) + 1 : n \in 1 .. Len(s) \/ n = Len(s) + 1
    OBVIOUS
  <2>4. AtMostOne(Append(s, p))
    BY <2>1, <2>2, <2>3 DEF AtMostOne
  <2> QED
    BY <2>4 DEF p
<1>3. ASSUME NEW i \in 1 .. Len(s) PROVE AtMostOne(RemoveAt(s, i))
  <2> DEFINE r == RemoveAt(s, i)
  <2>1. /\ r \in Seq(Profile) /\ Len(r) = Len(s) - 1
        /\ \A n \in 1 .. Len(s) - 1 : r[n] = IF n < i THEN s[n] ELSE s[n + 1]
    BY Removed
  <2> HIDE DEF r
  <2>2. ASSUME NEW m \in DOMAIN r, NEW n \in DOMAIN r, r[m].default, r[n].default PROVE m = n
    <3> DEFINE at(k) == IF k < i THEN k ELSE k + 1
    <3>1. m \in 1 .. Len(s) - 1 /\ n \in 1 .. Len(s) - 1
      BY <2>1
    <3>2. at(m) \in DOMAIN s /\ at(n) \in DOMAIN s
      BY <3>1
    <3>3. r[m] = s[at(m)] /\ r[n] = s[at(n)]
      BY <2>1, <3>1
    <3>4. at(m) = at(n)
      <4> HIDE DEF at
      <4> QED
        BY <2>2, <3>2, <3>3 DEF AtMostOne
    <3> QED
      BY <3>1, <3>4
  <2>3. AtMostOne(r)
    BY <2>2 DEF AtMostOne
  <2> QED
    BY <2>3 DEF r
<1> QED
  BY <1>1, <1>2, <1>3

\* An enabled default box belongs to the only profile that may be the default.
Free(s, index) == \A n \in DOMAIN s : s[n].default => n = index + 1
FreeMeans == \A w \in Windows : pc[w] = "idle" /\ edit[w] /\ free[w] => Free(list[w], selected[w])
Defaults == OneDefault /\ FreeMeans

LEMMA BoxKeepsOne ==
  ASSUME NEW s \in Seq(Profile), AtMostOne(s), NEW index \in Int, InRange(s, index),
         NEW box \in BOOLEAN, Free(s, index) \/ box = s[index + 1].default
  PROVE  AtMostOne([s EXCEPT ![index + 1].default = box])
<1> DEFINE r == [s EXCEPT ![index + 1].default = box]
<1>1. index + 1 \in 1 .. Len(s)
  BY DEF InRange
<1>2. /\ r \in Seq(Profile) /\ Len(r) = Len(s)
      /\ \A n \in 1 .. Len(s) : r[n].default = IF n = index + 1 THEN box ELSE s[n].default
  BY <1>1, Boxed
<1> HIDE DEF r
<1>3. DOMAIN r = 1 .. Len(s) /\ DOMAIN s = 1 .. Len(s)
  BY <1>2
<1>4. AtMostOne(r)
  <2>1. CASE Free(s, index)
    BY <1>2, <1>3, <2>1 DEF Free, AtMostOne
  <2>2. CASE box = s[index + 1].default
    <3>1. \A n \in 1 .. Len(s) : r[n].default = s[n].default
      BY <1>2, <2>2
    <3> QED
      BY <1>3, <3>1 DEF AtMostOne
  <2> QED
    BY <2>1, <2>2
<1> QED
  BY <1>4 DEF r

\* LoadProfile enables the box only where that is so.
LEMMA LoadFree ==
  ASSUME NEW s \in Seq(Profile), AtMostOne(s), NEW index \in Int, InRange(s, index),
         s[index + 1].default \/ ~HasDefault(s)
  PROVE  Free(s, index)
<1>1. index + 1 \in DOMAIN s
  BY DEF InRange
<1> QED
  BY <1>1 DEF AtMostOne, HasDefault, Free

\* What is read from the file has one default, if the file has.
LEMMA ReadsOne == OneDefault => \A w \in Windows : AtMostOne(GetProfiles(w))
BY DEF OneDefault, GetProfiles, AtMostOne

\* A step of w that leaves the other windows alone has to look at w only.
Others(w) ==
  \A v \in Windows \ {w} :
    /\ list'[v] = list[v] /\ combo'[v] = combo[v] /\ pc'[v] = pc[v]
    /\ edit'[v] = edit[v] /\ free'[v] = free[v] /\ selected'[v] = selected[v]

LEMMA DefaultsFrom ==
  ASSUME Defaults, NEW w \in Windows, Others(w),
         AtMostOne(profilesFile'.list), AtMostOne(list'[w]), AtMostOne(combo'[w]),
         pc'[w] = "idle" /\ edit'[w] /\ free'[w] => Free(list'[w], selected'[w])
  PROVE  Defaults'
<1>1. OneDefault'
  BY DEF Defaults, OneDefault, Others, AtMostOne
<1>2. FreeMeans'
  BY DEF Defaults, FreeMeans, Others, Free
<1> QED
  BY <1>1, <1>2 DEF Defaults

\* A file that is written has the list of the window, or none.
LEMMA BecomesOne ==
  ASSUME Typed, Defaults, NEW w \in Windows, NEW is \in Readable, Becomes(w, is)
  PROVE  AtMostOne(profilesFile'.list)
<1>1. AtMostOne(profilesFile.list) /\ AtMostOne(list[w]) /\ AtMostOne(<< >>)
  BY DEF Defaults, OneDefault, AtMostOne
<1>2. CASE SavesSettings(w)
  BY <1>1, <1>2 DEF Becomes
<1>3. CASE ~SavesSettings(w)
  <2>1. profilesFile'.list = IF is = "whole" THEN list[w] ELSE << >>
    BY <1>3 DEF Becomes
  <2> QED
    BY <1>1, <2>1
<1> QED
  BY <1>2, <1>3

LEMMA GoneOne ==
  ASSUME Typed, Defaults, NEW w \in Windows, NEW how \in {"closed", "dead"}, Gone(w, how),
         AtMostOne(profilesFile'.list)
  PROVE  Defaults'
<1>1. Others(w) /\ list'[w] = << >> /\ combo'[w] = << >> /\ ~edit'[w]
  BY DEF Gone, Typed, TypeOK, ProcessOK, WindowOK, ManagerOK, Others
<1>2. AtMostOne(list'[w]) /\ AtMostOne(combo'[w])
  BY <1>1 DEF AtMostOne
<1> QED
  BY <1>1, <1>2, DefaultsFrom

\* While the window is not idle its default box does not matter.
LEMMA BusyOne ==
  ASSUME Typed, Defaults, NEW w \in Windows, NEW to \in Running \ {"idle"},
         pc' = [pc EXCEPT ![w] = to], UNCHANGED window, UNCHANGED manager,
         AtMostOne(profilesFile'.list)
  PROVE  Defaults'
<1>1. Others(w) /\ pc'[w] # "idle" /\ list'[w] = list[w] /\ combo'[w] = combo[w]
  BY DEF window, manager, Typed, TypeOK, ProcessOK, Others
<1>2. AtMostOne(list'[w]) /\ AtMostOne(combo'[w])
  BY <1>1 DEF Defaults, OneDefault, AtMostOne
<1> QED
  BY <1>1, <1>2, DefaultsFrom

\* The window and its combo box.
LEMMA WindowOne ==
  ASSUME Typed, Defaults, NEW w \in Windows,
         \/ Start(w) \/ GetSettings(w) \/ Open(w) \/ Exit(w) \/ ExitUnselected(w)
         \/ Press(w) \/ (\E index \in 0 .. Len(combo[w]) : Pick(w, index)) \/ EditFields(w)
  PROVE  Defaults'
<1>0. AtMostOne(profilesFile.list)
  BY DEF Defaults, OneDefault
<1>1. CASE Start(w)
  <2>1. PICK to \in {"settings", "remove"} : pc' = [pc EXCEPT ![w] = to]
    BY <1>1 DEF Start
  <2>2. to \in Running \ {"idle"}
    BY DEF Running
  <2> QED
    BY <1>0, <1>1, <2>1, <2>2, BusyOne DEF Start, files
<1>2. CASE GetSettings(w)
  BY <1>0, <1>2, BusyOne DEF GetSettings, Go, files, Running
<1>3. CASE Exit(w)
  BY <1>0, <1>3, BusyOne DEF Exit, Save, Go, files, Running
<1>4. CASE ExitUnselected(w)
  BY <1>0, <1>4, GoneOne DEF ExitUnselected, files
<1>5. CASE Open(w) \/ Press(w)
  <2>1. /\ pc' = [pc EXCEPT ![w] = "idle"] /\ combo' = [combo EXCEPT ![w] = GetProfiles(w)]
        /\ UNCHANGED manager /\ UNCHANGED files /\ (pc[w] = "profiles" \/ pc[w] = "idle")
    BY <1>5 DEF Open, Press, Go, LoadStoredProfiles
  <2>2. Others(w) /\ list'[w] = list[w] /\ combo'[w] = GetProfiles(w)
    BY <2>1 DEF manager, Typed, TypeOK, ProcessOK, WindowOK, Others
  <2>3. AtMostOne(list'[w]) /\ AtMostOne(combo'[w])
    BY <2>2, ReadsOne DEF Defaults, OneDefault, AtMostOne
  <2>4. edit'[w] /\ free'[w] => Free(list'[w], selected'[w])
    <3>1. edit'[w] = edit[w] /\ free'[w] = free[w] /\ selected'[w] = selected[w]
      BY <2>1 DEF manager
    <3>2. edit[w] => pc[w] = "idle"
      BY <2>1 DEF Typed, Fresh
    <3> QED
      BY <2>2, <3>1, <3>2 DEF Defaults, FreeMeans
  <2>5. AtMostOne(profilesFile'.list)
    BY <1>0, <2>1 DEF files
  <2> QED
    BY <2>2, <2>3, <2>4, <2>5, DefaultsFrom
<1>6. ASSUME NEW index \in 0 .. Len(combo[w]), Pick(w, index) PROVE Defaults'
  <2>1. pc' = pc /\ UNCHANGED manager /\ UNCHANGED files /\ combo' = combo
    BY <1>6 DEF Pick, Go, Typed, TypeOK, ProcessOK
  <2> QED
    BY <2>1 DEF manager, files, Defaults, OneDefault, FreeMeans, AtMostOne, Free
<1>7. CASE EditFields(w)
  <2>1. pc' = pc /\ UNCHANGED manager /\ UNCHANGED files /\ combo' = combo
    BY <1>7 DEF EditFields, Go, Typed, TypeOK, ProcessOK
  <2> QED
    BY <2>1 DEF manager, files, Defaults, OneDefault, FreeMeans, AtMostOne, Free
<1> QED
  BY <1>1, <1>2, <1>3, <1>4, <1>5, <1>6, <1>7

\* A list shown in the manager.
LEMMA LoadedOne ==
  ASSUME Typed, Defaults, NEW w \in Windows, NEW s \in Seq(Profile), AtMostOne(s),
         NEW index \in Int, InRange(s, index), LoadProfile(w, s, index),
         list' = [list EXCEPT ![w] = s], pc' = [pc EXCEPT ![w] = "idle"],
         UNCHANGED combo, UNCHANGED files
  PROVE  Defaults'
<1>1. /\ Others(w) /\ list'[w] = s /\ combo'[w] = combo[w] /\ selected'[w] = index
      /\ free'[w] = (s[index + 1].default \/ ~HasDefault(s))
  BY DEF LoadProfile, Typed, TypeOK, ProcessOK, ManagerOK, Others
<1>2. AtMostOne(profilesFile'.list) /\ AtMostOne(list'[w]) /\ AtMostOne(combo'[w])
  BY <1>1 DEF files, Defaults, OneDefault, AtMostOne
<1>3. free'[w] => Free(list'[w], selected'[w])
  BY <1>1, LoadFree
<1> QED
  BY <1>1, <1>2, <1>3, DefaultsFrom

\* A manager that shows no profile.
LEMMA NoneOne ==
  ASSUME Typed, Defaults, NEW w \in Windows, NEW s, AtMostOne(s), NoProfile(w),
         NEW index \in Int, selected' = [selected EXCEPT ![w] = index],
         list' = [list EXCEPT ![w] = s], pc' = [pc EXCEPT ![w] = "idle"],
         UNCHANGED combo, UNCHANGED files
  PROVE  Defaults'
<1>1. Others(w) /\ list'[w] = s /\ combo'[w] = combo[w] /\ ~edit'[w]
  BY DEF NoProfile, Typed, TypeOK, ProcessOK, ManagerOK, Others
<1>2. AtMostOne(profilesFile'.list) /\ AtMostOne(list'[w]) /\ AtMostOne(combo'[w])
  BY <1>1 DEF files, Defaults, OneDefault, AtMostOne
<1> QED
  BY <1>1, <1>2, DefaultsFrom

LEMMA ManagerOne ==
  ASSUME Typed, Defaults, NEW w \in Windows,
         \/ ViewProfileManager(w) \/ CloseManager(w) \/ Reload(w)
         \/ (\E index \in 0 .. Len(list[w]) : ChooseItem(w, index))
  PROVE  Defaults'
<1>0. /\ GetProfiles(w) \in Seq(Profile) /\ AtMostOne(GetProfiles(w))
      /\ 0 \in Int /\ -1 \in Int
  BY GetProfilesType, ReadsOne DEF Defaults, Typed, TypeOK
<1>1. CASE ViewProfileManager(w)
  <2>1. /\ pc' = [pc EXCEPT ![w] = "idle"] /\ UNCHANGED combo /\ UNCHANGED files
        /\ list' = [list EXCEPT ![w] = GetProfiles(w)]
    BY <1>1 DEF ViewProfileManager, Go, window
  <2>2. CASE GetProfiles(w) # << >>
    <3>1. InRange(GetProfiles(w), 0)
      BY <1>0, <2>2 DEF InRange
    <3>2. LoadProfile(w, GetProfiles(w), 0)
      BY <1>1, <2>2 DEF ViewProfileManager
    <3> QED
      BY <1>0, <2>1, <3>1, <3>2, LoadedOne
  <2>3. CASE GetProfiles(w) = << >>
    <3>1. selected' = [selected EXCEPT ![w] = -1] /\ NoProfile(w)
      BY <1>1, <2>3 DEF ViewProfileManager
    <3> QED
      BY <1>0, <2>1, <3>1, NoneOne
  <2> QED
    BY <2>2, <2>3
<1>2. CASE CloseManager(w)
  <2>1. AtMostOne(<< >>)
    BY DEF AtMostOne
  <2>2. /\ pc' = [pc EXCEPT ![w] = "idle"] /\ UNCHANGED combo /\ UNCHANGED files
        /\ selected' = [selected EXCEPT ![w] = -1] /\ NoProfile(w)
        /\ list' = [list EXCEPT ![w] = << >>]
    BY <1>2 DEF CloseManager, Go, window
  <2> QED
    BY <1>0, <2>1, <2>2, NoneOne
<1>3. CASE Reload(w)
  <2>1. /\ pc' = [pc EXCEPT ![w] = "idle"] /\ UNCHANGED combo /\ UNCHANGED files
        /\ list' = [list EXCEPT ![w] = GetProfiles(w)]
    BY <1>3 DEF Reload, Go, window
  <2>2. CASE Returns(w) = -1
    <3>1. selected' = selected /\ NoProfile(w)
      BY <1>3, <2>2 DEF Reload
    <3>2. selected' = [selected EXCEPT ![w] = selected[w]] /\ selected[w] \in Int
      BY <3>1 DEF Typed, TypeOK, ManagerOK
    <3> QED
      BY <1>0, <2>1, <3>1, <3>2, NoneOne
  <2>3. CASE Returns(w) # -1
    <3>1. InRange(GetProfiles(w), Returns(w)) /\ LoadProfile(w, GetProfiles(w), Returns(w))
      BY <1>3, <2>3 DEF Reload
    <3>2. Returns(w) \in Int
      BY <1>0, <3>1 DEF InRange
    <3> QED
      BY <1>0, <2>1, <3>1, <3>2, LoadedOne
  <2> QED
    BY <2>2, <2>3
<1>4. ASSUME NEW index \in 0 .. Len(list[w]), ChooseItem(w, index) PROVE Defaults'
  <2>1. /\ pc' = [pc EXCEPT ![w] = "idle"] /\ UNCHANGED combo /\ UNCHANGED files
        /\ list' = [list EXCEPT ![w] = list[w]] /\ list[w] \in Seq(Profile)
    BY <1>4 DEF ChooseItem, Go, window, Typed, TypeOK, ManagerOK
  <2>2. InRange(list[w], index) /\ LoadProfile(w, list[w], index) /\ index \in Int
    BY <1>4, <2>1 DEF ChooseItem
  <2>3. AtMostOne(list[w])
    BY DEF Defaults, OneDefault
  <2> QED
    BY <2>1, <2>2, <2>3, LoadedOne
<1> QED
  BY <1>1, <1>2, <1>3, <1>4

\* The list is edited, before it is saved.
LEMMA EditOne ==
  ASSUME Typed, Defaults, NEW w \in Windows,
         \/ (\E id \in Ids : AddNewProfile(w, id))
         \/ DeleteProfile(w) \/ SaveProfile(w)
  PROVE  Defaults'
<1>0. list[w] \in Seq(Profile) /\ AtMostOne(list[w])
  BY DEF Defaults, OneDefault, Typed, TypeOK, ManagerOK
<1>1. ASSUME NEW s, AtMostOne(s), list' = [list EXCEPT ![w] = s],
             pc' = [pc EXCEPT ![w] = "remove"],
             UNCHANGED <<files, window, selected, edit, free>>
      PROVE  Defaults'
  <2>1. Others(w) /\ list'[w] = s /\ combo'[w] = combo[w] /\ pc'[w] # "idle"
    BY <1>1 DEF window, Typed, TypeOK, ProcessOK, ManagerOK, Others
  <2>2. AtMostOne(profilesFile'.list) /\ AtMostOne(list'[w]) /\ AtMostOne(combo'[w])
    BY <1>1, <2>1 DEF files, Defaults, OneDefault, AtMostOne
  <2> QED
    BY <2>1, <2>2, DefaultsFrom
<1>2. ASSUME NEW id \in Ids, AddNewProfile(w, id) PROVE Defaults'
  BY <1>0, <1>1, <1>2, KeepsOne DEF AddNewProfile, Save, Go
<1>3. pc[w] = "idle" /\ edit[w] => InRange(list[w], selected[w]) /\ selected[w] \in Int
  BY DEF Typed, TypeOK, ManagerOK
<1>4. CASE DeleteProfile(w)
  <2>1. selected[w] + 1 \in 1 .. Len(list[w])
    BY <1>0, <1>3, <1>4 DEF DeleteProfile, Save, Go, InRange
  <2>2. AtMostOne(RemoveAt(list[w], selected[w] + 1))
    BY <1>0, <2>1, KeepsOne
  <2> QED
    BY <1>1, <1>4, <2>2 DEF DeleteProfile, Save, Go
<1>5. CASE SaveProfile(w)
  <2>1. PICK box \in BOOLEAN :
          /\ free[w] \/ box = list[w][selected[w] + 1].default
          /\ list' = [list EXCEPT ![w][selected[w] + 1].default = box]
    BY <1>5 DEF SaveProfile
  <2>2. Free(list[w], selected[w]) \/ box = list[w][selected[w] + 1].default
    BY <1>5, <2>1 DEF SaveProfile, Save, Go, Defaults, FreeMeans
  <2>3. AtMostOne([list[w] EXCEPT ![selected[w] + 1].default = box])
    BY <1>0, <1>3, <1>5, <2>2, BoxKeepsOne DEF SaveProfile, Save, Go
  <2>4. list' = [list EXCEPT ![w] = [list[w] EXCEPT ![selected[w] + 1].default = box]]
    BY <2>1
  <2> QED
    BY <1>1, <1>5, <2>3, <2>4 DEF SaveProfile, Save, Go
<1> QED
  BY <1>2, <1>4, <1>5

\* A save, and the end of a process.
LEMMA FileOne ==
  ASSUME Typed, Defaults, NEW w \in Windows,
         \/ RemoveFile(w) \/ OpenFile(w) \/ OpenFails(w) \/ WriteFile(w) \/ WriteFails(w)
         \/ Kill(w) \/ ReloadOutOfRange(w)
  PROVE  Defaults'
<1>0. AtMostOne(profilesFile.list)
  BY DEF Defaults, OneDefault
<1>1. ASSUME NEW from \in {"open", "write"}, Saved(w, from), AtMostOne(profilesFile'.list)
      PROVE  Defaults'
  <2>1. CASE after[w] = "exit"
    BY <1>1, <2>1, GoneOne DEF Saved
  <2>2. CASE after[w] # "exit"
    <3>1. pc' = [pc EXCEPT ![w] = Resume(w)] /\ UNCHANGED window /\ UNCHANGED manager
      BY <1>1, <2>2 DEF Saved, Go
    <3>2. Resume(w) \in Running \ {"idle"}
      <4>1. CASE after[w] = "start"
        BY <4>1 DEF Resume, Running
      <4>2. CASE after[w] # "start"
        BY <2>2, <4>2 DEF Resume, Running
      <4> QED
        BY <4>1, <4>2
    <3> QED
      BY <1>1, <3>1, <3>2, BusyOne
  <2> QED
    BY <2>1, <2>2
<1>2. CASE RemoveFile(w) \/ OpenFile(w)
  <2>1. PICK to \in {"open", "write"} :
          pc' = [pc EXCEPT ![w] = to] /\ UNCHANGED window /\ UNCHANGED manager
    BY <1>2 DEF RemoveFile, OpenFile, Go
  <2>2. to \in Running \ {"idle"}
    BY DEF Running
  <2>3. AtMostOne(profilesFile'.list)
    BY <1>2, BecomesOne DEF RemoveFile, OpenFile, Readable
  <2> QED
    BY <2>1, <2>2, <2>3, BusyOne
<1>3. CASE OpenFails(w)
  BY <1>0, <1>1, <1>3 DEF OpenFails, files
<1>4. CASE WriteFile(w)
  <2>1. AtMostOne(profilesFile'.list)
    BY <1>4, BecomesOne DEF WriteFile, Readable
  <2> QED
    BY <1>1, <1>4, <2>1 DEF WriteFile
<1>5. CASE WriteFails(w)
  <2>1. AtMostOne(profilesFile'.list)
    BY <1>5, BecomesOne DEF WriteFails, Readable
  <2> QED
    BY <1>1, <1>5, <2>1 DEF WriteFails
<1>6. CASE Kill(w)
  <2>1. UNCHANGED files \/ Becomes(w, "torn")
    BY <1>6 DEF Kill
  <2>2. AtMostOne(profilesFile'.list)
    BY <1>0, <2>1, BecomesOne DEF files, Readable
  <2> QED
    BY <1>6, <2>2, GoneOne DEF Kill
<1>7. CASE ReloadOutOfRange(w)
  BY <1>0, <1>7, GoneOne DEF ReloadOutOfRange, files
<1> QED
  BY <1>2, <1>3, <1>4, <1>5, <1>6, <1>7

LEMMA DefaultsStep == Typed /\ Defaults /\ [Next]_vars => Defaults'
<1> SUFFICES ASSUME Typed, Defaults, [Next]_vars PROVE Defaults'
  OBVIOUS
<1>1. CASE UNCHANGED vars
  BY <1>1 DEF vars, files, process, window, manager, Defaults, OneDefault, FreeMeans, AtMostOne, Free
<1>2. CASE Next
  <2>1. PICK w \in Windows : User(w) \/ Handler(w) \/ Kill(w)
    BY <1>2 DEF Next
  <2>2. CASE User(w)
    BY <2>2, WindowOne, ManagerOne, EditOne DEF User
  <2>3. CASE Handler(w)
    BY <2>3, WindowOne, ManagerOne, FileOne DEF Handler
  <2>4. CASE Kill(w)
    BY <2>4, FileOne
  <2> QED
    BY <2>1, <2>2, <2>3, <2>4
<1> QED
  BY <1>1, <1>2

\* Never two defaults: each window enables the default box by its own list, and
\* files are exchanged whole or not at all.
THEOREM NeverTwoDefaults == Spec => []OneDefault
<1>1. Init => Defaults
  BY DEF Init, Defaults, OneDefault, FreeMeans, AtMostOne
<1>2. Typed /\ Defaults /\ [Next]_vars => Defaults'
  BY DefaultsStep
<1>3. Defaults => OneDefault
  BY DEF Defaults
<1> QED
  BY <1>1, <1>2, <1>3, AlwaysTyped, PTL DEF Spec

-----------------------------------------------------------------------------
(* What the two files keep: the profiles that were made, and the selection *)
(* of the last window.  Both speak of windows that come one after the      *)
(* other and of saves that succeed (harm = {}), but nothing bounds the     *)
(* windows, the profiles or how often a process is killed between saves.   *)

\* A window that saves the list of its manager.
Edits(w) == Saving(w) /\ ~SavesSettings(w)

Names(s) == {s[n].id : n \in DOMAIN s}
Distinct(s) == \A m, n \in DOMAIN s : s[m].id = s[n].id => m = n

\* Whatever goes wrong: a handler goes on as what it began as, the main window
\* is never destroyed under its manager, and what is saved is what is selected.
Order(w) ==
  /\ Saving(w) => after[w] \in {"start", "exit", "add", "delete", "save"}
  /\ pc[w] = "reload" => after[w] \in {"add", "delete", "save"}
  /\ pc[w] \in {"settings", "profiles", "closed", "dead"} \/ (Saving(w) /\ SavesSettings(w))
     => ~shown[w]
  /\ Saving(w) /\ after[w] = "exit" => current[w] # -1 /\ lastProfileIndex[w] = current[w]
  /\ Saving(w) /\ after[w] = "start" => lastProfileIndex[w] = -1

\* The files at any time.
Filed ==
  /\ settingsFile.index # -1 =>
       /\ settingsFile.index \in 0 .. Len(settingsFile.among)
       /\ settingsFile.chosen = Entry(settingsFile.among, settingsFile.index)
  /\ profilesFile.is # "whole" => profilesFile.list = << >>

Always == Filed /\ \A w \in Windows : Order(w)

\* The index a handler goes back to is in the list it saves.
Back(w) ==
  IF after[w] = "delete" THEN selected[w] \in 0 .. Len(list[w])
  ELSE selected[w] = -1 \/ InRange(list[w], selected[w])

\* After a delete of the last profile the index stays 0.
Looks(w) ==
  /\ list[w] = profilesFile.list
  /\ selected[w] = -1 \/ InRange(list[w], selected[w]) \/ (selected[w] = 0 /\ list[w] = << >>)

\* What a window relies on that has the files to itself.
Local(w) ==
  /\ pc[w] # "dead"
  /\ pc[w] \in {"settings", "profiles"} =>
       settingsFile.is = "whole" /\ lastProfileIndex[w] = settingsFile.index
  /\ Alive(w) => ~invalidKey[w]
  /\ Edits(w) => Names(list[w]) = book /\ Distinct(list[w])
  /\ pc[w] = "reload" => list[w] = profilesFile.list
  /\ pc[w] = "idle" /\ shown[w] => Looks(w)
  /\ Edits(w) \/ pc[w] = "reload" => Back(w)

Clean == settingsFile.is # "torn" /\ profilesFile.is # "torn"
Complete == Names(profilesFile.list) = book /\ Distinct(profilesFile.list)

Safe ==
  harm = {} =>
    /\ Clean
    /\ \A v, w \in Windows : Alive(v) /\ Alive(w) => v = w
    /\ \A w \in Windows : Local(w)
    /\ (\A w \in Windows : ~Edits(w)) => Complete

\* The same, as one window sees it.
Sound(w) == Clean /\ Local(w) /\ (~Edits(w) => Complete)

-----------------------------------------------------------------------------
(* Steps of one window                                                     *)

Same(v) ==
  /\ pc'[v] = pc[v] /\ after'[v] = after[v] /\ invalidKey'[v] = invalidKey[v]
  /\ lastProfileIndex'[v] = lastProfileIndex[v]
  /\ combo'[v] = combo[v] /\ current'[v] = current[v]
  /\ shown'[v] = shown[v] /\ list'[v] = list[v] /\ selected'[v] = selected[v]

\* A window leaves the others alone.
LEMMA OthersSame ==
  ASSUME TypeOK, NEW w \in Windows, User(w) \/ Handler(w) \/ Kill(w),
         NEW v \in Windows \ {w}
  PROVE  Same(v)
<1> USE DEF Same, process, window, manager
<1>0. v # w
  OBVIOUS
<1>a. \A how : Gone(w, how) => Same(v)
  BY DEF Gone, TypeOK, ProcessOK, WindowOK, ManagerOK
<1>b. \A from : Saved(w, from) => Same(v)
  BY <1>a DEF Saved, Go, TypeOK, ProcessOK
<1>1. CASE Start(w) \/ GetSettings(w) \/ Open(w) \/ Press(w)
  BY <1>0, <1>1 DEF Start, GetSettings, Open, Press, LoadStoredProfiles, Decrypted, Go, TypeOK,
     ProcessOK, WindowOK
<1>2. CASE Exit(w) \/ ExitUnselected(w) \/ Kill(w) \/ ReloadOutOfRange(w)
  BY <1>0, <1>a, <1>2 DEF Exit, ExitUnselected, Kill, ReloadOutOfRange, Save, Go, TypeOK, ProcessOK
<1>3. CASE (\E index \in 0 .. Len(combo[w]) : Pick(w, index)) \/ EditFields(w) \/ CloseManager(w)
           \/ (\E index \in 0 .. Len(list[w]) : ChooseItem(w, index))
  BY <1>0, <1>3 DEF Pick, EditFields, CloseManager, ChooseItem, LoadProfile, NoProfile, Go, TypeOK, ProcessOK,
     WindowOK, ManagerOK
<1>4. CASE ViewProfileManager(w) \/ Reload(w)
  BY <1>0, <1>4 DEF ViewProfileManager, Reload, LoadProfile, NoProfile, Decrypted, Go, TypeOK,
     ProcessOK, ManagerOK
<1>5. CASE (\E id \in Ids : AddNewProfile(w, id)) \/ DeleteProfile(w) \/ SaveProfile(w)
  BY <1>0, <1>5 DEF AddNewProfile, DeleteProfile, SaveProfile, Save, Go, TypeOK, ProcessOK, ManagerOK
<1>6. CASE RemoveFile(w) \/ OpenFile(w) \/ OpenFails(w) \/ WriteFile(w) \/ WriteFails(w)
  BY <1>0, <1>b, <1>6 DEF RemoveFile, OpenFile, OpenFails, WriteFile, WriteFails, Go, TypeOK, ProcessOK
<1> QED
  BY <1>1, <1>2, <1>3, <1>4, <1>5, <1>6 DEF User, Handler

Alone(w) == \A v \in Windows \ {w} : ~Alive(v)

\* The window that takes a step, without harm, is alone.
LEMMA StepsAlone ==
  ASSUME TypeOK, Safe, NEW w \in Windows, User(w) \/ Handler(w) \/ Kill(w), harm' = {}
  PROVE  harm = {} /\ Alone(w) /\ Sound(w)
<1>1. harm = {}
  BY DEF User, Handler, Start, GetSettings, Open, Press, Exit, ExitUnselected, Kill,
     ReloadOutOfRange, Pick, EditFields, CloseManager, ChooseItem, ViewProfileManager, Reload, AddNewProfile,
     DeleteProfile, SaveProfile, RemoveFile, OpenFile, OpenFails, WriteFile, WriteFails, Harmed,
     history
<1>2. CASE Start(w)
  <2>1. Alone(w)
    BY <1>2 DEF Start, Alone
  <2>2. \A v \in Windows : ~Alive(v)
    BY <1>2, <2>1 DEF Start, Alone
  <2>3. \A v \in Windows : ~Edits(v)
    BY <2>2 DEF Edits, Saving, Alive, Running
  <2> QED
    BY <1>1, <2>1, <2>3 DEF Safe, Sound
<1>3. CASE ~Start(w)
  <2>1. Alive(w)
    BY <1>3 DEF User, Handler, GetSettings, Open, Press, Exit, ExitUnselected, Kill,
       ReloadOutOfRange, Pick, EditFields, CloseManager, ChooseItem, ViewProfileManager, Reload, AddNewProfile,
       DeleteProfile, SaveProfile, RemoveFile, OpenFile, OpenFails, WriteFile, WriteFails, Saved,
       Save, Go, Alive, Running
  <2>2. Alone(w)
    BY <1>1, <2>1 DEF Safe, Alone
  <2>3. \A v \in Windows \ {w} : ~Edits(v)
    BY <2>2 DEF Alone, Edits, Saving, Alive, Running
  <2> QED
    BY <1>1, <2>2, <2>3 DEF Safe, Sound
<1> QED
  BY <1>2, <1>3

\* It is enough to look at the window that took the step.
LEMMA SafeFrom ==
  ASSUME TypeOK, Safe, NEW w \in Windows, harm = {}, Alone(w), Sound(w)',
         \A v \in Windows \ {w} : Same(v)
  PROVE  Safe'
<1>1. ASSUME NEW v \in Windows \ {w}
      PROVE  ~Alive(v)' /\ pc'[v] # "dead"
  <2>1. ~Alive(v) /\ pc[v] # "dead" /\ pc'[v] = pc[v]
    BY DEF Alone, Safe, Local, Same
  <2> QED
    BY <2>1 DEF Alive
<1>2. ASSUME NEW v \in Windows \ {w}
      PROVE  Local(v)' /\ ~Edits(v)'
  BY <1>1 DEF Local, Edits, Saving, Alive, Running
<1>3. \A v \in Windows : Local(v)'
  BY <1>2 DEF Sound
<1>4. \A u, v \in Windows : Alive(u)' /\ Alive(v)' => u = v
  BY <1>1
<1> QED
  BY <1>3, <1>4 DEF Safe, Sound

-----------------------------------------------------------------------------
(* What holds whatever goes wrong                                          *)

LEMMA BecomesFiled ==
  ASSUME TypeOK, Filed, NEW w \in Windows, Order(w), Saving(w), NEW is \in Readable, Becomes(w, is)
  PROVE  Filed'
<1>1. CASE SavesSettings(w) /\ is = "whole"
  <2>1. /\ settingsFile'.index = lastProfileIndex[w] /\ settingsFile'.among = combo[w]
        /\ settingsFile'.chosen = Entry(combo[w], current[w]) /\ profilesFile' = profilesFile
    BY <1>1 DEF Becomes
  <2>2. CASE after[w] = "start"
    BY <2>1, <2>2 DEF Order, Filed
  <2>3. CASE after[w] = "exit"
    <3>1. lastProfileIndex[w] = current[w] /\ current[w] # -1
      BY <2>3 DEF Order
    <3>2. current[w] \in -1 .. Len(combo[w]) /\ Len(combo[w]) \in Nat
      BY DEF TypeOK, WindowOK
    <3>3. current[w] \in 0 .. Len(combo[w])
      BY <3>1, <3>2
    <3> QED
      BY <2>1, <3>1, <3>3 DEF Filed
  <2> QED
    BY <1>1, <2>2, <2>3 DEF SavesSettings
<1>2. CASE SavesSettings(w) /\ is # "whole"
  BY <1>2 DEF Becomes, Filed
<1>3. CASE ~SavesSettings(w)
  BY <1>3 DEF Becomes, Filed
<1> QED
  BY <1>1, <1>2, <1>3

LEMMA FiledNext ==
  ASSUME TypeOK, Always, NEW w \in Windows, User(w) \/ Handler(w) \/ Kill(w)
  PROVE  Filed'
<1>1. CASE UNCHANGED files
  BY <1>1 DEF Always, Filed, files
<1>2. ASSUME ~UNCHANGED files
      PROVE  Saving(w) /\ \E is \in Readable : Becomes(w, is)
  <2> USE DEF Saving, Readable
  <2>1. CASE User(w)
    BY <1>2, <2>1 DEF User, Start, Press, Exit, ExitUnselected, Pick, EditFields, CloseManager, ChooseItem,
       ViewProfileManager, AddNewProfile, DeleteProfile, SaveProfile
  <2>2. CASE GetSettings(w) \/ Open(w) \/ OpenFails(w) \/ Reload(w) \/ ReloadOutOfRange(w)
    BY <1>2, <2>2 DEF GetSettings, Open, OpenFails, Reload, ReloadOutOfRange
  <2>3. CASE RemoveFile(w) \/ OpenFile(w)
    BY <2>3 DEF RemoveFile, OpenFile, Go
  <2>4. CASE WriteFile(w) \/ WriteFails(w)
    BY <2>4 DEF WriteFile, WriteFails, Saved, Go
  <2>5. CASE Kill(w)
    BY <1>2, <2>5 DEF Kill
  <2> QED
    BY <2>1, <2>2, <2>3, <2>4, <2>5 DEF Handler
<1> QED
  BY <1>1, <1>2, BecomesFiled DEF Always

\* A window that is closed or dead.
LEMMA GoneOrder ==
  ASSUME TypeOK, NEW w \in Windows, NEW how \in {"closed", "dead"}, Gone(w, how)
  PROVE  Order(w)'
BY DEF Gone, TypeOK, ProcessOK, WindowOK, ManagerOK, Order, Saving, SavesSettings

LEMMA OrderNext ==
  ASSUME TypeOK, NEW w \in Windows, Order(w), User(w) \/ Handler(w) \/ Kill(w)
  PROVE  Order(w)'
<1> USE DEF Order, Saving, SavesSettings, process, window, manager
<1>t. /\ pc \in [Windows -> Running \cup {"closed", "dead"}] /\ lastProfileIndex \in [Windows -> Int]
      /\ after \in [Windows -> {"none", "start", "exit", "add", "delete", "save"}]
      /\ current \in [Windows -> Int] /\ shown \in [Windows -> BOOLEAN]
  BY DEF TypeOK, ProcessOK, WindowOK, ManagerOK
\* What is idle after a step has nothing to keep.
<1>i. pc'[w] = "idle" => Order(w)'
  OBVIOUS
<1>1. CASE Start(w)
  <2>1. ~shown'[w] /\ lastProfileIndex'[w] \in Int
    <3>1. pc[w] \in {"closed", "dead"}
      BY <1>1, <1>t DEF Start, Alive
    <3>2. settingsFile.index \in Int
      BY DEF TypeOK, FilesOK
    <3> QED
      BY <1>1, <1>t, <3>1, <3>2 DEF Start
  <2>2. \/ pc'[w] = "settings"
        \/ pc'[w] = "remove" /\ after'[w] = "start" /\ lastProfileIndex'[w] = -1
    BY <1>1, <1>t DEF Start
  <2> QED
    BY <2>1, <2>2
<1>2. CASE GetSettings(w)
  BY <1>2, <1>t DEF GetSettings, Go
<1>3. CASE \/ Open(w) \/ Press(w) \/ (\E index \in 0 .. Len(combo[w]) : Pick(w, index)) \/ EditFields(w)
           \/ ViewProfileManager(w) \/ CloseManager(w) \/ Reload(w)
           \/ (\E index \in 0 .. Len(list[w]) : ChooseItem(w, index))
  BY <1>3, <1>t, <1>i DEF Open, Press, Pick, EditFields, ViewProfileManager, CloseManager, Reload,
     ChooseItem, Go
<1>4. CASE Exit(w)
  BY <1>4, <1>t DEF Exit, Save, Go
<1>5. CASE ExitUnselected(w) \/ Kill(w) \/ ReloadOutOfRange(w)
  BY <1>5, GoneOrder DEF ExitUnselected, Kill, ReloadOutOfRange
<1>6. CASE (\E id \in Ids : AddNewProfile(w, id)) \/ DeleteProfile(w) \/ SaveProfile(w)
  <2>1. pc'[w] = "remove" /\ after'[w] \in {"add", "delete", "save"}
    BY <1>6, <1>t DEF AddNewProfile, DeleteProfile, SaveProfile, Save, Go
  <2> QED
    BY <2>1
<1>7. CASE RemoveFile(w) \/ OpenFile(w)
  BY <1>7, <1>t DEF RemoveFile, OpenFile, Go
<1>8. ASSUME NEW from \in {"open", "write"}, Saved(w, from) PROVE Order(w)'
  <2>1. CASE after[w] = "exit"
    BY <1>8, <2>1, GoneOrder DEF Saved
  <2>2. CASE after[w] # "exit"
    <3>1. /\ pc[w] = from /\ pc' = [pc EXCEPT ![w] = Resume(w)]
          /\ after' = after /\ lastProfileIndex' = lastProfileIndex /\ shown' = shown
      BY <1>8, <2>2 DEF Saved, Go
    <3>2. CASE after[w] = "start"
      BY <1>t, <3>1, <3>2 DEF Resume
    <3>3. CASE after[w] # "start"
      BY <1>t, <2>2, <3>1, <3>3 DEF Resume
    <3> QED
      BY <3>2, <3>3
  <2> QED
    BY <2>1, <2>2
<1>9. CASE OpenFails(w) \/ WriteFile(w) \/ WriteFails(w)
  BY <1>8, <1>9 DEF OpenFails, WriteFile, WriteFails
<1> QED
  BY <1>1, <1>2, <1>3, <1>4, <1>5, <1>6, <1>7, <1>9 DEF User, Handler

LEMMA AlwaysNext ==
  ASSUME TypeOK, Always, NEW w \in Windows, User(w) \/ Handler(w) \/ Kill(w)
  PROVE  Always'
<1>1. Filed'
  BY FiledNext
<1>2. Order(w)'
  BY OrderNext DEF Always
<1>3. ASSUME NEW v \in Windows \ {w} PROVE Order(v)'
  <2>1. Same(v)
    BY OthersSame
  <2> QED
    BY <2>1 DEF Always, Order, Same, Saving, SavesSettings
<1> QED
  BY <1>1, <1>2, <1>3 DEF Always

-----------------------------------------------------------------------------
(* Editing a list                                                          *)

LEMMA AppendNames ==
  ASSUME NEW s \in Seq(Profile), Distinct(s), NEW p \in Profile, p.id \notin Names(s)
  PROVE  Names(Append(s, p)) = Names(s) \cup {p.id} /\ Distinct(Append(s, p))
<1> DEFINE r == Append(s, p)  l == Len(s)
<1>1. /\ l \in Nat /\ DOMAIN s = 1 .. l /\ DOMAIN r = 1 .. l + 1
      /\ \A n \in 1 .. l : r[n] = s[n]
      /\ r[l + 1] = p
  OBVIOUS
<1> HIDE DEF r, l
<1>2. Names(r) = Names(s) \cup {p.id}
  <2>1. 1 .. l + 1 = (1 .. l) \cup {l + 1}
    BY <1>1
  <2> QED
    BY <1>1, <2>1 DEF Names
<1>3. Distinct(r)
  BY <1>1 DEF Distinct, Names
<1> QED
  BY <1>2, <1>3 DEF r

LEMMA RemoveNames ==
  ASSUME NEW s \in Seq(Profile), Distinct(s), NEW i \in 1 .. Len(s)
  PROVE  /\ Names(RemoveAt(s, i)) = Names(s) \ {s[i].id}
         /\ Distinct(RemoveAt(s, i))
<1> DEFINE r == RemoveAt(s, i)  l == Len(s)
<1>1. /\ l \in Nat /\ DOMAIN s = 1 .. l /\ DOMAIN r = 1 .. l - 1 /\ i \in 1 .. l
      /\ \A n \in 1 .. l - 1 : r[n] = IF n < i THEN s[n] ELSE s[n + 1]
  <2>1. /\ r \in Seq(Profile) /\ Len(r) = l - 1
        /\ \A n \in 1 .. l - 1 : r[n] = IF n < i THEN s[n] ELSE s[n + 1]
    BY Removed
  <2>2. l \in Nat /\ DOMAIN s = 1 .. l /\ i \in 1 .. l
    OBVIOUS
  <2> HIDE DEF r, l
  <2>3. DOMAIN r = 1 .. l - 1
    BY <2>1
  <2> QED
    BY <2>1, <2>2, <2>3
<1> HIDE DEF r, l
<1>2. ASSUME NEW n \in 1 .. l, n # i
      PROVE  \E m \in 1 .. l - 1 : r[m] = s[n]
  <2>1. CASE n < i
    BY <1>1, <2>1
  <2>2. CASE n > i
    <3>1. n - 1 \in 1 .. l - 1 /\ ~(n - 1 < i) /\ (n - 1) + 1 = n
      BY <1>1, <2>2
    <3> QED
      BY <1>1, <3>1
  <2> QED
    BY <1>1, <1>2, <2>1, <2>2
<1>3. ASSUME NEW m \in 1 .. l - 1
      PROVE  \E n \in 1 .. l : n # i /\ r[m] = s[n] /\ n = IF m < i THEN m ELSE m + 1
  BY <1>1
<1>4. Names(r) = Names(s) \ {s[i].id}
  <2>1. ASSUME NEW n \in 1 .. l, n # i PROVE s[n].id # s[i].id
    BY <1>1, <2>1 DEF Distinct
  <2>2. ASSUME NEW x \in Names(r) PROVE x \in Names(s) \ {s[i].id}
    <3>1. PICK m \in 1 .. l - 1 : x = r[m].id
      BY <1>1, <2>2 DEF Names
    <3>2. PICK n \in 1 .. l : n # i /\ r[m] = s[n]
      BY <1>3
    <3> QED
      BY <1>1, <2>1, <3>1, <3>2 DEF Names
  <2>3. ASSUME NEW x \in Names(s) \ {s[i].id} PROVE x \in Names(r)
    <3>1. PICK n \in 1 .. l : x = s[n].id /\ n # i
      BY <1>1, <2>3 DEF Names
    <3>2. PICK m \in 1 .. l - 1 : r[m] = s[n]
      BY <1>2, <3>1
    <3> QED
      BY <1>1, <3>1, <3>2 DEF Names
  <2> QED
    BY <2>2, <2>3
<1>5. Distinct(r)
  <2> SUFFICES ASSUME NEW m \in 1 .. l - 1, NEW n \in 1 .. l - 1, r[m].id = r[n].id
               PROVE  m = n
    BY <1>1 DEF Distinct
  <2> DEFINE at(k) == IF k < i THEN k ELSE k + 1
  <2>1. \A k \in 1 .. l - 1 : r[k] = s[at(k)] /\ at(k) \in 1 .. l
    BY <1>1
  <2>2. at(m) = at(n)
    <3> HIDE DEF at
    <3> QED
      BY <1>1, <2>1 DEF Distinct
  <2> QED
    BY <1>1, <2>2
<1> QED
  BY <1>4, <1>5 DEF r, l

LEMMA BoxNames ==
  ASSUME NEW s \in Seq(Profile), Distinct(s), NEW i \in 1 .. Len(s), NEW box \in BOOLEAN
  PROVE  /\ Names([s EXCEPT ![i].default = box]) = Names(s)
         /\ Distinct([s EXCEPT ![i].default = box])
         /\ Len([s EXCEPT ![i].default = box]) = Len(s)
<1> DEFINE p == [s[i] EXCEPT !.default = box]  r == [s EXCEPT ![i] = p]
<1>1. s[i] \in Profile
  OBVIOUS
<1>2. p \in Profile /\ p.id = s[i].id
  BY <1>1 DEF Profile
<1>3. [s EXCEPT ![i].default = box] = r
  OBVIOUS
<1> HIDE DEF p
<1>4. r \in Seq(Profile) /\ Len(r) = Len(s) /\ DOMAIN r = DOMAIN s
  BY <1>2
<1>5. \A n \in DOMAIN s : r[n].id = s[n].id
  BY <1>2
<1> HIDE DEF r
<1> QED
  BY <1>3, <1>4, <1>5 DEF Names, Distinct

\* A window that has the key reads what is in the file.
LEMMA ReadsFile ==
  ASSUME Filed, NEW w \in Windows, ~invalidKey[w]
  PROVE  GetProfiles(w) = profilesFile.list
BY DEF Filed, GetProfiles

-----------------------------------------------------------------------------
(* What holds if nothing goes wrong                                        *)

\* The main window begins.
LEMMA StartSound ==
  ASSUME TypeOK, Always, NEW w \in Windows, Sound(w),
         Start(w) \/ GetSettings(w) \/ Open(w) \/ Press(w)
  PROVE  Sound(w)'
<1> USE DEF Sound, Clean, Complete, files, manager, history
<1>t. /\ pc \in [Windows -> Running \cup {"closed", "dead"}]
      /\ after \in [Windows -> {"none", "start", "exit", "add", "delete", "save"}]
      /\ invalidKey \in [Windows -> BOOLEAN] /\ lastProfileIndex \in [Windows -> Int]
  BY DEF TypeOK, ProcessOK
<1>1. CASE Start(w)
  <2>1. ~Edits(w) /\ invalidKey'[w] = FALSE /\ UNCHANGED <<settingsFile, profilesFile, book>>
    BY <1>1, <1>t DEF Start, Edits, Saving, Alive, Running
  <2>2. \/ /\ pc'[w] = "settings" /\ settingsFile.is = "whole"
           /\ lastProfileIndex'[w] = settingsFile.index
        \/ pc'[w] = "remove" /\ after'[w] = "start"
    BY <1>1, <1>t DEF Start
  <2>3. ~Edits(w)'
    BY <2>2 DEF Edits, Saving, SavesSettings
  <2> QED
    BY <2>1, <2>2, <2>3 DEF Local
<1>2. CASE GetSettings(w)
  <2>1. /\ pc[w] = "settings" /\ pc'[w] = "profiles"
        /\ UNCHANGED <<settingsFile, profilesFile, book>>
    BY <1>2, <1>t DEF GetSettings, Go
  <2>2. settingsFile.is = "whole" /\ lastProfileIndex[w] = settingsFile.index /\ ~invalidKey[w]
    BY <2>1 DEF Local, Alive, Running
  <2>3. ~invalidKey'[w] /\ lastProfileIndex'[w] = settingsFile.index
    BY <1>2, <1>t, <2>2 DEF GetSettings, Decrypted
  <2> QED
    BY <2>1, <2>2, <2>3 DEF Local, Edits, Saving
<1>3. CASE Open(w) \/ Press(w)
  <2>1. /\ pc[w] \in {"profiles", "idle"} /\ pc'[w] = "idle"
        /\ UNCHANGED <<settingsFile, profilesFile, book, shown, list, selected>>
    BY <1>3, <1>t DEF Open, Press, Go
  <2>2. ~invalidKey[w]
    BY <2>1 DEF Local, Alive, Running
  <2>3. ~invalidKey'[w]
    BY <1>3, <1>t, <2>2 DEF Open, Press, LoadStoredProfiles, Decrypted
  <2>4. pc[w] = "profiles" => ~shown[w]
    BY DEF Always, Order
  <2> QED
    BY <2>1, <2>3, <2>4 DEF Local, Edits, Saving, Looks
<1> QED
  BY <1>1, <1>2, <1>3

\* A window ends.
LEMMA GoneSound ==
  ASSUME TypeOK, NEW w \in Windows, Gone(w, "closed"), Clean', Complete'
  PROVE  Sound(w)'
<1>1. pc'[w] = "closed"
  BY DEF Gone, TypeOK, ProcessOK
<1> QED
  BY <1>1 DEF Sound, Local, Edits, Saving, Alive, Running

LEMMA EndSound ==
  ASSUME TypeOK, Always, NEW w \in Windows, Sound(w), harm' = {},
         Exit(w) \/ ExitUnselected(w) \/ Kill(w)
  PROVE  Sound(w)'
<1> USE DEF Sound, Clean, Complete, files, manager, history
<1>1. CASE Exit(w)
  <2>1. /\ pc[w] = "idle" /\ pc'[w] = "remove" /\ after'[w] = "exit"
        /\ UNCHANGED <<settingsFile, profilesFile, book, invalidKey>>
    BY <1>1 DEF Exit, Save, Go, TypeOK, ProcessOK
  <2> QED
    BY <2>1 DEF Local, Edits, Saving, SavesSettings, Alive, Running
<1>2. CASE ExitUnselected(w)
  <2>1. ~Edits(w)
    BY <1>2 DEF ExitUnselected, Edits, Saving
  <2> QED
    BY <1>2, <2>1, GoneSound DEF ExitUnselected
<1>3. CASE Kill(w)
  <2>1. ~Saving(w)
    BY <1>3 DEF Kill, Harmed
  <2> QED
    BY <1>3, <2>1, GoneSound DEF Kill, Edits
<1> QED
  BY <1>1, <1>2, <1>3

\* A window is idle before and after.
LEMMA IdleSound ==
  ASSUME TypeOK, NEW w \in Windows, Sound(w), pc[w] = "idle", pc' = pc,
         UNCHANGED <<files, book>>, ~invalidKey'[w], shown'[w] => Looks(w)'
  PROVE  Sound(w)'
BY DEF Sound, Clean, Complete, files, Local, Edits, Saving

LEMMA ViewSound ==
  ASSUME TypeOK, Always, NEW w \in Windows, Sound(w),
         \/ ViewProfileManager(w) \/ CloseManager(w)
         \/ (\E index \in 0 .. Len(combo[w]) : Pick(w, index)) \/ EditFields(w)
         \/ (\E index \in 0 .. Len(list[w]) : ChooseItem(w, index))
  PROVE  Sound(w)'
<1> USE DEF files, manager, history
<1>1. pc[w] = "idle" /\ pc' = pc /\ UNCHANGED <<files, book>>
  BY DEF ViewProfileManager, CloseManager, Pick, EditFields, ChooseItem, Go, TypeOK, ProcessOK
<1>2. ~invalidKey[w]
  BY <1>1 DEF Sound, Local, Alive, Running
<1>3. shown[w] => Looks(w)
  BY <1>1 DEF Sound, Local
<1>4. CASE ViewProfileManager(w)
  <2>1. ~invalidKey'[w]
    BY <1>2, <1>4 DEF ViewProfileManager, Decrypted, TypeOK, ProcessOK, Sound, Clean
  <2>2. GetProfiles(w) = profilesFile.list /\ list' = [list EXCEPT ![w] = GetProfiles(w)]
    BY <1>2, <1>4, ReadsFile DEF ViewProfileManager, Always
  <2>3. list'[w] = profilesFile.list /\ profilesFile.list \in Seq(Profile)
    BY <2>2 DEF TypeOK, ManagerOK, FilesOK
  <2>4. selected'[w] = IF profilesFile.list # << >> THEN 0 ELSE -1
    BY <1>4, <2>2 DEF ViewProfileManager, LoadProfile, TypeOK, ManagerOK
  <2>5. Looks(w)'
    BY <1>1, <2>3, <2>4 DEF Looks, InRange
  <2> QED
    BY <1>1, <2>1, <2>5, IdleSound
<1>5. CASE CloseManager(w)
  BY <1>1, <1>2, <1>5, IdleSound DEF CloseManager, TypeOK, ManagerOK
<1>6. CASE (\E index \in 0 .. Len(combo[w]) : Pick(w, index)) \/ EditFields(w)
  <2>1. UNCHANGED <<invalidKey, shown, list, selected>>
    BY <1>6 DEF Pick, EditFields
  <2>2. shown'[w] => Looks(w)'
    BY <1>1, <1>3, <2>1 DEF Looks
  <2> QED
    BY <1>1, <1>2, <2>1, <2>2, IdleSound
<1>7. ASSUME NEW index \in 0 .. Len(list[w]), ChooseItem(w, index) PROVE Sound(w)'
  <2>1. /\ UNCHANGED <<invalidKey, shown, list>> /\ shown[w] /\ InRange(list[w], index)
        /\ selected'[w] = index
    BY <1>7 DEF ChooseItem, LoadProfile, TypeOK, ManagerOK
  <2>2. Looks(w)'
    BY <1>1, <1>3, <2>1 DEF Looks
  <2> QED
    BY <1>1, <1>2, <2>1, <2>2, IdleSound
<1> QED
  BY <1>4, <1>5, <1>6, <1>7

\* The list is edited, and still is what was made.
LEMMA EditSound ==
  ASSUME TypeOK, NEW w \in Windows, Sound(w),
         \/ (\E id \in Ids : AddNewProfile(w, id)) \/ DeleteProfile(w) \/ SaveProfile(w)
  PROVE  Sound(w)'
<1> USE DEF files, manager
<1>1. /\ pc[w] = "idle" /\ pc'[w] = "remove" /\ after'[w] \in {"add", "delete", "save"}
      /\ UNCHANGED <<settingsFile, profilesFile, invalidKey, selected>> /\ shown[w]
  BY DEF AddNewProfile, DeleteProfile, SaveProfile, Save, Go, TypeOK, ProcessOK
<1>2. /\ ~invalidKey[w] /\ Looks(w) /\ Complete /\ Clean
  BY <1>1 DEF Sound, Local, Alive, Running, Edits, Saving
<1>3. /\ list[w] \in Seq(Profile) /\ selected[w] \in Int
      /\ Names(list[w]) = book /\ Distinct(list[w])
  BY <1>2 DEF Looks, Complete, TypeOK, ManagerOK
<1>4. Names(list'[w]) = book' /\ Distinct(list'[w]) /\ Back(w)'
  <2>1. ASSUME NEW id \in Ids, AddNewProfile(w, id)
        PROVE  Names(list'[w]) = book' /\ Distinct(list'[w]) /\ Back(w)'
    <3> DEFINE p == [id |-> id, default |-> FALSE]
    <3>1. p \in Profile /\ p.id = id
      BY DEF Profile
    <3>2. id \notin book /\ book' = book \cup {id} /\ list' = [list EXCEPT ![w] = Append(@, p)]
      BY <2>1 DEF AddNewProfile
    <3> HIDE DEF p
    <3>3. list'[w] = Append(list[w], p)
      BY <3>2 DEF TypeOK, ManagerOK
    <3>4. after'[w] = "add"
      BY <2>1 DEF AddNewProfile, Save, TypeOK, ProcessOK
    <3>5. Back(w)'
      BY <1>1, <1>2, <1>3, <3>1, <3>3, <3>4 DEF Back, Looks, InRange
    <3> QED
      BY <1>3, <3>1, <3>2, <3>3, <3>5, AppendNames
  <2>2. edit[w] => InRange(list[w], selected[w])
    BY <1>1 DEF TypeOK, ManagerOK
  <2>3. edit[w] => selected[w] + 1 \in 1 .. Len(list[w]) /\ InRange(list[w], selected[w])
    BY <1>3, <2>2 DEF InRange
  <2>4. CASE DeleteProfile(w)
    <3>1. /\ edit[w] /\ book' = book \ {Entry(list[w], selected[w])}
          /\ list'[w] = RemoveAt(list[w], selected[w] + 1) /\ after'[w] = "delete"
      BY <2>4 DEF DeleteProfile, Save, TypeOK, ProcessOK, ManagerOK
    <3>2. Entry(list[w], selected[w]) = list[w][selected[w] + 1].id
      BY <2>3, <3>1 DEF Entry
    <3>3. Names(list'[w]) = book' /\ Distinct(list'[w])
      BY <1>3, <2>3, <3>1, <3>2, RemoveNames
    <3>4. Len(list'[w]) = Len(list[w]) - 1
      BY <1>3, <2>3, <3>1, Removed
    <3>5. selected[w] \in 0 .. Len(list'[w])
      BY <1>3, <2>3, <3>1, <3>4 DEF InRange
    <3> QED
      BY <1>1, <3>1, <3>3, <3>5 DEF Back
  <2>5. CASE SaveProfile(w)
    <3>1. PICK box \in BOOLEAN : list' = [list EXCEPT ![w][selected[w] + 1].default = box]
      BY <2>5 DEF SaveProfile
    <3>2. list'[w] = [list[w] EXCEPT ![selected[w] + 1].default = box]
      BY <3>1 DEF TypeOK, ManagerOK
    <3>3. edit[w] /\ book' = book /\ after'[w] = "save"
      BY <2>5 DEF SaveProfile, Save, TypeOK, ProcessOK, history
    <3>4. Names(list'[w]) = book' /\ Distinct(list'[w]) /\ Len(list'[w]) = Len(list[w])
      BY <1>3, <2>3, <3>2, <3>3, BoxNames
    <3>5. InRange(list'[w], selected[w])
      BY <2>3, <3>3, <3>4 DEF InRange
    <3> QED
      BY <1>1, <3>3, <3>4, <3>5 DEF Back
  <2> QED
    BY <2>1, <2>4, <2>5
<1>5. Clean'
  BY <1>1, <1>2 DEF Clean
<1>6. Edits(w)'
  BY <1>1 DEF Edits, Saving, SavesSettings
<1> QED
  BY <1>1, <1>2, <1>4, <1>5, <1>6 DEF Sound, Local, Edits, Saving

\* A save that is not over.
LEMMA SavingSound ==
  ASSUME TypeOK, Always, NEW w \in Windows, Sound(w), RemoveFile(w) \/ OpenFile(w)
  PROVE  Sound(w)'
<1> USE DEF manager, history
<1>1. PICK is \in {"absent", "empty"} : Becomes(w, is)
  BY DEF RemoveFile, OpenFile
<1>2. /\ Saving(w) /\ pc'[w] \in {"open", "write"}
      /\ UNCHANGED <<after, invalidKey, lastProfileIndex, list, shown, selected, book>>
  BY DEF RemoveFile, OpenFile, Go, Saving, TypeOK, ProcessOK
<1>3. Alive(w) /\ Saving(w)' /\ (Edits(w)' <=> Edits(w))
  BY <1>2 DEF Alive, Running, Saving, Edits, SavesSettings
<1>4. settingsFile'.is # "torn" /\ profilesFile'.is # "torn"
  BY <1>1 DEF Becomes, Sound, Clean
<1>5. ~Edits(w) => profilesFile' = profilesFile
  BY <1>1, <1>2 DEF Becomes, Edits
<1>6. Local(w)'
  BY <1>2, <1>3 DEF Sound, Local, Saving, Back
<1>7. ~Edits(w)' => Complete'
  BY <1>2, <1>3, <1>5 DEF Sound, Complete
<1> QED
  BY <1>4, <1>6, <1>7 DEF Sound, Clean

\* A save that succeeds.
LEMMA WriteSound ==
  ASSUME TypeOK, Always, NEW w \in Windows, Sound(w), WriteFile(w)
  PROVE  Sound(w)'
<1> USE DEF manager, history
<1>1. /\ pc[w] = "write" /\ Saving(w) /\ Alive(w) /\ ~invalidKey[w]
      /\ Becomes(w, "whole") /\ book' = book
  BY DEF WriteFile, Saved, Go, Saving, Alive, Running, Sound, Local
<1>2. settingsFile'.is # "torn" /\ profilesFile'.is # "torn"
  BY <1>1 DEF Becomes, Sound, Clean
<1>3. CASE after[w] = "exit"
  <2>1. Gone(w, "closed") /\ ~Edits(w) /\ profilesFile' = profilesFile
    BY <1>1, <1>3 DEF WriteFile, Saved, Becomes, Edits, SavesSettings
  <2> QED
    BY <1>1, <1>2, <2>1, GoneSound DEF Sound, Clean, Complete
<1>4. CASE after[w] = "start"
  <2>1. /\ pc'[w] = "settings" /\ UNCHANGED <<after, invalidKey, lastProfileIndex, list>>
        /\ ~Edits(w) /\ profilesFile' = profilesFile
        /\ settingsFile'.is = "whole" /\ settingsFile'.index = lastProfileIndex[w]
    BY <1>1, <1>4 DEF WriteFile, Saved, Go, Resume, Becomes, Edits, SavesSettings, TypeOK, ProcessOK
  <2> QED
    BY <1>1, <1>2, <2>1 DEF Sound, Clean, Complete, Local, Edits, Saving
<1>5. CASE after[w] \in {"add", "delete", "save"}
  <2>1. /\ pc'[w] = "reload" /\ UNCHANGED <<after, invalidKey, list, selected>> /\ Edits(w)
        /\ profilesFile'.list = list[w]
    BY <1>1, <1>5 DEF WriteFile, Saved, Go, Resume, Becomes, Edits, SavesSettings, TypeOK, ProcessOK
  <2>2. Complete' /\ Back(w)'
    BY <1>1, <2>1 DEF Sound, Local, Complete, Back
  <2> QED
    BY <1>1, <1>2, <2>1, <2>2 DEF Sound, Clean, Local, Edits, Saving
<1> QED
  BY <1>1, <1>3, <1>4, <1>5 DEF Always, Order

\* The end of a handler finds the index in the list: the process does not die.
LEMMA ReloadSound ==
  ASSUME TypeOK, Always, NEW w \in Windows, Sound(w), Reload(w) \/ ReloadOutOfRange(w)
  PROVE  Sound(w)'
<1> USE DEF files, history
<1>1. /\ pc[w] = "reload" /\ ~invalidKey[w] /\ list[w] = profilesFile.list /\ Back(w)
      /\ after[w] \in {"add", "delete", "save"} /\ Clean /\ Complete
  BY DEF Reload, ReloadOutOfRange, Go, Sound, Local, Alive, Running, Edits, Saving, Always, Order
<1>2. GetProfiles(w) = list[w] /\ list[w] \in Seq(Profile) /\ selected[w] \in Int
  BY <1>1, ReadsFile DEF Always, TypeOK, ManagerOK
<1>3. Returns(w) = -1 \/ InRange(list[w], Returns(w))
  <2>1. CASE after[w] = "delete" /\ list[w] # << >> /\ selected[w] # 0
    BY <1>1, <1>2, <2>1 DEF Returns, Back, InRange
  <2>2. CASE after[w] = "delete" /\ list[w] # << >> /\ selected[w] = 0
    BY <1>1, <1>2, <2>2 DEF Returns, Back, InRange
  <2>3. CASE after[w] = "delete" /\ list[w] = << >>
    BY <1>2, <2>3 DEF Returns
  <2>4. CASE after[w] # "delete"
    BY <1>1, <2>4 DEF Returns, Back
  <2> QED
    BY <2>1, <2>2, <2>3, <2>4
<1>4. Reload(w)
  BY <1>2, <1>3 DEF ReloadOutOfRange
<1>5. /\ pc'[w] = "idle" /\ list'[w] = profilesFile.list /\ ~invalidKey'[w]
      /\ UNCHANGED <<settingsFile, profilesFile, book>>
  BY <1>1, <1>2, <1>4 DEF Reload, Go, Decrypted, Clean, TypeOK, ProcessOK, ManagerOK
<1>6. selected'[w] = -1 \/ InRange(list[w], selected'[w]) \/ (selected'[w] = 0 /\ list[w] = << >>)
  <2>1. CASE Returns(w) # -1
    BY <1>2, <1>3, <1>4, <2>1 DEF Reload, LoadProfile, TypeOK, ManagerOK
  <2>2. CASE Returns(w) = -1
    <3>1. selected'[w] = selected[w]
      BY <1>4, <2>2 DEF Reload
    <3>2. CASE after[w] = "delete"
      <4>1. list[w] = << >>
        BY <1>1, <1>2, <2>2, <3>2 DEF Returns, Back
      <4>2. selected[w] = 0
        BY <1>1, <1>2, <3>2, <4>1 DEF Back
      <4> QED
        BY <3>1, <4>1, <4>2
    <3>3. CASE after[w] # "delete"
      BY <2>2, <3>1, <3>3 DEF Returns
    <3> QED
      BY <3>2, <3>3
  <2> QED
    BY <2>1, <2>2
<1>7. Looks(w)'
  BY <1>1, <1>5, <1>6 DEF Looks, InRange
<1> QED
  BY <1>1, <1>5, <1>7 DEF Sound, Clean, Complete, Local, Edits, Saving

LEMMA SoundNext ==
  ASSUME TypeOK, Always, NEW w \in Windows, Sound(w), harm' = {},
         User(w) \/ Handler(w) \/ Kill(w)
  PROVE  Sound(w)'
<1>1. ~OpenFails(w) /\ ~WriteFails(w)
  BY DEF OpenFails, WriteFails, Harmed
<1>2. CASE User(w)
  BY <1>2, StartSound, EndSound, ViewSound, EditSound DEF User
<1>3. CASE Handler(w)
  BY <1>1, <1>3, StartSound, SavingSound, WriteSound, ReloadSound DEF Handler
<1>4. CASE Kill(w)
  BY <1>4, EndSound
<1> QED
  BY <1>2, <1>3, <1>4

LEMMA SafeNext == TypeOK /\ Always /\ Safe /\ [Next]_vars => Always' /\ Safe'
<1> SUFFICES ASSUME TypeOK, Always, Safe, [Next]_vars PROVE Always' /\ Safe'
  OBVIOUS
<1>1. CASE UNCHANGED vars
  <2>1. UNCHANGED <<settingsFile, profilesFile, pc, after, invalidKey, lastProfileIndex, combo,
                    current, fields, shown, list, selected, book, harm>>
    BY <1>1 DEF vars, files, process, window, manager, history
  <2>2. Always'
    BY <2>1 DEF Always, Filed, Order, Saving, SavesSettings
  <2>3. Safe'
    BY <2>1 DEF Safe, Clean, Complete, Local, Looks, Back, Edits, Saving, SavesSettings, Alive
  <2> QED
    BY <2>2, <2>3
<1>2. CASE Next
  <2>1. PICK w \in Windows : User(w) \/ Handler(w) \/ Kill(w)
    BY <1>2 DEF Next
  <2>2. Always'
    BY <2>1, AlwaysNext
  <2>3. CASE harm' # {}
    BY <2>2, <2>3 DEF Safe
  <2>4. CASE harm' = {}
    <3>1. harm = {} /\ Alone(w) /\ Sound(w)
      BY <2>1, <2>4, StepsAlone
    <3>2. Sound(w)'
      BY <2>1, <2>4, <3>1, SoundNext
    <3> QED
      BY <2>1, <2>2, <3>1, <3>2, OthersSame, SafeFrom
  <2> QED
    BY <2>2, <2>3, <2>4
<1> QED
  BY <1>1, <1>2

LEMMA SafeInit == Init => Always /\ Safe
<1> SUFFICES ASSUME Init PROVE Always /\ Safe
  OBVIOUS
<1>1. Always
  BY DEF Init, Always, Filed, Order, Saving
<1>2. \A w \in Windows : ~Alive(w) /\ ~Saving(w) /\ pc[w] = "closed"
  BY DEF Init, Alive, Running, Saving
<1>3. Clean /\ Complete
  BY DEF Init, Clean, Complete, Names, Distinct
<1>4. \A w \in Windows : Local(w)
  BY <1>2 DEF Local, Edits
<1> QED
  BY <1>1, <1>2, <1>3, <1>4 DEF Safe

LEMMA AlwaysSafe == Spec => [](TypeOK /\ Always /\ Safe)
<1>1. Init => Always /\ Safe
  BY SafeInit
<1>2. TypeOK /\ Always /\ Safe /\ [Next]_vars => Always' /\ Safe'
  BY SafeNext
<1> QED
  BY <1>1, <1>2, TypeCorrect, PTL DEF Spec

-----------------------------------------------------------------------------
(* The theorems                                                            *)

\* The file has exactly the profiles that were made and not deleted, and the
\* manager never uses an index that is not in its list, however many windows
\* come one after the other and however many of them are killed between saves.
THEOREM AlwaysKept == Spec => []Kept
<1>1. Safe => Kept
  <2> SUFFICES ASSUME Safe, harm = {}
               PROVE  /\ \A w \in Windows : pc[w] # "dead"
                      /\ (\A w \in Windows : Saving(w) => SavesSettings(w)) => Stored = book
    BY DEF Kept
  <2>1. \A w \in Windows : pc[w] # "dead"
    BY DEF Safe, Local
  <2>2. Complete => Stored = book
    BY DEF Complete, Names, Stored
  <2> QED
    BY <2>1, <2>2 DEF Safe, Edits
<1> QED
  BY <1>1, AlwaysSafe, PTL

\* The selected profile is selected again if the list did not change.
THEOREM AlwaysRestores == Spec => Restores
<1> DEFINE Restored ==
      \A w \in Windows :
        /\ Opened(w) /\ harm = {} /\ ~HasDefault(profilesFile.list)
        /\ settingsFile.index # -1 /\ settingsFile.among = profilesFile.list
        => fields'[w] = settingsFile.chosen
<1>1. TypeOK /\ Always /\ Safe /\ [Next]_vars => [Restored]_vars
  <2> SUFFICES ASSUME TypeOK, Always, Safe, Next, NEW w \in Windows, Opened(w), harm = {},
                      ~HasDefault(profilesFile.list), settingsFile.index # -1,
                      settingsFile.among = profilesFile.list
               PROVE  fields'[w] = settingsFile.chosen
    BY DEF vars
  <2>1. PICK v \in Windows : User(v) \/ Handler(v) \/ Kill(v)
    BY DEF Next
  <2>2. v = w
    BY <2>1, OthersSame DEF Opened, Same
  <2>3. Open(w)
    <3>1. pc[w] = "profiles" /\ pc'[w] = "idle"
      BY DEF Opened
    <3>2. ~User(w)
      BY <3>1 DEF User, Start, Exit, ExitUnselected, Press, Pick, EditFields, ViewProfileManager,
         CloseManager, ChooseItem, AddNewProfile, DeleteProfile, SaveProfile, Save, Go, Alive,
         Running
    <3>3. ~Kill(w)
      BY <3>1 DEF Kill, Gone, TypeOK, ProcessOK
    <3> QED
      BY <2>1, <2>2, <3>1, <3>2, <3>3 DEF Handler, GetSettings, RemoveFile, OpenFile, OpenFails,
         WriteFile, WriteFails, Reload, ReloadOutOfRange, Saved, Go
  <2>4. /\ ~invalidKey[w] /\ lastProfileIndex[w] = settingsFile.index
    BY DEF Opened, Safe, Local, Alive, Running
  <2>5. GetProfiles(w) = settingsFile.among
    BY <2>4, ReadsFile DEF Always
  <2>6. /\ settingsFile.index \in 0 .. Len(settingsFile.among)
        /\ settingsFile.chosen = Entry(settingsFile.among, settingsFile.index)
    BY DEF Always, Filed
  <2>7. Selected(GetProfiles(w), lastProfileIndex[w]) = settingsFile.index
    BY <2>4, <2>5, <2>6 DEF Selected
  <2>8. fields' = [fields EXCEPT ![w] = Entry(settingsFile.among, settingsFile.index)]
    BY <2>3, <2>5, <2>7 DEF Open, LoadStoredProfiles
  <2> QED
    BY <2>6, <2>8 DEF TypeOK, WindowOK
<1> QED
  BY <1>1, AlwaysSafe, PTL DEF Spec, Restores
=============================================================================
