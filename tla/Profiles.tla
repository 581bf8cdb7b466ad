------------------------------- MODULE Profiles -------------------------------
(***************************************************************************)
(* The connection profiles of the client and the two files behind them:    *)
(* Settings, ProfileManager, Crypto's files, frmProfileManager and the     *)
(* profile list of frmMain, in remote-terminal-client/src.                 *)
(*                                                                         *)
(* A window (a process of the client) reads both files when it starts,     *)
(* shows the profiles in a combo box, has a manager that edits them, and   *)
(* writes the index of the selected one when it is closed.  A file is      *)
(* saved by removing it, opening a new one and writing it.                 *)
(*                                                                         *)
(* Abstractions.  A profile is an identity and its default flag; a file is *)
(* readable ("whole"), or not: a part of what was encrypted does not       *)
(* decrypt.  A handler is one step up to its save, which has three, and    *)
(* one step after it.  An index out of range ends the process.             *)
(***************************************************************************)
EXTENDS Integers, SequencesExt

CONSTANTS
  Windows,   \* processes of the client that share the two files
  Ids,       \* profiles: the bound on those that exist at a time
  Faults,    \* what may go wrong: "open", "write", and "kill" of a process
  Blank,     \* what the text fields show without a profile
  Edited     \* what they show when the user has typed in them

ASSUME ProfilesAssumption ==
  /\ Faults \subseteq {"open", "write", "kill"}
  /\ Blank \notin Ids /\ Edited \notin Ids \cup {Blank}

VARIABLES
  settingsFile, profilesFile,
  pc, after,                          \* a process, and the handler it saves for
  invalidKey, lastProfileIndex,       \* of its Crypto and its Settings
  combo, current, fields,             \* frmMain: storedProfiles, index, text
  shown, list, selected, edit, free,  \* the manager: visible, storedProfiles,
                                      \* selectedProfileIndex, fields and
                                      \* default box enabled
  book,                               \* history: the profiles users have made
  harm                                \* history: what went wrong

files == <<settingsFile, profilesFile>>
process == <<pc, after, invalidKey, lastProfileIndex>>
window == <<combo, current, fields>>
manager == <<shown, list, selected, edit, free>>
history == <<book, harm>>
vars == <<files, process, window, manager, history>>

-----------------------------------------------------------------------------
(* Types                                                                   *)

Profile == [id : Ids, default : BOOLEAN]
Readable == {"absent", "empty", "torn", "whole"}
Running == {"settings", "profiles", "idle", "remove", "open", "write", "reload"}

InRange(s, index) == index \in 0 .. Len(s) - 1
HasDefault(s) == \E n \in DOMAIN s : s[n].default
Alive(w) == pc[w] \in Running
Saving(w) == pc[w] \in {"remove", "open", "write"}
SavesSettings(w) == after[w] \in {"start", "exit"}

FilesOK ==
  /\ settingsFile \in [is : Readable, index : Int, chosen : Ids \cup {Blank}, among : Seq(Profile)]
  /\ profilesFile \in [is : Readable, list : Seq(Profile)]

ProcessOK ==
  /\ pc \in [Windows -> Running \cup {"closed", "dead"}]
  /\ after \in [Windows -> {"none", "start", "exit", "add", "delete", "save"}]
  /\ invalidKey \in [Windows -> BOOLEAN] /\ lastProfileIndex \in [Windows -> Int]

\* The indices stay in the lists they index.
WindowOK ==
  /\ combo \in [Windows -> Seq(Profile)] /\ fields \in [Windows -> Ids \cup {Blank, Edited}]
  /\ current \in [Windows -> Int]
  /\ \A w \in Windows : current[w] \in -1 .. Len(combo[w])

ManagerOK ==
  /\ shown \in [Windows -> BOOLEAN] /\ list \in [Windows -> Seq(Profile)]
  /\ edit \in [Windows -> BOOLEAN] /\ free \in [Windows -> BOOLEAN]
  /\ selected \in [Windows -> Int]
  /\ \A w \in Windows : pc[w] = "idle" /\ edit[w] => InRange(list[w], selected[w])

HistoryOK == book \subseteq Ids /\ harm \subseteq {"settings", "profiles", "shared"}

TypeOK == FilesOK /\ ProcessOK /\ WindowOK /\ ManagerOK /\ HistoryOK

Init ==
  /\ settingsFile = [is |-> "absent", index |-> -1, chosen |-> Blank, among |-> << >>]
  /\ profilesFile = [is |-> "absent", list |-> << >>]
  /\ pc = [w \in Windows |-> "closed"] /\ after = [w \in Windows |-> "none"]
  /\ invalidKey = [w \in Windows |-> FALSE]
  /\ lastProfileIndex = [w \in Windows |-> -1]
  /\ combo = [w \in Windows |-> << >>] /\ current = [w \in Windows |-> -1]
  /\ fields = [w \in Windows |-> Blank]
  /\ shown = [w \in Windows |-> FALSE] /\ list = [w \in Windows |-> << >>]
  /\ selected = [w \in Windows |-> -1]
  /\ edit = [w \in Windows |-> FALSE] /\ free = [w \in Windows |-> FALSE]
  /\ book = {} /\ harm = {}

-----------------------------------------------------------------------------
(* Reading the files                                                       *)

\* invalidKey is set by a decryption that fails, and never reset.
Decrypted(w, file) == invalidKey' = [invalidKey EXCEPT ![w] = @ \/ file.is = "torn"]

\* ProfileManager::GetProfiles
GetProfiles(w) ==
  IF ~invalidKey[w] /\ profilesFile.is = "whole" THEN profilesFile.list ELSE << >>

\* Mutant: the remembered index is used whatever the list.
SelectedUnchecked(s, last) ==
  IF HasDefault(s) THEN Max({n \in 0 .. Len(s) - 1 : s[n + 1].default}) ELSE last

\* The index LoadStoredProfiles selects; the last entry, Len(s), is "None".
Selected(s, last) ==
  IF HasDefault(s) THEN Max({n \in 0 .. Len(s) - 1 : s[n + 1].default})
  ELSE IF last \in 0 .. Len(s) THEN last ELSE -1

\* LoadSelectedProfile: the fields show the profile or nothing.
Entry(s, index) == IF InRange(s, index) THEN s[index + 1].id ELSE Blank

\* Mutant: the fields are left as they are.
LoadStoredQuietly(w) ==
  /\ combo' = [combo EXCEPT ![w] = GetProfiles(w)]
  /\ current' = [current EXCEPT ![w] = Selected(GetProfiles(w), lastProfileIndex[w])]
  /\ Decrypted(w, profilesFile) /\ UNCHANGED fields

\* LoadStoredProfiles.  The first entry added is selected by the combo box
\* itself, and shown in place of what the fields held, typed or not; selecting
\* none after that leaves it in the fields.
LoadStoredProfiles(w) ==
  LET s == GetProfiles(w)
      index == Selected(s, lastProfileIndex[w])
  IN  /\ combo' = [combo EXCEPT ![w] = s]
      /\ current' = [current EXCEPT ![w] = index]
      /\ fields' = [fields EXCEPT ![w] = Entry(s, IF index = -1 THEN 0 ELSE index)]
      /\ Decrypted(w, profilesFile)

-----------------------------------------------------------------------------
(* Starting and closing a window                                           *)

Go(w, from, to) == pc[w] = from /\ pc' = [pc EXCEPT ![w] = to]

\* A handler that saves a file: the rest of it runs after the save.
Save(w, handler) ==
  Go(w, "idle", "remove") /\ after' = [after EXCEPT ![w] = handler]

\* The process is gone, and what it had in memory with it.
Gone(w, how) ==
  /\ pc' = [pc EXCEPT ![w] = how] /\ after' = [after EXCEPT ![w] = "none"]
  /\ combo' = [combo EXCEPT ![w] = << >>] /\ current' = [current EXCEPT ![w] = -1]
  /\ fields' = [fields EXCEPT ![w] = Blank]
  /\ shown' = [shown EXCEPT ![w] = FALSE] /\ list' = [list EXCEPT ![w] = << >>]
  /\ selected' = [selected EXCEPT ![w] = -1]
  /\ edit' = [edit EXCEPT ![w] = FALSE] /\ free' = [free EXCEPT ![w] = FALSE]
  /\ UNCHANGED <<invalidKey, lastProfileIndex>>

\* Settings::Settings: without readable settings the defaults are saved.
Start(w) ==
  /\ ~Alive(w)
  /\ IF settingsFile.is = "whole"
     THEN pc' = [pc EXCEPT ![w] = "settings"] /\ UNCHANGED after
     ELSE /\ pc' = [pc EXCEPT ![w] = "remove"]
          /\ after' = [after EXCEPT ![w] = "start"]
  /\ lastProfileIndex' = [lastProfileIndex EXCEPT ![w] =
       IF settingsFile.is = "whole" THEN settingsFile.index ELSE -1]
  /\ invalidKey' = [invalidKey EXCEPT ![w] = settingsFile.is = "torn"]
  /\ harm' = IF \E v \in Windows \ {w} : Alive(v) THEN harm \cup {"shared"} ELSE harm
  /\ UNCHANGED <<files, window, manager, book>>

\* frmMain::frmMain reads the settings once more ...
GetSettings(w) ==
  /\ Go(w, "settings", "profiles")
  /\ Decrypted(w, settingsFile)
  /\ lastProfileIndex' = [lastProfileIndex EXCEPT ![w] =
       IF ~invalidKey[w] /\ settingsFile.is = "whole" THEN settingsFile.index ELSE @]
  /\ UNCHANGED <<files, after, window, manager, history>>

\* ... and then the profiles.
Open(w) ==
  /\ Go(w, "profiles", "idle")
  /\ LoadStoredProfiles(w)
  /\ UNCHANGED <<files, after, lastProfileIndex, manager, history>>

\* Mutant: the place of the profile in the list is saved, as in a model whose
\* first entry is "None".
ExitShifted(w) ==
  /\ ~shown[w] /\ current[w] # -1
  /\ Save(w, "exit")
  /\ lastProfileIndex' = [lastProfileIndex EXCEPT ![w] = current[w] + 1]
  /\ UNCHANGED <<files, invalidKey, window, manager, history>>

\* frmMain::~frmMain, once all windows are closed: the selected index is saved.
Exit(w) ==
  /\ ~shown[w] /\ current[w] # -1
  /\ Save(w, "exit")
  /\ lastProfileIndex' = [lastProfileIndex EXCEPT ![w] = current[w]]
  /\ UNCHANGED <<files, invalidKey, window, manager, history>>

ExitUnselected(w) ==
  /\ pc[w] = "idle" /\ ~shown[w] /\ current[w] = -1
  /\ Gone(w, "closed")
  /\ UNCHANGED <<files, history>>

-----------------------------------------------------------------------------
(* The combo box of the main window                                        *)

\* eventFilter: a press reads the profiles again, and selects what was
\* remembered when the window was opened.
Press(w) ==
  /\ Go(w, "idle", "idle")
  /\ LoadStoredProfiles(w)
  /\ UNCHANGED <<files, after, lastProfileIndex, manager, history>>

Pick(w, index) ==
  /\ Go(w, "idle", "idle")
  /\ index \in 0 .. Len(combo[w]) /\ index # current[w]
  /\ current' = [current EXCEPT ![w] = index]
  /\ fields' = [fields EXCEPT ![w] = Entry(combo[w], index)]
  /\ UNCHANGED <<files, after, invalidKey, lastProfileIndex, combo, manager, history>>

\* The user types in the host, port or password field.  They are enabled while
\* the window is not connected, which is not modelled: it may be whenever.
EditFields(w) ==
  /\ Go(w, "idle", "idle")
  /\ fields' = [fields EXCEPT ![w] = Edited]
  /\ UNCHANGED <<files, after, invalidKey, lastProfileIndex, combo, current, manager, history>>

-----------------------------------------------------------------------------
(* The profile manager                                                     *)

\* Mutant: the default box is always enabled.
LoadProfileFree(w, s, index) ==
  /\ selected' = [selected EXCEPT ![w] = index]
  /\ edit' = [edit EXCEPT ![w] = TRUE]
  /\ free' = [free EXCEPT ![w] = TRUE]

\* LoadProfile of an index in range: the fields are enabled, and the default
\* box unless another profile is the default.
LoadProfile(w, s, index) ==
  /\ selected' = [selected EXCEPT ![w] = index]
  /\ edit' = [edit EXCEPT ![w] = TRUE]
  /\ free' = [free EXCEPT ![w] = s[index + 1].default \/ ~HasDefault(s)]

NoProfile(w) ==
  /\ edit' = [edit EXCEPT ![w] = FALSE] /\ free' = [free EXCEPT ![w] = FALSE]

\* A new manager, in place of the one there was.
ViewProfileManager(w) ==
  /\ Go(w, "idle", "idle")
  /\ shown' = [shown EXCEPT ![w] = TRUE]
  /\ list' = [list EXCEPT ![w] = GetProfiles(w)]
  /\ IF GetProfiles(w) # << >>
     THEN LoadProfile(w, GetProfiles(w), 0)
     ELSE selected' = [selected EXCEPT ![w] = -1] /\ NoProfile(w)
  /\ Decrypted(w, profilesFile)
  /\ UNCHANGED <<files, after, lastProfileIndex, window, history>>

\* A closed manager is not used again: the next view makes another.
CloseManager(w) ==
  /\ shown[w] /\ Go(w, "idle", "idle")
  /\ shown' = [shown EXCEPT ![w] = FALSE] /\ list' = [list EXCEPT ![w] = << >>]
  /\ selected' = [selected EXCEPT ![w] = -1] /\ NoProfile(w)
  /\ UNCHANGED <<files, after, invalidKey, lastProfileIndex, window, history>>

\* OnProfileItemClick and OnProfileItemChange
ChooseItem(w, index) ==
  /\ shown[w] /\ InRange(list[w], index) /\ Go(w, "idle", "idle")
  /\ LoadProfile(w, list[w], index)
  /\ UNCHANGED <<files, after, invalidKey, lastProfileIndex, window, shown, list, history>>

Known == {profilesFile.list[n].id : n \in DOMAIN profilesFile.list}
         \cup UNION {{list[w][n].id : n \in DOMAIN list[w]} : w \in Windows}

AddNewProfile(w, id) ==
  /\ shown[w] /\ id \notin Known \cup book
  /\ Save(w, "add")
  /\ list' = [list EXCEPT ![w] = Append(@, [id |-> id, default |-> FALSE])]
  /\ book' = book \cup {id}
  /\ UNCHANGED <<files, invalidKey, lastProfileIndex, window, shown, selected, edit, free, harm>>

\* The button is enabled with the fields.
DeleteProfile(w) ==
  /\ shown[w] /\ edit[w]
  /\ Save(w, "delete")
  /\ list' = [list EXCEPT ![w] = RemoveAt(@, selected[w] + 1)]
  /\ book' = book \ {Entry(list[w], selected[w])}
  /\ UNCHANGED <<files, invalidKey, lastProfileIndex, window, shown, selected, edit, free, harm>>

\* The default box keeps its state while it is disabled.
SaveProfile(w) ==
  /\ shown[w] /\ edit[w]
  /\ Save(w, "save")
  /\ \E box \in BOOLEAN :
       /\ free[w] \/ box = list[w][selected[w] + 1].default
       /\ list' = [list EXCEPT ![w][selected[w] + 1].default = box]
  /\ UNCHANGED <<files, invalidKey, lastProfileIndex, window, shown, selected, edit, free, history>>

-----------------------------------------------------------------------------
(* Saving, EncryptSettingsFile, and the rest of the handler                *)

\* What the file that w saves becomes.
Becomes(w, is) ==
  IF SavesSettings(w)
  THEN /\ settingsFile' =
            IF is = "whole"
            THEN [is |-> is, index |-> lastProfileIndex[w],
                  chosen |-> Entry(combo[w], current[w]), among |-> combo[w]]
            ELSE [is |-> is, index |-> -1, chosen |-> Blank, among |-> << >>]
       /\ UNCHANGED profilesFile
  ELSE /\ profilesFile' = [is |-> is, list |-> IF is = "whole" THEN list[w] ELSE << >>]
       /\ UNCHANGED settingsFile

Harmed(w) == harm' = harm \cup {IF SavesSettings(w) THEN "settings" ELSE "profiles"}

\* Where the handler goes on.
Resume(w) ==
  CASE after[w] = "start" -> "settings"
    [] after[w] = "exit" -> "closed"
    [] OTHER -> "reload"

Saved(w, from) ==
  IF after[w] = "exit"
  THEN pc[w] = from /\ Gone(w, "closed")
  ELSE Go(w, from, Resume(w)) /\ UNCHANGED <<after, invalidKey, lastProfileIndex, window, manager>>

RemoveFile(w) ==
  /\ Go(w, "remove", "open")
  /\ Becomes(w, "absent")
  /\ UNCHANGED <<after, invalidKey, lastProfileIndex, window, manager, history>>

OpenFile(w) ==
  /\ Go(w, "open", "write")
  /\ Becomes(w, "empty")
  /\ UNCHANGED <<after, invalidKey, lastProfileIndex, window, manager, history>>

\* FALSE is returned, and no caller looks at it.
OpenFails(w) ==
  /\ "open" \in Faults
  /\ Saved(w, "open")
  /\ Harmed(w)
  /\ UNCHANGED <<files, book>>

WriteFile(w) ==
  /\ Saved(w, "write")
  /\ Becomes(w, "whole")
  /\ UNCHANGED history

\* Nothing or a part is written, when the disk is full; nobody looks.
WriteFails(w) ==
  /\ "write" \in Faults
  /\ \E is \in {"empty", "torn"} : Becomes(w, is)
  /\ Saved(w, "write")
  /\ Harmed(w) /\ UNCHANGED book

\* A process is killed, in the middle of a save perhaps.  A machine that stops
\* is not modelled: nothing calls fsync(), so it may undo a save that returned.
Kill(w) ==
  /\ "kill" \in Faults /\ Alive(w)
  /\ Gone(w, "closed")
  /\ IF Saving(w)
     THEN /\ Harmed(w)
          /\ \/ UNCHANGED files
             \/ pc[w] = "write" /\ Becomes(w, "torn")
     ELSE UNCHANGED <<files, harm>>
  /\ UNCHANGED book

\* Mutant: the index stays when the profile at it was deleted.
ReturnsSame(w) == IF after[w] = "delete" /\ GetProfiles(w) = << >> THEN -1 ELSE selected[w]

\* The index that AddNewProfile, DeleteProfile and SaveProfile go back to in
\* the list they have read again; -1 for none.
Returns(w) ==
  CASE after[w] # "delete" -> selected[w]
    [] after[w] = "delete" /\ GetProfiles(w) = << >> -> -1
    [] after[w] = "delete" /\ GetProfiles(w) # << >> ->
         IF selected[w] = 0 THEN 0 ELSE selected[w] - 1

Reload(w) ==
  /\ Go(w, "reload", "idle")
  /\ list' = [list EXCEPT ![w] = GetProfiles(w)]
  /\ IF Returns(w) = -1
     THEN UNCHANGED selected /\ NoProfile(w)
     ELSE InRange(GetProfiles(w), Returns(w)) /\ LoadProfile(w, GetProfiles(w), Returns(w))
  /\ after' = [after EXCEPT ![w] = "none"]
  /\ Decrypted(w, profilesFile)
  /\ UNCHANGED <<files, lastProfileIndex, window, shown, history>>

\* item() returns no item for an index that is not in the list.
ReloadOutOfRange(w) ==
  /\ pc[w] = "reload"
  /\ Returns(w) # -1 /\ ~InRange(GetProfiles(w), Returns(w))
  /\ Gone(w, "dead")
  /\ UNCHANGED <<files, history>>

-----------------------------------------------------------------------------
(* The specification                                                       *)

User(w) ==
  \/ Start(w) \/ Exit(w) \/ ExitUnselected(w)
  \/ Press(w) \/ (\E index \in 0 .. Len(combo[w]) : Pick(w, index)) \/ EditFields(w)
  \/ ViewProfileManager(w) \/ CloseManager(w)
  \/ (\E index \in 0 .. Len(list[w]) : ChooseItem(w, index))
  \/ (\E id \in Ids : AddNewProfile(w, id)) \/ DeleteProfile(w) \/ SaveProfile(w)

Handler(w) ==
  \/ GetSettings(w) \/ Open(w)
  \/ RemoveFile(w) \/ OpenFile(w) \/ OpenFails(w) \/ WriteFile(w) \/ WriteFails(w)
  \/ Reload(w) \/ ReloadOutOfRange(w)

Next == \E w \in Windows : User(w) \/ Handler(w) \/ Kill(w)

Spec == Init /\ [][Next]_vars
=============================================================================
