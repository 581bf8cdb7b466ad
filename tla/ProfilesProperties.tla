-------------------------- MODULE ProfilesProperties --------------------------
(* What the windows and the files of module Profiles guarantee.            *)
EXTENDS Profiles

\* Whatever windows do to the files at the same time, and whatever of a save
\* is lost, two profiles are never the default: neither in the file nor in a
\* list in memory, although each window only looks at its own list.
AtMostOne(s) == \A m, n \in DOMAIN s : s[m].default /\ s[n].default => m = n
OneDefault ==
  /\ AtMostOne(profilesFile.list)
  /\ \A w \in Windows : AtMostOne(list[w]) /\ AtMostOne(combo[w])

\* What would be connected to is what the combo box names, or what the user has
\* typed since it was selected, but never another profile: list, index and
\* fields are not out of step, through edits in the manager and reloads.
FieldsFollow ==
  \A w \in Windows :
    pc[w] = "idle" /\ current[w] # -1 => fields[w] \in {Entry(combo[w], current[w]), Edited}

\* Without a save that failed and with one window at a time the file has
\* exactly the profiles made and not deleted, and the manager never uses an
\* index that is not in its list.
Stored == {profilesFile.list[n].id : n \in DOMAIN profilesFile.list}
Kept ==
  harm = {} =>
    /\ \A w \in Windows : pc[w] # "dead"
    /\ (\A w \in Windows : Saving(w) => SavesSettings(w)) => Stored = book

\* The selection is restored if the list did not change after it was shown.
Opened(w) == pc[w] = "profiles" /\ pc'[w] = "idle"
Restores ==
  [][\A w \in Windows :
       /\ Opened(w) /\ harm = {} /\ ~HasDefault(profilesFile.list)
       /\ settingsFile.index # -1 /\ settingsFile.among = profilesFile.list
       => fields'[w] = settingsFile.chosen]_vars
===============================================================================
