------------------------------ MODULE FileStore ------------------------------
(***************************************************************************)
(* What the calls of fs/simplefs.h promise: a set of numbered files, each  *)
(* with its contents, no blocks, bitmaps or disk.  A directory is a file   *)
(* of entries <<name, file>>.  A call changes the file it is about, and    *)
(* the current directory when it adds or removes a name; every other file  *)
(* stays as it is, whatever happens.                                       *)
(***************************************************************************)
EXTENDS Naturals, Sequences

CONSTANTS FILES, ROOT, NAMES, DATA, ZERO

VARIABLES
  store,   \* file -> [type, data]; type "free": no such file, "unknown": damaged
  cwd,     \* the current directory
  fds      \* open files: [used, inode_index, offset]

Free == [type |-> "free", data |-> <<>>]
Unknown == [type |-> "unknown", data |-> <<>>]
Regular(data) == [type |-> "regular", data |-> data]
Directory(data) == [type |-> "directory", data |-> data]
Dots(d, parent) == <<<<".", d>>, <<"..", parent>>>>

\* Something is damaged: nothing but mounting and mkfs is promised.
Sound == \A f \in FILES : store[f].type # "unknown"

EntriesOf(d) == IF store[d].type = "directory" THEN store[d].data ELSE <<>>
Names(f, name) == \E k \in DOMAIN EntriesOf(cwd) : EntriesOf(cwd)[k] = <<name, f>>
Taken(name) == \E f \in FILES : Names(f, name)
Without(entries, k) == [p \in 1 .. Len(entries) - 1 |-> IF p < k THEN entries[p] ELSE entries[p + 1]]

Init == store = [f \in FILES |-> Free] /\ cwd = ROOT /\ \A fd \in DOMAIN fds : ~fds[fd].used

\* A call is refused, or it reads, moves an offset or the current directory.
Refused == UNCHANGED <<cwd, fds, store>>
ChangeDir ==
  /\ UNCHANGED fds /\ UNCHANGED store
  /\ cwd' = ROOT \/ (store[cwd'].type = "directory" /\ \E name \in NAMES \cup {".", ".."} : Names(cwd', name))
Descriptor ==
  /\ UNCHANGED cwd /\ UNCHANGED store
  /\ \E fd \in DOMAIN fds :
       /\ \A other \in DOMAIN fds \ {fd} : fds'[other] = fds[other]
       /\ fds'[fd].used => /\ store[fds'[fd].inode_index].type = "regular"
                           /\ \/ fds[fd].used /\ fds'[fd].inode_index = fds[fd].inode_index
                              \/ ~fds[fd].used /\ fds'[fd].offset = 0

\* The contents are replaced, extended, or lost because the disk is full.  When
\* it is full does not follow from the files, as blocks may leak; so the store
\* allows the loss at any time.
Changed(old, new) ==
  \/ new = <<>>
  \/ new \in DATA
  \/ \E data \in DATA : new = old \o data
Rewrite(f) ==
  /\ store[f].type = "regular"
  /\ Changed(store[f].data, store'[f].data)
  /\ store' = [store EXCEPT ![f].data = store'[f].data]
  /\ UNCHANGED <<cwd, fds>>

\* The contents at the offset are replaced, a hole before them is zero.
Put(old, offset, data, new) ==
  /\ Len(new) = IF offset + Len(data) > Len(old) THEN offset + Len(data) ELSE Len(old)
  /\ \A p \in DOMAIN new : new[p] = IF p > offset /\ p <= offset + Len(data) THEN data[p - offset]
                                    ELSE IF p <= Len(old) THEN old[p] ELSE ZERO
WriteFd(fd) ==
  LET f == fds[fd].inode_index IN
  /\ fds[fd].used /\ store[f].type = "regular"
  /\ \E data \in DATA :
       /\ fds' = [fds EXCEPT ![fd].offset = @ + Len(data)]
       /\ Put(store[f].data, fds[fd].offset, data, store'[f].data)
  /\ store' = [store EXCEPT ![f].data = store'[f].data]
  /\ UNCHANGED cwd

\* The files with a new entry in the current directory.
Entered(files, name, f) == [files EXCEPT ![cwd].data = Append(@, <<name, f>>)]

\* A new name in the current directory; write may fill the file at once.
NewFile(f, name, data) ==
  /\ store[f].type = "free" /\ store[cwd].type = "directory" /\ ~Taken(name)
  /\ store' = Entered([store EXCEPT ![f] = Regular(data)], name, f)
  /\ UNCHANGED <<cwd, fds>>

(***************************************************************************)
(* mkdir asks for a directory to put the name in after it has made the new *)
(* one: when the current directory was removed, the new directory may take *)
(* its number and be its own parent.                                       *)
(***************************************************************************)
NewDirectory(f, name) ==
  /\ store[f].type = "free" /\ ~Taken(name)
  /\ store[cwd].type = "directory" \/ f = cwd
  /\ store' = Entered([store EXCEPT ![f] = Directory(Dots(f, cwd))], name, f)
  /\ UNCHANGED <<cwd, fds>>

\* A name is removed with its file, which is not open, or its empty directory.
Drop(f, name) ==
  /\ f # ROOT
  /\ \/ store[f].type = "regular" /\ \A fd \in DOMAIN fds : ~(fds[fd].used /\ fds[fd].inode_index = f)
     \/ store[f].type = "directory" /\ \A k \in DOMAIN store[f].data : store[f].data[k][1] \in {".", ".."}
  /\ \E k \in DOMAIN EntriesOf(cwd) :
       /\ EntriesOf(cwd)[k] = <<name, f>>
       /\ store' = [store EXCEPT ![cwd].data = Without(@, k), ![f] = Free]
  /\ UNCHANGED <<cwd, fds>>

\* The disk is full: a directory that had to grow or move has lost its entries.
DirectoryLost == UNCHANGED <<cwd, fds>> /\ store' = [store EXCEPT ![cwd].data = <<>>]

Format ==
  /\ store' = [f \in FILES |-> IF f = ROOT THEN Directory(Dots(ROOT, ROOT)) ELSE Free]
  /\ cwd' = ROOT /\ \A fd \in DOMAIN fds' : ~fds'[fd].used

\* The machine starts again: what was on the disk is there, nothing is open.
Reboot == UNCHANGED store /\ cwd' = ROOT /\ \A fd \in DOMAIN fds' : ~fds'[fd].used

\* A failure of the disk, or a stop, damages only files the call was changing:
\* a file and the directory that names it; mkfs was changing all of them.
Damage ==
  LET lost == {f \in FILES : store'[f].type = "unknown"} IN
  /\ lost = FILES \/ \E f \in FILES : lost \subseteq {f, cwd}
  /\ \A f \in FILES \ lost : store'[f] = store[f]
  /\ \/ UNCHANGED <<cwd, fds>>
     \/ cwd' = ROOT /\ \A fd \in DOMAIN fds' : ~fds'[fd].used

Next ==
  \/ Refused
  \/ /\ Sound
     /\ \/ Damage \/ ChangeDir \/ Descriptor \/ DirectoryLost
        \/ \E fd \in DOMAIN fds : WriteFd(fd)
        \/ \E f \in FILES :
             \/ Rewrite(f)
             \/ \E name \in NAMES :
                  \/ NewDirectory(f, name)
                  \/ \E data \in DATA \cup {<<>>} : NewFile(f, name, data)
             \/ \E name \in NAMES \cup {".", ".."} : Drop(f, name)
  \/ Reboot \/ Format

Spec == Init /\ [][Next]_<<store, cwd, fds>>
=============================================================================
