------------------------------ MODULE FileOffload ------------------------------
(***************************************************************************)
(* The files of a brain and their way into cloud storage and back: gbrain  *)
(* files mirror, unmirror, redirect, restore and clean (commands/files.ts).*)
(* Each is a loop over what it found when it began, with awaits in it;     *)
(* people edit the files meanwhile, and the process may die anywhere.      *)
(*                                                                         *)
(* x.redirect.yaml stands for x, and is a file like any other to mirror    *)
(* and redirect: an entry <<x, n>> is x with n such suffixes.              *)
(***************************************************************************)
EXTENDS Naturals

CONSTANTS
    File,           \* paths of files
    Text,           \* what people write into them
    Depth           \* bound: suffixes a name has

ASSUME FilesAssumption == Depth \in Nat \ {0} /\ Text \intersect {"none", "pointer"} = {}

VARIABLES
    disk,           \* by entry
    remote,         \* the bucket, by entry
    marker,         \* the directory's .supabase file
    storage,        \* a storage backend is configured
    command,        \* the command under way
    wanted,         \* history: the text that people last saved, "none" when they removed the file
    excused         \* history: files that were edited after an upload, redirected unchecked, or cleaned

fileVars == <<disk, remote, marker, storage, command, wanted, excused>>

Entry == File \X (0..Depth)
Suffixed(e) == <<e[1], e[2] + 1>>
Stem(e) == <<e[1], e[2] - 1>>
NoCommand == [verb |-> "none", todo |-> {}, at |-> <<>>, held |-> "none"]

FilesInit ==
    /\ \E text \in [File -> Text] :
         /\ disk = [e \in Entry |-> IF e[2] = 0 THEN text[e[1]] ELSE "none"]
         /\ wanted = text
    /\ remote = [e \in Entry |-> "none"] /\ marker = FALSE /\ storage = TRUE
    /\ command = NoCommand /\ excused = {}

\* What the commands walk over: collectFiles, findRedirects and findAndClean.
collectFiles == {e \in Entry : disk[e] # "none"}
findRedirects == {e \in collectFiles : e[2] > 0}
Uploading(f) == command.verb = "mirror" /\ command.at = <<f, 0>>

-----------------------------------------------------------------------------
(* People.                                                                 *)

Save(f, text) ==
    /\ disk[<<f, 0>>] # text
    /\ disk' = [disk EXCEPT ![<<f, 0>>] = text] /\ wanted' = [wanted EXCEPT ![f] = text]
    /\ excused' = IF remote[<<f, 0>>] # "none" \/ Uploading(f) THEN excused \union {f} ELSE excused
    /\ UNCHANGED <<remote, marker, storage, command>>

Remove(f) == disk[<<f, 0>>] # "none" /\ Save(f, "none")

Configure ==
    /\ command = NoCommand /\ storage' = ~storage
    /\ UNCHANGED <<disk, remote, marker, command, wanted, excused>>

-----------------------------------------------------------------------------
(* The commands.                                                           *)

Begin(verb) ==
    /\ command = NoCommand
    /\ verb \in {"mirror", "restore"} => storage
    /\ verb = "redirect" => marker
    /\ command' = [NoCommand EXCEPT !.verb = verb,
                     !.todo = CASE verb = "mirror" -> collectFiles
                                [] verb = "redirect" -> {e \in collectFiles : e[2] < Depth}
                                [] OTHER -> findRedirects]
    /\ UNCHANGED <<disk, remote, marker, storage, wanted, excused>>

\* The awaited call about an entry, and what is known when it is sent: mirror has read the file,
\* redirect has hashed it and asks for the object, restore reads the object.
Taken(e) ==
    /\ command.at = <<>> /\ e \in command.todo /\ disk[e] # "none"
    /\ command' = [command EXCEPT !.at = e, !.held = IF command.verb = "restore" THEN remote[Stem(e)] ELSE disk[e]]
    /\ UNCHANGED <<disk, remote, marker, storage, wanted>>

\* Mutant of TakeToRedirect: it does not ask.
TakeUnasked(e) ==
    /\ command.verb = "redirect" /\ Taken(e)
    /\ excused' = IF ~storage /\ remote[e] = "none" THEN excused \union {e[1]} ELSE excused
TakeToRedirect(e) ==
    /\ command.verb = "redirect" /\ Taken(e)
    /\ storage => remote[e] # "none"
    /\ excused' = IF ~storage /\ remote[e] = "none" THEN excused \union {e[1]} ELSE excused

Take(e) ==
    /\ command.verb \in {"mirror", "restore"} /\ Taken(e)
    /\ command.verb = "restore" => remote[Stem(e)] # "none"
    /\ UNCHANGED excused

\* Not found in the bucket: the entry is skipped, or its restore has failed.
Skip(e) ==
    /\ command.at = <<>> /\ e \in command.todo
    /\ \/ command.verb = "redirect" /\ storage /\ remote[e] = "none"
       \/ command.verb = "restore" /\ remote[Stem(e)] = "none"
    /\ command' = [command EXCEPT !.todo = @ \ {e}]
    /\ UNCHANGED <<disk, remote, marker, storage, wanted, excused>>

Done == command' = [command EXCEPT !.todo = @ \ {command.at}, !.at = <<>>, !.held = "none"]

Upload ==
    LET e == command.at IN
    /\ command.verb = "mirror" /\ e # <<>>
    /\ remote' = [remote EXCEPT ![e] = command.held]
    /\ excused' = IF e[2] = 0 /\ command.held = wanted[e[1]] /\ disk[e] = command.held
                  THEN excused \ {e[1]} ELSE excused
    /\ Done /\ UNCHANGED <<disk, marker, storage, wanted>>

\* The pointer is written, and only then the original removed.
WritePointer ==
    LET e == command.at IN
    /\ command.verb = "redirect" /\ e # <<>> /\ disk[e] # "none"
    /\ disk' = [disk EXCEPT ![Suffixed(e)] = "pointer"]
    /\ command' = [command EXCEPT !.verb = "unlink"]
    /\ UNCHANGED <<remote, marker, storage, wanted, excused>>

Unlink ==
    LET e == command.at IN
    /\ command.verb = "unlink"
    /\ disk' = [disk EXCEPT ![e] = "none"]
    /\ command' = [command EXCEPT !.verb = "redirect", !.todo = @ \ {e}, !.at = <<>>, !.held = "none"]
    /\ UNCHANGED <<remote, marker, storage, wanted, excused>>

\* The same for restore: the original first, whatever is there, then the pointer goes.
WriteOriginal ==
    LET e == command.at IN
    /\ command.verb = "restore" /\ e # <<>> /\ disk[Stem(e)] # command.held
    /\ disk' = [disk EXCEPT ![Stem(e)] = command.held]
    /\ UNCHANGED <<remote, marker, storage, command, wanted, excused>>

UnlinkPointer ==
    LET e == command.at IN
    /\ command.verb = "restore" /\ e # <<>> /\ disk[Stem(e)] = command.held
    /\ disk' = [disk EXCEPT ![e] = "none"]
    /\ Done /\ UNCHANGED <<remote, marker, storage, wanted, excused>>

Clean(e) ==
    /\ command.verb = "clean" /\ e \in command.todo
    /\ disk' = [disk EXCEPT ![e] = "none"] /\ excused' = excused \union {e[1]}
    /\ command' = [command EXCEPT !.todo = @ \ {e}]
    /\ UNCHANGED <<remote, marker, storage, wanted>>

\* A command ends; mirror leaves its marker only now.
Finish ==
    /\ command.verb # "none" /\ command.todo = {}
    /\ marker' = (marker \/ command.verb = "mirror")
    /\ command' = NoCommand
    /\ UNCHANGED <<disk, remote, storage, wanted, excused>>

unmirror ==
    /\ command = NoCommand /\ marker /\ marker' = FALSE
    /\ UNCHANGED <<disk, remote, storage, command, wanted, excused>>

\* An entry has gone, the network fails, or the process dies.
FilesDie ==
    /\ command # NoCommand /\ command' = NoCommand
    /\ UNCHANGED <<disk, remote, marker, storage, wanted, excused>>

FilesNext ==
    \/ \E f \in File : Remove(f) \/ \E text \in Text : Save(f, text)
    \/ \E verb \in {"mirror", "redirect", "restore", "clean"} : Begin(verb)
    \/ \E e \in Entry : Take(e) \/ TakeToRedirect(e) \/ Skip(e) \/ Clean(e)
    \/ Configure \/ Upload \/ WritePointer \/ Unlink \/ WriteOriginal \/ UnlinkPointer
    \/ Finish \/ unmirror \/ FilesDie

FilesSpec == FilesInit /\ [][FilesNext]_fileVars

-----------------------------------------------------------------------------
(* Properties.                                                             *)

\* A pointer on disk leads back to an entry when the bucket has that entry, and so on down to the text.
LeadsTo(f, n) == \A k \in 0..(n - 1) : remote[<<f, k>>] = IF k = 0 THEN wanted[f] ELSE "pointer"

\* What people last saved is never lost, whatever dies on the way: the file is there, or a pointer
\* from which restores bring it back.  Not so for a file that was edited after its upload (redirect
\* asks only whether the object exists), that redirect removed unasked because no backend was
\* configured, or whose pointers were cleaned.
TextRestorable ==
    \A f \in File \ excused : wanted[f] # "none" =>
        \/ disk[<<f, 0>>] = wanted[f]
        \/ \E n \in 1..Depth : disk[<<f, n>>] = "pointer" /\ LeadsTo(f, n)
================================================================================
