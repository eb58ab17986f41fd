------------------------------ MODULE Session -------------------------------
(***************************************************************************)
(* One user's runs of the program, one after the other: how main           *)
(* (src/src/main.rs) starts, publishes, loads and saves, how it may end at *)
(* any point, and what the next run finds.                                 *)
(*                                                                         *)
(* The supervisor is a task of its own and interleaves with everything     *)
(* main does after it was spawned; saving a file blocks main, not the      *)
(* supervisor.                                                             *)
(***************************************************************************)
EXTENDS Onion, Contacts

VARIABLE phase   \* where main is

vars == <<onionVars, contactVars, phase>>

\* After the supervisor was spawned.
Published == phase \in {"load", "ui", "save", "write"}

TypeOK ==
  /\ OnionTypeOK
  /\ IsBook(book)
  /\ bookFile \in {Absent, Torn} \/ IsBook(bookFile)
  /\ failed \in BOOLEAN
  /\ DOMAIN meant \subseteq Name /\ meant \in [DOMAIN meant -> Onion]
  /\ phase \in {"off", "saveKey", "writeKey", "publish", "load", "ui", "save", "write"}

Init == OnionInit /\ ContactsInit /\ phase = "off"

Main(from, to) == phase = from /\ phase' = to

Start ==
  \/ Main("off", "publish") /\ LoadKey /\ UNCHANGED contactVars
  \/ Main("off", "saveKey") /\ GenerateKey /\ UNCHANGED contactVars

\* Fault: the new key is not saved.
SaveKeySkipped == Main("saveKey", "publish") /\ UNCHANGED <<onionVars, contactVars>>

SaveKey ==
  \/ Main("saveKey", "writeKey") /\ OpenKeyFile /\ UNCHANGED contactVars
  \/ Main("writeKey", "publish") /\ WriteKeyFile /\ UNCHANGED contactVars

\* The supervisor is spawned with the connection.
Publish == Main("publish", "load") /\ connect_and_publish /\ UNCHANGED contactVars

LoadContacts == Main("load", "ui") /\ LoadBook /\ UNCHANGED onionVars

AddContact ==
  /\ Main("ui", "save")
  /\ \E n \in Name, o \in Onion : \E typed \in Spelling(o) : add_contact(n, o, typed)
  /\ UNCHANGED onionVars

\* Fault: the book is saved only when a contact is added.
RemoveUnsaved ==
  /\ phase = "ui"
  /\ \E n \in Name :
       /\ n \in DOMAIN book
       /\ book' = [m \in DOMAIN book \ {n} |-> book[m]]
       /\ meant' = [m \in DOMAIN meant \ {n} |-> meant[m]]
  /\ UNCHANGED <<bookFile, failed, phase, onionVars>>

RemoveContact ==
  /\ Main("ui", "save")
  /\ \E n \in Name : remove_contact(n)
  /\ UNCHANGED onionVars

\* PersistContacts
SaveContacts ==
  \/ Main("save", "write") /\ OpenBookFile /\ UNCHANGED onionVars
  \/ Main("write", "ui") /\ WriteBookFile /\ UNCHANGED onionVars

Saving == phase \in {"save", "write"}

\* "could not save contacts": the program goes on with what it has.
SaveFails ==
  /\ Saving
  /\ phase' = "ui"
  /\ failed' = TRUE
  /\ UNCHANGED <<onionVars, book, bookFile, meant>>

Supervise == Published /\ supervise /\ UNCHANGED <<contactVars, phase>>

\* An error of the start, the user's quitting, a crash, a kill: what the
\* process held is gone, and what it wrote stays.
Exit ==
  /\ phase # "off"
  /\ phase' = "off"
  /\ TearDown
  /\ book' = EmptyBook
  /\ failed' = (failed \/ Saving)
  /\ UNCHANGED <<bookFile, meant>>

Tor == (TorStarts \/ ConnectionDies) /\ UNCHANGED <<contactVars, phase>>

Rotate == phase = "off" /\ DeleteKey /\ UNCHANGED <<contactVars, phase>>

Next ==
  \/ Start
  \/ SaveKey
  \/ Publish
  \/ LoadContacts
  \/ AddContact
  \/ RemoveContact
  \/ SaveContacts
  \/ SaveFails
  \/ Supervise
  \/ Exit
  \/ Tor
  \/ Rotate

\* The supervisor's timer fires; of attempts every few seconds at a Tor that is
\* up again and again, one succeeds.
Fairness ==
  /\ WF_vars(Probe /\ Supervise)
  /\ SF_vars(Republish /\ Supervise)

Spec == Init /\ [][Next]_vars /\ Fairness

-----------------------------------------------------------------------------
(* Properties.                                                             *)

\* The address is stable: whatever fails or crashes, an address that was ever
\* published is the one in the file, which every later run publishes, until
\* the user deletes it.  In particular no key is published before it is saved
\* and none is overwritten.
AddressIsStable == \A k \in announced : keyFile = k

\* What a restart would load is the book on the screen, whatever was added and
\* removed in this run and the ones before: no change goes unsaved, and the two
\* differ only after a save or a load failed, of which the user was told, and
\* until a save succeeds.
BookMatchesFile == phase = "ui" /\ ~failed => Loaded(bookFile) = book

\* Across restarts, crashes and however it was spelled: dialing a name dials
\* the onion it was given (in this run or an earlier one, if what followed did
\* not fail to save it), and an onion is labelled with a name given to it
\* whenever there is one.
NamesAreRight ==
  phase = "ui" =>
    /\ DOMAIN book = DOMAIN meant
    /\ \A n \in DOMAIN meant : Dialed(<<n>>) = <<meant[n]>>
    /\ \A o \in Onion : \A typed \in Spelling(o) :
         LET given == {n \in DOMAIN meant : meant[n] = o}
         IN  given # {} => display_name(typed) = {<<n>> : n \in given}

\* While the program and Tor run, the onion is published again after every
\* loss of the control connection.
OnionComesBack ==
  <>[](Published /\ tor) => []<>(service # NoKey)
=============================================================================
