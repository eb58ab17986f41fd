------------------------------ MODULE Contacts ------------------------------
(***************************************************************************)
(* The address book: the map in memory with the commands on it (app.rs),   *)
(* its file (contacts.rs), and the way from what a user types to an        *)
(* address (normalize_onion of tor.rs).                                    *)
(*                                                                         *)
(* Typed text is a sequence of words: names, onion service ids, and for    *)
(* the rest of an address "suffix" (.onion), "colon", "port" and "space"   *)
(* (a run of spaces).                                                      *)
(***************************************************************************)
EXTENDS Files, Integers, Sequences, Functions

CONSTANTS
  Name,    \* contact names
  Onion    \* onion service ids

Word == Name \cup Onion \cup {"suffix", "colon", "port", "space"}

ASSUME ContactsAssumption ==
  /\ Name \cap Onion = {}
  /\ (Name \cup Onion) \cap {"suffix", "colon", "port", "space"} = {}
  /\ \A S \in SUBSET Name : {Absent, Torn} \cap [S -> Seq(Word)] = {}

VARIABLES
  book,      \* name -> service id, the map of the running process
  bookFile,  \* the contacts file
  failed,    \* history: the last save failed or was cut off, or the file
             \* could not be read, and nothing was saved since
  meant      \* history: name -> the onion the user gave it

contactVars == <<book, bookFile, failed, meant>>

IsBook(b) == DOMAIN b \subseteq Name /\ b \in [DOMAIN b -> Seq(Word)]

EmptyBook == [n \in {} |-> <<>>]

\* What users type for an onion: bare or suffixed, a port, spaces around.
Unpadded(o) ==
  {<<o>>, <<o, "suffix">>, <<o, "colon", "port">>, <<o, "suffix", "colon", "port">>}

Spelling(o) == Unpadded(o) \cup {<<"space">> \o s \o <<"space">> : s \in Unpadded(o)}

-----------------------------------------------------------------------------
(* normalize_onion.                                                        *)

TrimStart(s) == IF s # <<>> /\ s[1] = "space" THEN SubSeq(s, 2, Len(s)) ELSE s
TrimEnd(s) == IF s # <<>> /\ s[Len(s)] = "space" THEN SubSeq(s, 1, Len(s) - 1) ELSE s
Trim(s) == TrimEnd(TrimStart(s))

\* The part before the first colon.
BeforeColon(s) ==
  LET colons == {i \in DOMAIN s : s[i] = "colon"}
  IN  IF colons = {} THEN s
      ELSE SubSeq(s, 1, (CHOOSE i \in colons : \A j \in colons : i <= j) - 1)

StripSuffix(s) ==
  IF s # <<>> /\ s[Len(s)] = "suffix" THEN SubSeq(s, 1, Len(s) - 1) ELSE s

\* Fault: the suffix is looked for before the port is dropped.
normalize_suffix_first(s) == BeforeColon(StripSuffix(Trim(s)))

normalize_onion(s) == StripSuffix(BeforeColon(Trim(s)))

-----------------------------------------------------------------------------
(* The book.                                                               *)

\* contacts::load, with main's fallback: a missing file is an empty book, one
\* that does not parse is, after a warning, too.
Loaded(file) == IF file \in {Absent, Torn} THEN EmptyBook ELSE file

\* /connect: a saved name, or else the argument itself; the dialer normalizes.
Resolve(arg) == IF Len(arg) = 1 /\ arg[1] \in DOMAIN book THEN book[arg[1]] ELSE arg
Dialed(arg) == normalize_onion(Resolve(arg))

\* display_name: some name with the address, whichever the map yields first;
\* the shortened address, here the address, if there is none.
display_name(a) ==
  LET names == {n \in DOMAIN book : book[n] = normalize_onion(a)}
  IN  IF names = {} THEN {a} ELSE {<<n>> : n \in names}

ContactsInit ==
  /\ book = EmptyBook
  /\ bookFile = Absent
  /\ failed = FALSE
  /\ meant = [n \in {} |-> Torn]

\* The book is read when the program starts; a file that is there and cannot be
\* read is treated as one that does not parse.  The user is told.  After that,
\* or after a save that was not completed, he means what is left.
LoadBook ==
  /\ book' \in {Loaded(bookFile), EmptyBook}
  /\ failed' = (book' # Loaded(bookFile))
  /\ meant' = IF failed \/ book' # Loaded(bookFile)
                THEN [n \in DOMAIN book' |-> book'[n][1]] ELSE meant
  /\ UNCHANGED bookFile

\* /add <name> <onion>
add_contact(n, o, typed) ==
  /\ book' = [m \in DOMAIN book \cup {n} |-> IF m = n THEN normalize_onion(typed) ELSE book[m]]
  /\ meant' = [m \in DOMAIN meant \cup {n} |-> IF m = n THEN o ELSE meant[m]]
  /\ UNCHANGED <<bookFile, failed>>

\* /remove <name>, of a contact there is
remove_contact(n) ==
  /\ n \in DOMAIN book
  /\ book' = [m \in DOMAIN book \ {n} |-> book[m]]
  /\ meant' = [m \in DOMAIN meant \ {n} |-> meant[m]]
  /\ UNCHANGED <<bookFile, failed>>

OpenBookFile == Open(bookFile) /\ UNCHANGED <<book, failed, meant>>

WriteBookFile ==
  /\ WriteAll(bookFile, book)
  /\ failed' = FALSE
  /\ UNCHANGED <<book, meant>>
=============================================================================
