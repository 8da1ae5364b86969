----------------------------- MODULE DocumentSet -----------------------------
(***************************************************************************)
(* The documents of a document set (DocumentSetClass in document.lua) and  *)
(* the commands that add, rename, reorder, select and delete them.         *)
(*                                                                         *)
(* DocumentSet.documents is one Lua table used in two ways: its array part *)
(* lists the documents in order, its string keys find them by name.  The   *)
(* selected document is known twice too: as DocumentSet.current and as the *)
(* global Document.  Documents are identities; their text is left out.     *)
(***************************************************************************)
EXTENDS Integers, Sequences, SequencesExt

CONSTANTS
  Doc,      \* document objects
  Name,     \* document names
  Main,     \* "main"
  NoDoc,    \* nil
  NoName,   \* the name of a document outside the set
  Suffixed, \* for a name, the name followed by "-1", or NoName: not in this instance
  MaxDocs   \* bound: documents in a set

ASSUME NameAssumption == Main \in Name /\ NoName \notin Name
ASSUME DocAssumption == NoDoc \notin Doc
ASSUME SuffixAssumption == Suffixed \in [Name -> Name \cup {NoName}]

VARIABLES
  list,       \* the array part of DocumentSet.documents
  byname,     \* its string keys
  docname,    \* the name field of every document object
  current,    \* DocumentSet.current
  Document,   \* the global variable of that name
  importing,  \* the name an importer tries to find a free variant of
  file,       \* the document set as last saved
  generation  \* which DocumentSet object is the global one

vars == <<list, byname, docname, current, Document, importing, file, generation>>

TypeOK ==
  /\ list \in Seq(Doc)
  /\ byname \in [Name -> Doc \cup {NoDoc}]
  /\ docname \in [Doc -> Name \cup {NoName}]
  /\ current \in Doc \cup {NoDoc}
  /\ Document \in Doc
  /\ importing \in Name \cup {NoName}
  /\ file \in [names : Seq(Name), current : Nat]
  /\ generation \in {0, 1}

Docs == ToSet(list)

-----------------------------------------------------------------------------
(* DocumentSetClass.  A set is handed from one method to the next as a      *)
(* record of its fields, since commands call several of them.               *)

This == [list |-> list, byname |-> byname, docname |-> docname,
         current |-> current, Document |-> Document]

(* _findDocument: the first position with that name, or nil. *)
Positions(s, n) == {i \in DOMAIN s.list : s.docname[s.list[i]] = n}
First(S) == CHOOSE i \in S : \A j \in S : i <= j

(* setCurrent: an unknown name selects the first document. *)
SetCurrent(s, n) ==
  LET d == IF s.byname[n] # NoDoc THEN s.byname[n] ELSE s.list[1]
  IN  [s EXCEPT !.current = d, !.Document = d]

(* addDocument: replaces a document of the same name. *)
AddDocument(s, d, n) ==
  LET t == [s EXCEPT !.docname[d] = n]
      added == [t EXCEPT !.list = IF Positions(t, n) = {} THEN Append(t.list, d)
                                  ELSE [t.list EXCEPT ![First(Positions(t, n))] = d],
                         !.byname[n] = d]
  IN  IF added.current = NoDoc \/ added.docname[added.current] = n
        THEN SetCurrent(added, n) ELSE added

MoveDocumentIndexTo(s, n, target) ==
  LET k == First(Positions(s, n))
  IN  [s EXCEPT !.list = InsertAt(RemoveAt(s.list, k), target, s.list[k])]

DeleteKeepsName(s, n) ==  \* fault: the name still finds the deleted document
  LET k == First(Positions(s, n))
      rest == [s EXCEPT !.list = RemoveAt(s.list, k)]
      next == IF k <= Len(rest.list) THEN k ELSE Len(rest.list)
  IN  SetCurrent(rest, s.docname[rest.list[next]])

DeleteKeepsSelection(s, n) ==  \* fault: nothing else is selected
  [s EXCEPT !.list = RemoveAt(s.list, First(Positions(s, n))), !.byname[n] = NoDoc]

DeleteSelectsFirst(s, n) ==  \* fault: the first document is selected
  LET rest == [s EXCEPT !.list = RemoveAt(s.list, First(Positions(s, n))), !.byname[n] = NoDoc]
  IN  SetCurrent(rest, s.docname[rest.list[1]])

(* deleteDocument, of the selected document: the one that follows it in the *)
(* list is selected, or else the last.                                      *)
DeleteDocument(s, n) ==
  LET k == First(Positions(s, n))
      rest == [s EXCEPT !.list = RemoveAt(s.list, k), !.byname[n] = NoDoc]
      next == IF k <= Len(rest.list) THEN k ELSE Len(rest.list)
  IN  IF s.Document = s.list[k] THEN SetCurrent(rest, s.docname[rest.list[next]]) ELSE rest

RenameDocument(s, old, new) ==
  [s EXCEPT !.byname = [s.byname EXCEPT ![old] = NoDoc, ![new] = s.byname[old]],
            !.docname[s.byname[old]] = new]

(* findDocument: a document the string keys do not know is looked for in    *)
(* the list, and the user is told that something freaky happened.           *)
FindDocument(s, n) ==
  IF s.byname[n] = NoDoc /\ Positions(s, n) # {}
    THEN [s EXCEPT !.byname[n] = s.list[First(Positions(s, n))]]
    ELSE s

Becomes(s) ==
  /\ list' = s.list
  /\ byname' = s.byname
  /\ docname' = s.docname
  /\ current' = s.current
  /\ Document' = s.Document

-----------------------------------------------------------------------------
(* Commands.  All but TryVariant wait for an import to end.                 *)

Command == importing = NoName
Same == UNCHANGED <<importing, file, generation>>

New == {d \in Doc \ Docs : Len(list) < MaxDocs}

AddBlankDocument(n) ==
  /\ Command /\ Same
  /\ byname[n] = NoDoc
  /\ \E d \in New : Becomes(SetCurrent(AddDocument(This, d, n), n))

ImportReplaces(n) ==  \* fault: the name is not looked up first
  /\ Command /\ Same
  /\ Suffixed[n] # NoName
  /\ \E d \in New : Becomes(SetCurrent(AddDocument(This, d, n), n))

(* ImportFileWithUI and the other importers, once the file is read. *)
Import(n) ==
  /\ Command
  /\ Suffixed[n] # NoName
  /\ UNCHANGED <<file, generation>>
  /\ \/ /\ byname[n] = NoDoc
        /\ \E d \in New : Becomes(SetCurrent(AddDocument(This, d, n), n))
        /\ importing' = NoName
     \/ /\ byname[n] # NoDoc
        /\ New # {}
        /\ importing' = n
        /\ UNCHANGED <<list, byname, docname, current, Document>>

(* One turn of the loop that looks for a free name.  The number it appends  *)
(* stays 1.                                                                 *)
TryVariant ==
  LET n == Suffixed[importing]
  IN  /\ importing # NoName
      /\ UNCHANGED <<file, generation>>
      /\ \/ /\ byname[n] = NoDoc
            /\ \E d \in New : Becomes(SetCurrent(AddDocument(This, d, n), n))
            /\ importing' = NoName
         \/ /\ byname[n] # NoDoc
            /\ UNCHANGED <<list, byname, docname, current, Document, importing>>

(* The document of this name, made if it is missing: the user dictionary.   *)
Ensured(n) ==
  LET found == FindDocument(This, n)
  IN  IF found.byname[n] # NoDoc THEN {found}
      ELSE {AddDocument(found, d, n) : d \in New}

GetUserDictionaryDocument(n) ==
  /\ Command /\ Same
  /\ \E s \in Ensured(n) : Becomes(s)

(* The scrapbook document is selected, pasted into, and left again. *)
PasteToScrapbook(n) ==
  /\ Command /\ Same
  /\ \E s \in Ensured(n) : Becomes(SetCurrent(SetCurrent(s, n), docname[Document]))

ChangeDocument(n) ==
  LET found == FindDocument(This, n)
  IN  /\ Command /\ Same
      /\ IF found.byname[n] = NoDoc THEN Becomes(found) ELSE Becomes(SetCurrent(found, n))

(* The document manager: move, rename or delete the selected document. *)
Position == CHOOSE i \in DOMAIN list : list[i] = Document

Move(target) ==
  /\ Command /\ Same
  /\ target \in {Position - 1, Position + 1} \cap DOMAIN list
  /\ Becomes(MoveDocumentIndexTo(This, docname[Document], target))

Rename(n) ==
  /\ Command /\ Same
  /\ byname[n] = NoDoc
  /\ Becomes(RenameDocument(This, docname[Document], n))

Delete ==
  /\ Command /\ Same
  /\ Len(list) > 1
  /\ Becomes(DeleteDocument(This, docname[Document]))

-----------------------------------------------------------------------------
(* Whole sets.                                                             *)

EmptySet(outside) ==
  [list |-> <<>>, byname |-> [n \in Name |-> NoDoc], docname |-> [d \in Doc |-> NoName],
   current |-> NoDoc, Document |-> outside]

(* ResetDocumentSet: the global Document is for a moment one outside the set. *)
ResetDocumentSet ==
  /\ Command
  /\ \E d, outside \in Doc : d # outside /\ Becomes(AddDocument(EmptySet(outside), d, Main))
  /\ generation' = 1 - generation
  /\ UNCHANGED <<importing, file>>

(* writetostream: the selected document is saved as its position. *)
Save ==
  /\ Command
  /\ file' = [names |-> [i \in DOMAIN list |-> docname[list[i]]],
              current |-> First(Positions(This, docname[current]))]
  /\ UNCHANGED <<list, byname, docname, current, Document, importing, generation>>

(* loadfromstreamt: new documents, found by name once all are read. *)
Loaded(docs) ==
  [list     |-> docs,
   byname   |-> [n \in Name |->
                   IF n \in ToSet(file.names)
                     THEN docs[CHOOSE i \in DOMAIN docs :
                                 file.names[i] = n /\ \A j \in DOMAIN docs :
                                                        file.names[j] = n => j <= i]
                     ELSE NoDoc],
   docname  |-> [d \in Doc |-> IF \E i \in DOMAIN docs : docs[i] = d
                                 THEN file.names[CHOOSE i \in DOMAIN docs : docs[i] = d]
                                 ELSE NoName],
   current  |-> docs[file.current],
   Document |-> docs[file.current]]

Load ==
  /\ Command
  /\ file.names # <<>>
  /\ \E docs \in [DOMAIN file.names -> Doc] : IsInjective(docs) /\ Becomes(Loaded(docs))
  /\ generation' = 1 - generation
  /\ UNCHANGED <<importing, file>>

-----------------------------------------------------------------------------
Init ==
  /\ \E d, outside \in Doc :
       LET s == AddDocument(EmptySet(outside), d, Main)
       IN  /\ d # outside
           /\ list = s.list /\ byname = s.byname /\ docname = s.docname
           /\ current = s.current /\ Document = s.Document
  /\ importing = NoName
  /\ file = [names |-> <<>>, current |-> 0]
  /\ generation = 0

Next ==
  \/ \E n \in Name :
       \/ AddBlankDocument(n) \/ Import(n) \/ GetUserDictionaryDocument(n)
       \/ PasteToScrapbook(n) \/ ChangeDocument(n) \/ Rename(n)
  \/ \E i \in 1 .. MaxDocs : Move(i)
  \/ TryVariant \/ Delete \/ ResetDocumentSet \/ Save \/ Load

Spec == Init /\ [][Next]_vars

(* An import runs on by itself. *)
FairSpec == Spec /\ WF_vars(TryVariant)

-----------------------------------------------------------------------------
(* Properties.                                                             *)

(* The two uses of the documents table agree: the string keys find exactly  *)
(* the documents of the list, each under its own name and under no other.   *)
(* So names are unique and findDocument never has to repair anything.       *)
IndexConsistent ==
  \A n \in Name, d \in Doc : byname[n] = d <=> d \in Docs /\ docname[d] = n

ListedOnce == IsInjective(list)

(* The selected document is one of the list, and the two ways to know it    *)
(* agree: no command can go on editing a document that was deleted.         *)
SelectedIsOpen == current = Document /\ Document \in Docs

(* A command can remove the selected document only, and only if another     *)
(* stays; all others go only with the whole set.                            *)
OthersStay ==
  [][generation' = generation => Docs \ {Document} \subseteq Docs' /\ Docs' # {}]_vars

(* The commands implement a list of names with one of them selected. *)
DL == INSTANCE DocumentList WITH
        list <- [i \in DOMAIN list |-> docname[list[i]]],
        selected <- docname[Document]

ImplementsDocumentList == DL!Spec

(* Not so: "Importing non-WordGrinder files always results in a new document *)
(* being added to the current document set" (README.wg).  The loop tries one *)
(* variant of a name only, for ever if that is taken too.                    *)
ImportEnds == importing # NoName ~> importing = NoName
=============================================================================
