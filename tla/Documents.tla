----------------------------- MODULE Documents -----------------------------
(***************************************************************************)
(* The text documents of a session in their four copies: the editor's, the *)
(* document store's, the semantic workspace's and the one on disk; and the *)
(* cache of the outlines computed from them.                               *)
(* Sources: src/document/DocumentStore.cpp, the document notifications and *)
(* handleDocumentSymbol of src/server/ServerSession.cpp,                   *)
(* src/analysis/SyntaxDocumentCache.cpp, and the documents of              *)
(* src/analysis/SemanticWorkspace.cpp and src/analysis/SemanticEngine.cpp. *)
(*                                                                         *)
(* The dispatcher thread handles one message at a time.  The changes of    *)
(* one didChange are applied one by one, because each may be refused (the  *)
(* code throws) after others were applied; nothing but the disk changes in *)
(* between.  A message is chosen when it is handled: the editor's text is  *)
(* the one that the messages handled so far describe.                      *)
(*                                                                         *)
(* The editor opens, changes, saves and closes only what it should, but it *)
(* may send a change that does not describe its text (a stray one).        *)
(* Documents whose URI is not that of a file, or of a file without the     *)
(* extension of a source, are those outside Indexable.  What diagnostics   *)
(* do is in SessionDiagnostics.                                            *)
(***************************************************************************)
EXTENDS TextPositions

CONSTANTS Uri,
          Indexable,    \* the documents of the workspace
          Text,         \* the texts of the editor
          FileText,     \* the texts on disk
          StrayChange,  \* changes the editor sends in error
          None,         \* no document, no file, nothing computed
          MaxOpen,      \* bound on the documents open at a time
          MaxVersion,   \* bound on the versions
          MaxChanges,   \* bound on the changes of one didChange
          MaxLength,    \* bound on the texts that stray changes make
          MaxWatched    \* bound on the reports of the disk under way

ASSUME DocumentsAssumption ==
  /\ Indexable \subseteq Uri
  /\ \A t \in Text : t \in Seq(Character) /\ Regular(t)
  /\ FileText \subseteq Seq(Character)
  /\ \A c \in StrayChange : c.text \in Seq(Character)
  /\ MaxOpen \in Nat /\ MaxVersion \in Nat /\ MaxChanges \in Nat
  /\ MaxLength \in Nat /\ MaxWatched \in Nat

VARIABLES
  client,     \* the editor's text of every open document, or None
  documents,  \* documents_ of the document store, or None
  changing,   \* the didChange being applied, or None
  semantic,   \* documents_ of the semantic engine, or None
  entries,    \* entries_ of the syntax cache, or None
  outline,    \* the text whose symbols were last answered, None if the
              \* document was notified of anything since
  file,       \* what reading the file gives, or None
  watched,    \* the reports of changed files under way to the server
  diverged,   \* history: documents with a stray change, or one that came with
              \* a version the store refused, since their text was last sent as
              \* a whole
  detached    \* history: open documents that the semantic workspace was not
              \* told of, or told to forget, since it was last told of them

server == <<documents, changing, semantic, entries>>
disk == <<file, watched>>
history == <<diverged, detached>>
vars == <<client, server, outline, disk, history>>

Version == 1..MaxVersion
TextDocument == [version : Version, text : Seq(Character), dirty : BOOLEAN]
SemanticDocument ==
  [version : Version \cup {-1}, text : Seq(Character), is_open : BOOLEAN, dirty : BOOLEAN]
Entry == [version : Version, text_hash : Seq(Character), symbols : Seq(Character)]
Change == [uri : Uri, version : Version, applied : 0..MaxChanges]

ASSUME NoneAssumption ==
  None \notin Seq(Character) \cup TextDocument \cup SemanticDocument \cup Entry \cup Change

TypeOK ==
  /\ client \in [Uri -> Text \cup {None}]
  /\ documents \in [Uri -> TextDocument \cup {None}]
  /\ changing \in Change \cup {None}
  /\ semantic \in [Uri -> SemanticDocument \cup {None}]
  /\ entries \in [Uri -> Entry \cup {None}]
  /\ outline \in [Uri -> Seq(Character) \cup {None}]
  /\ file \in [Uri -> FileText \cup {None}]
  /\ watched \in Seq([uri : Uri, deleted : BOOLEAN])
  /\ diverged \subseteq Uri
  /\ detached \subseteq Uri

FromStore(document) ==
  [version |-> document.version, text |-> document.text, is_open |-> TRUE,
   dirty |-> document.dirty]

FromDisk(text) ==
  IF text = None THEN None
  ELSE [version |-> -1, text |-> text, is_open |-> FALSE, dirty |-> FALSE]

\* The state after initialize, which indexes the sources of the workspace.
Init ==
  /\ client = [u \in Uri |-> None]
  /\ documents = [u \in Uri |-> None]
  /\ changing = None
  /\ file \in [Uri -> FileText \cup {None}]
  /\ semantic = [u \in Uri |-> IF u \in Indexable THEN FromDisk(file[u]) ELSE None]
  /\ entries = [u \in Uri |-> None]
  /\ outline = [u \in Uri |-> None]
  /\ watched = <<>>
  /\ diverged = {}
  /\ detached = {}

InvalidateSyntaxCache(u) == entries' = [entries EXCEPT ![u] = None]
ForgetOutline(u) == outline' = [outline EXCEPT ![u] = None]

\* What the handlers of open, change and save do once the store is up to date.
TellWorkspace(u) ==
  /\ InvalidateSyntaxCache(u)
  /\ semantic' = [semantic EXCEPT ![u] = FromStore(documents'[u])]
  /\ ForgetOutline(u)
  /\ detached' = detached \ {u}

---------------------------------------------------------------------------
(* Opening and changing *)

DidOpen(u) ==
  /\ changing = None
  /\ client[u] = None
  /\ Cardinality({d \in Uri : client[d] # None}) < MaxOpen
  /\ \E v \in Version, t \in Text :
       /\ client' = [client EXCEPT ![u] = t]
       /\ documents' = [documents EXCEPT ![u] = [version |-> v, text |-> t, dirty |-> FALSE]]
  /\ TellWorkspace(u)
  /\ diverged' = diverged \ {u}
  /\ UNCHANGED <<changing, disk>>

\* applyChanges accepts the version.
BeginChange(u) ==
  /\ changing = None
  /\ client[u] # None
  /\ \E v \in Version :
       /\ v > documents[u].version
       /\ changing' = [uri |-> u, version |-> v, applied |-> 0]
  /\ ForgetOutline(u)
  /\ UNCHANGED <<client, documents, semantic, entries, disk, history>>

\* applyChanges refuses a version that does not advance.
RefuseVersion(u) ==
  /\ changing = None
  /\ client[u] # None
  /\ \E v \in Version : v <= documents[u].version
  /\ \E t \in Text : client' = [client EXCEPT ![u] = t]
  /\ diverged' = diverged \cup {u}
  /\ ForgetOutline(u)
  /\ UNCHANGED <<server, disk, detached>>

\* A change has been applied.
Applied(text) ==
  /\ documents' = [documents EXCEPT ![changing.uri].text = text]
  /\ changing' = [changing EXCEPT !.applied = @ + 1]
  /\ UNCHANGED detached

\* A change without a range replaces the text.
ApplyWhole ==
  /\ changing # None
  /\ changing.applied < MaxChanges
  /\ \E t \in Text :
       /\ client' = [client EXCEPT ![changing.uri] = t]
       /\ Applied(t)
  /\ diverged' = diverged \ {changing.uri}
  /\ UNCHANGED <<semantic, entries, outline, disk>>

\* The edits that make text t of text s.
Edits(s, t) ==
  {e \in [from : Cursors(s), to : Cursors(s)] :
     /\ e.from <= e.to
     /\ e.from <= Len(t)
     /\ Len(s) - e.to <= Len(t) - e.from
     /\ t = Replace(s, e.from, e.to, SubSeq(t, e.from + 1, Len(t) - (Len(s) - e.to)))}

EditOf(s, t, e) ==
  [start |-> PositionOf(s, e.from), end |-> PositionOf(s, e.to),
   text |-> SubSeq(t, e.from + 1, Len(t) - (Len(s) - e.to))]

\* The texts a change with a range leads to: none if it is refused.
ChangedTexts(text, change) ==
  {Replace(text, range[1], range[2], change.text) :
     range \in {r \in ByteOffsets(text, change.start) \X ByteOffsets(text, change.end) :
                  r[1] <= r[2]}}

\* The rest of the change list, the new version and the semantic workspace
\* are left out; the changes before this one stay applied.
Refused ==
  /\ changing' = None
  /\ detached' = IF changing.applied > 0 THEN detached \cup {changing.uri} ELSE detached
  /\ UNCHANGED documents

ApplyRange(change) ==
  LET texts == ChangedTexts(documents[changing.uri].text, change)
  IN IF texts = {} THEN Refused ELSE \E t \in texts : (t \in Text \/ Len(t) <= MaxLength) /\ Applied(t)

ApplyEdit ==
  /\ changing # None
  /\ changing.applied < MaxChanges
  /\ LET u == changing.uri
     IN \E t \in Text : \E e \in Edits(client[u], t) :
          /\ client' = [client EXCEPT ![u] = t]
          /\ ApplyRange(EditOf(client[u], t, e))
  /\ UNCHANGED <<semantic, entries, outline, disk, diverged>>

ApplyStray ==
  /\ changing # None
  /\ changing.applied < MaxChanges
  /\ \E change \in StrayChange : ApplyRange(change)
  /\ diverged' = diverged \cup {changing.uri}
  /\ UNCHANGED <<client, semantic, entries, outline, disk>>

\* The change list is at its end.
FinishChange ==
  /\ changing # None
  /\ LET u == changing.uri
     IN /\ documents' = [documents EXCEPT ![u].version = changing.version, ![u].dirty = TRUE]
        /\ TellWorkspace(u)
  /\ changing' = None
  /\ UNCHANGED <<client, disk, diverged>>

---------------------------------------------------------------------------
(* Saving and closing *)

\* Whether the text is included is negotiated.
DidSave(u) ==
  /\ changing = None
  /\ client[u] # None
  /\ \/ /\ documents' = [documents EXCEPT ![u].text = client[u], ![u].dirty = FALSE]
        /\ diverged' = diverged \ {u}
     \/ /\ documents' = [documents EXCEPT ![u].dirty = FALSE]
        /\ UNCHANGED diverged
  /\ TellWorkspace(u)
  /\ UNCHANGED <<client, changing, disk>>

\* Bug: a closed document is forgotten.
NotRestored(u) == None
\* restoreClosedDocument
Restored(u) == FromDisk(file[u])

DidClose(u) ==
  /\ changing = None
  /\ client[u] # None
  /\ client' = [client EXCEPT ![u] = None]
  /\ documents' = [documents EXCEPT ![u] = None]
  /\ InvalidateSyntaxCache(u)
  /\ semantic' = [semantic EXCEPT ![u] = Restored(u)]
  /\ ForgetOutline(u)
  /\ diverged' = diverged \ {u}
  /\ detached' = detached \ {u}
  /\ UNCHANGED <<changing, disk>>

---------------------------------------------------------------------------
(* The disk *)

ChangeFile(u) ==
  /\ Len(watched) < MaxWatched
  /\ \E t \in (FileText \cup {None}) \ {file[u]} :
       /\ file' = [file EXCEPT ![u] = t]
       /\ watched' = Append(watched, [uri |-> u, deleted |-> t = None])
  /\ UNCHANGED <<client, server, outline, history>>

\* Bug: a report of the disk replaces an open document.
FromTheFile(u) == FromDisk(file[u])
\* What the semantic workspace gets when a file is reported new or changed.
Reread(u) ==
  IF documents[u] # None THEN FromStore(documents[u]) ELSE FromDisk(file[u])

\* handleDidChangeWatchedFiles
DidChangeWatchedFile ==
  /\ changing = None
  /\ watched # <<>>
  /\ watched' = Tail(watched)
  /\ LET u == Head(watched).uri
     IN \/ /\ u \notin Indexable
           /\ UNCHANGED <<semantic, entries, detached>>
        \/ /\ u \in Indexable
           /\ Head(watched).deleted
           /\ InvalidateSyntaxCache(u)
           /\ semantic' = [semantic EXCEPT ![u] = None]
           /\ detached' = IF documents[u] # None THEN detached \cup {u} ELSE detached
        \/ /\ u \in Indexable
           /\ ~Head(watched).deleted
           /\ semantic' = [semantic EXCEPT ![u] = Reread(u)]
           /\ IF Reread(u) = None THEN InvalidateSyntaxCache(u) ELSE UNCHANGED entries
           /\ detached' = detached \ {u}
  /\ UNCHANGED <<client, documents, changing, outline, file, diverged>>

---------------------------------------------------------------------------
(* The syntax cache *)

\* Bug: the version alone decides.
SameVersion(u) == entries[u] # None /\ entries[u].version = documents[u].version
Hit(u) ==
  /\ entries[u] # None
  /\ entries[u].version = documents[u].version
  /\ entries[u].text_hash = documents[u].text

DocumentSymbol(u) ==
  /\ changing = None
  /\ documents[u] # None
  /\ \/ /\ Hit(u)
        /\ UNCHANGED entries
     \/ /\ ~Hit(u)
        /\ LET document == documents[u]
           IN entries' = [entries EXCEPT ![u] = [version |-> document.version,
                                                 text_hash |-> document.text,
                                                 symbols |-> document.text]]
  /\ outline' = [outline EXCEPT ![u] = entries'[u].symbols]
  /\ UNCHANGED <<client, documents, changing, semantic, disk, history>>

Next ==
  \/ \E u \in Uri :
       \/ DidOpen(u)
       \/ BeginChange(u)
       \/ RefuseVersion(u)
       \/ DidSave(u)
       \/ DidClose(u)
       \/ ChangeFile(u)
       \/ DocumentSymbol(u)
  \/ ApplyWhole
  \/ ApplyEdit
  \/ ApplyStray
  \/ FinishChange
  \/ DidChangeWatchedFile

Spec == Init /\ [][Next]_vars

---------------------------------------------------------------------------
(* Properties *)

\* As long as the editor's changes describe its text and its versions advance,
\* the store has exactly that text, wherever its lines end and however many
\* surrogate pairs it has: findByteOffset finds the character that the editor
\* meant and no such change is refused.  A text sent as a whole, by a change, a
\* save or an open, repairs what a stray change has broken.
StoreIsEditors ==
  \A u \in Uri :
    /\ documents[u] = None <=> client[u] = None
    /\ client[u] # None /\ u \notin diverged => documents[u].text = client[u]

\* The semantic workspace has the open documents as the store has them, with
\* their versions, whatever happens to their files; except those whose change
\* list was refused half way, which applyChange leaves half applied, and those
\* whose file was reported deleted.
WorkspaceFollowsStore ==
  \A u \in Uri :
    /\ documents[u] # None
    /\ u \notin detached
    /\ changing # None /\ changing.uri = u => changing.applied = 0
    => semantic[u] = FromStore(documents[u])

\* A document that is not open is in the semantic workspace as it is on disk,
\* once all the reports about its file have been handled; in whatever order
\* files are changed, deleted and created again, and documents opened and closed.
WorkspaceFollowsDisk ==
  \A u \in Uri : documents[u] = None =>
    /\ semantic[u] # None => ~semantic[u].is_open
    /\ u \in Indexable /\ (\A i \in 1..Len(watched) : watched[i].uri # u)
         => semantic[u] = FromDisk(file[u])

\* The symbols answered are those of the text the store has, and of the text
\* the editor has unless they have diverged.  A refused change list changes the
\* text under the same version and does not invalidate the syntax cache, so this
\* rests on the hash of the text.
OutlineIsCurrent ==
  \A u \in Uri : outline[u] # None /\ (changing = None \/ changing.uri # u) =>
    /\ outline[u] = documents[u].text
    /\ u \notin diverged => outline[u] = client[u]
=============================================================================
