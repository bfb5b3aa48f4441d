---------------------------- MODULE ArtifactStore ----------------------------
(***************************************************************************)
(* The artifact managers of one page (src/artifact).  The gateway, the     *)
(* runtime's bootstrap and the template gallery each construct an          *)
(* ArtifactManager of their own.  Each keeps a map of artifacts and an     *)
(* index from content to the artifact that has it; all of them write the   *)
(* whole map, 300 ms after its last change, under the same key of the      *)
(* browser's localStorage, and read it only when they are constructed.  A  *)
(* reload of the page ends them all.  The search index and the history,    *)
(* which no other operation reads, are left out.                           *)
(***************************************************************************)
EXTENDS Integers, Sequences, FiniteSetsExt

CONSTANTS
  Managers,      \* the managers a page may construct
  Contents,      \* what an artifact may contain
  EmptyContent,  \* the empty string
  Binary,        \* the contents that are bytes and no UTF-8 text
  MaxArtifacts,  \* bound: artifacts that are ever made
  MaxUpdates     \* bound: updates of an artifact that are let in

ASSUME ArtifactAssumption ==
  /\ EmptyContent \in Contents /\ Binary \subseteq Contents \ {EmptyContent}
  /\ MaxArtifacts \in Nat /\ MaxUpdates \in Nat

VARIABLES
  open,      \* the managers that are constructed
  store,     \* manager -> ArtifactStorage.store
  holder,    \* manager -> contentIndex: the artifact create() finds by content
  saving,    \* the managers whose persistTimer is set
  disk,      \* what localStorage holds
  made,      \* artifacts are numbered as they are made
  updates    \* bound counter

artifactVars == <<open, store, holder, saving, disk, made, updates>>

Ids == 1..MaxArtifacts

ArtifactStatuses == {"draft", "created", "validated", "verified", "merged",
                     "rejected", "archived"}

LegalTransitions ==
  [draft     |-> {"created"},
   created   |-> {"validated", "rejected", "archived"},
   validated |-> {"verified", "rejected"},
   verified  |-> {"merged", "rejected", "archived"},
   merged    |-> {"archived"},
   rejected  |-> {"archived"},
   archived  |-> {}]

\* The content is that of the contentHash, which is taken when the artifact is
\* made; the bytes kept for it are another matter once they are decoded.
Artifacts ==
  [status : ArtifactStatuses, version : 1..MaxArtifacts, parent : 0..MaxArtifacts,
   content : Contents, decoded : BOOLEAN, verification : {"unverified", "passed"},
   merge : {"unmerged", "eligible", "merged"}]

NewOrphan(status, version, parent, content) ==   \* mutant: the parent is not set
  [status |-> status, version |-> version, parent |-> 0, content |-> content,
   decoded |-> FALSE, verification |-> "unverified", merge |-> "unmerged"]
NewFromZero(status, version, parent, content) == \* mutant: versions count from 0
  [status |-> status, version |-> version - 1, parent |-> parent, content |-> content,
   decoded |-> FALSE, verification |-> "unverified", merge |-> "unmerged"]
\* An artifact as it is made.
New(status, version, parent, content) ==
  [status |-> status, version |-> version, parent |-> parent, content |-> content,
   decoded |-> FALSE, verification |-> "unverified", merge |-> "unmerged"]

\* The map has no entry for the id.
Absent == New("none", 0, 0, EmptyContent)

Kept(map) == {i \in Ids : map[i] # Absent}

Nothing == [i \in Ids |-> Absent]
NoHolder == [c \in Contents |-> 0]

ArtifactInit ==
  /\ open = {} /\ saving = {}
  /\ store = [m \in Managers |-> Nothing]
  /\ holder = [m \in Managers |-> NoHolder]
  /\ disk = Nothing
  /\ made = 0 /\ updates = 0

\* storage.setArtifact(): the content index names the artifact last set.
SetArtifact(m, i, artifact) ==
  /\ store' = [store EXCEPT ![m][i] = artifact]
  /\ holder' = [holder EXCEPT ![m][artifact.content] = i]
  /\ saving' = saving \cup {m}

\* if (content) storage.setArtifact(..): nothing is stored for empty content.
SetUnlessEmpty(m, i, artifact) ==
  IF artifact.content = EmptyContent THEN UNCHANGED <<store, holder, saving>>
  ELSE SetArtifact(m, i, artifact)

-----------------------------------------------------------------------------
NoHoldersOf(map) == NoHolder   \* mutant: the content index is not rebuilt
\* The content index is rebuilt from the map, in the order of insertion, which
\* is that of the ids.
HoldersOf(map) == [c \in Contents |-> Max({0} \cup {i \in Kept(map) : map[i].content = c})]

ConstructEmpty(m) ==           \* mutant: the saved artifacts are not read
  /\ m \notin open
  /\ open' = open \cup {m}
  /\ UNCHANGED <<store, holder, saving, disk, made, updates>>
Construct(m) ==
  /\ m \notin open
  /\ open' = open \cup {m}
  /\ store' = [store EXCEPT ![m] = disk]
  /\ holder' = [holder EXCEPT ![m] = HoldersOf(disk)]
  /\ UNCHANGED <<saving, disk, made, updates>>

\* create() returns the artifact it finds by content, whatever became of it.
\* The parent it is given is not looked up, and the version is 1 all the same.
Create(m, content, parent) ==
  /\ m \in open
  /\ made < MaxArtifacts
  /\ holder[m][content] = 0
  /\ SetArtifact(m, made + 1, New("created", 1, parent, content))
  /\ made' = made + 1
  /\ UNCHANGED <<open, disk, updates>>

\* createVersion() does not look for the content, and makes a draft.
CreateVersion(m, parent, content) ==
  /\ m \in open
  /\ made < MaxArtifacts
  /\ parent \in Kept(store[m])
  /\ SetArtifact(m, made + 1,
                 New("draft", store[m][parent].version + 1, parent, content))
  /\ made' = made + 1
  /\ UNCHANGED <<open, disk, updates>>

Updating(m, i) ==
  /\ m \in open
  /\ i \in Kept(store[m])
  /\ updates < MaxUpdates
  /\ updates' = updates + 1
  /\ UNCHANGED <<open, disk, made>>

\* transition(), and through it archive() and expireIfExpired().
TransitionArtifact(m, i, to) ==
  /\ Updating(m, i)
  /\ to \in LegalTransitions[store[m][i].status]
  /\ SetUnlessEmpty(m, i, [store[m][i] EXCEPT !.status = to])

UpdateVerificationState(m, i, to) ==
  /\ Updating(m, i)
  /\ SetUnlessEmpty(m, i, [store[m][i] EXCEPT !.verification = to])

UpdateMergeState(m, i, to) ==
  /\ Updating(m, i)
  /\ SetUnlessEmpty(m, i, [store[m][i] EXCEPT !.merge = to])

\* serialize(): what is not text is decoded as if it were, with what cannot be
\* decoded replaced; the hash and all else are written as they are.
Decoded(map) ==
  [i \in Ids |-> [map[i] EXCEPT !.decoded = map[i].content \in Binary]]

\* The timer of schedulePersist() fires: saveToStorage() replaces the whole
\* value, or fails (the quota is reached) and is not tried again.
Save(m) ==
  /\ m \in saving
  /\ saving' = saving \ {m}
  /\ \/ disk' = Decoded(store[m])
     \/ UNCHANGED disk
  /\ UNCHANGED <<open, store, holder, made, updates>>

\* The page is reloaded, or ends, at any moment: a set timer is lost.
Reload ==
  /\ open # {}
  /\ open' = {} /\ saving' = {}
  /\ store' = [m \in Managers |-> Nothing]
  /\ holder' = [m \in Managers |-> NoHolder]
  /\ UNCHANGED <<disk, made, updates>>

ArtifactNext ==
  \/ Reload
  \/ \E m \in Managers :
       \/ Construct(m) \/ Save(m)
       \/ \E content \in Contents :
            \/ \E parent \in 0..made : Create(m, content, parent)
            \/ \E parent \in Ids : CreateVersion(m, parent, content)
       \/ \E i \in Ids :
            \/ \E to \in ArtifactStatuses : TransitionArtifact(m, i, to)
            \/ UpdateVerificationState(m, i, "passed")
            \/ \E to \in {"eligible", "merged"} : UpdateMergeState(m, i, to)

ArtifactSpec == ArtifactInit /\ [][ArtifactNext]_artifactVars

-----------------------------------------------------------------------------
(* Properties *)

Maps == {disk} \cup {store[m] : m \in Managers}

ArtifactTypeOK ==
  /\ open \subseteq Managers /\ saving \subseteq open
  /\ store \in [Managers -> [Ids -> Artifacts \cup {Absent}]]
  /\ holder \in [Managers -> [Contents -> 0..MaxArtifacts]]
  /\ disk \in [Ids -> Artifacts \cup {Absent}]
  /\ made \in 0..MaxArtifacts /\ updates \in 0..MaxUpdates

\* Looking for the content before creating works across reloads and whatever
\* the other managers write: no map ever has two first versions of a content.
OriginalsUnique ==
  \A map \in Maps : \A i, j \in Kept(map) :
    map[i].version = 1 /\ map[j].version = 1 /\ map[i].content = map[j].content
      => i = j

\* A later version is never kept without the one it revises, and follows it by
\* one: a chain of versions is whole in every manager and after any reload.
ChainsWhole ==
  \A map \in Maps : \A i \in Kept(map) :
    map[i].version > 1 =>
      /\ map[i].parent \in Kept(map) /\ map[i].parent < i
      /\ map[i].version = map[map[i].parent].version + 1

\* How far a status is along the lifecycle.
Rank == [draft |-> 0, created |-> 1, validated |-> 2, verified |-> 3,
         merged |-> 4, rejected |-> 4, archived |-> 5]

\* As long as the page has one manager, nothing that was saved is lost: what is
\* on disk stays there, with its content and in the form in which it was saved,
\* and never moves back in its lifecycle.
AloneNothingLost ==
  [][(\E m \in Managers : open = {m}) =>
       \A i \in Kept(disk) :
         /\ i \in Kept(disk')
         /\ disk'[i].content = disk[i].content
         /\ disk'[i].decoded = disk[i].decoded
         /\ Rank[disk'[i].status] >= Rank[disk[i].status]]_artifactVars

=============================================================================
