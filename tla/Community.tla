------------------------------ MODULE Community ------------------------------
(***************************************************************************)
(* What members publish and administrators moderate: community posts and   *)
(* comments, library resources and their categories.  Each request reads   *)
(* what it needs and writes later by id; a moderation writes the status    *)
(* and its audit record in one READ COMMITTED transaction.                 *)
(***************************************************************************)
EXTENDS Naturals, Sequences, FiniteSetsExt

CONSTANTS
    Posts, Comments, Resources,  \* ids of what may be published
    Categories,                  \* library categories
    Writers,                     \* requests in flight
    People,                      \* members who like and save
    MaxModerations               \* bound: moderations of a behaviour

ASSUME CommunityAssumption ==
    /\ Posts \cap Comments = {} /\ Posts \cap Resources = {} /\ Comments \cap Resources = {}
    /\ "none" \notin Posts \cup Comments \cup Categories

Items == Posts \cup Comments \cup Resources

VARIABLES
    item,        \* what is published, with its removal, visibility and moderation
    categories,  \* categories that exist
    files,       \* resources whose file is in storage
    marks,       \* likes and favorites: <<person, item>>
    work,        \* requests between two of their steps
    modLog,      \* audit records of moderations, in the order they commit
    removals     \* audit records of removals by an administrator

communityVars == <<item, categories, files, marks, work, modLog, removals>>

NoItem == [there |-> FALSE, removed |-> "no", visible |-> TRUE, moderation |-> "clear",
           under |-> "none", category |-> "none"]
Idle == [op |-> "none"]

CommunityInit ==
    /\ item = [i \in Items |-> NoItem]
    /\ categories = Categories
    /\ files = {} /\ marks = {} /\ modLog = <<>> /\ removals = {}
    /\ work = [w \in Writers |-> Idle]

\* deletedAt null: it can be edited, removed and moderated.
Kept(i) == item[i].there /\ item[i].removed = "no"

\* Readers are shown what is kept, active, public and clear.
Shown(i) == Kept(i) /\ item[i].visible /\ item[i].moderation = "clear"

Start(w, request) == work[w] = Idle /\ work' = [work EXCEPT ![w] = request]
Finish(w) == work' = [work EXCEPT ![w] = Idle]

-----------------------------------------------------------------------------
(* Posts and comments                                                      *)

CreatePost(p, visible) ==
    /\ ~item[p].there
    /\ item' = [item EXCEPT ![p].there = TRUE, ![p].visible = visible]
    /\ UNCHANGED <<categories, files, marks, work, modLog, removals>>

\* Its author or an administrator may edit what findManageablePost finds.
UpdatePostReads(w, p) ==
    /\ Kept(p) /\ \E visible \in BOOLEAN :
          Start(w, [op |-> "update", on |-> p, visible |-> visible, row |-> item[p]])
    /\ UNCHANGED <<item, categories, files, marks, modLog, removals>>

EditedWhole(w) == [work[w].row EXCEPT !.visible = work[w].visible]

\* Only the fields of the request are written.
Edited(w) == [item[work[w].on] EXCEPT !.visible = work[w].visible]

UpdatePostWrites(w) ==
    /\ work[w].op = "update" /\ Finish(w)
    /\ item' = [item EXCEPT ![work[w].on] = Edited(w)]
    /\ UNCHANGED <<categories, files, marks, modLog, removals>>

DeleteReads(w, i) ==
    /\ Kept(i) /\ \E by \in {"author", "admin"} :
          Start(w, [op |-> "delete", on |-> i, by |-> by])
    /\ UNCHANGED <<item, categories, files, marks, modLog, removals>>

AuditedNever(w) == removals

\* An administrator's removal is audited in the transaction that removes.
AuditedRemoval(w) ==
    removals \cup (IF work[w].by = "admin" THEN {work[w].on} ELSE {})

\* deletePost, and deleteComment, which writes the same (community.service.ts:278).
DeleteWrites(w) ==
    /\ work[w].op = "delete" /\ Finish(w)
    /\ item' = [item EXCEPT ![work[w].on].removed = work[w].by]
    /\ removals' = AuditedRemoval(w)
    /\ UNCHANGED <<categories, files, marks, modLog>>

\* findVisiblePost, and the parent comment of a reply.
CommentReads(w, p, parent) ==
    /\ Shown(p) /\ (parent # "none" => Shown(parent) /\ item[parent].under = p)
    /\ Start(w, [op |-> "comment", on |-> p])
    /\ UNCHANGED <<item, categories, files, marks, modLog, removals>>

CommentWrites(w) ==
    /\ work[w].op = "comment" /\ Finish(w)
    /\ \E c \in Comments :
        /\ ~item[c].there
        /\ item' = [item EXCEPT ![c].there = TRUE, ![c].under = work[w].on]
    /\ UNCHANGED <<categories, files, marks, modLog, removals>>

\* likePost and favoriteResource: the unique key refuses a second one.
MarkReads(w, u, i) ==
    /\ Shown(i) /\ Start(w, [op |-> "mark", on |-> i, by |-> u])
    /\ UNCHANGED <<item, categories, files, marks, modLog, removals>>

MarkWrites(w) ==
    /\ work[w].op = "mark" /\ Finish(w)
    /\ marks' = marks \cup {<<work[w].by, work[w].on>>}
    /\ UNCHANGED <<item, categories, files, modLog, removals>>

Unmark(u, i) ==
    /\ Shown(i) /\ <<u, i>> \in marks /\ marks' = marks \ {<<u, i>>}
    /\ UNCHANGED <<item, categories, files, work, modLog, removals>>

-----------------------------------------------------------------------------
(* The library                                                             *)

CreateResourceReads(w, r, g) ==
    /\ ~item[r].there /\ g \in categories
    /\ \A other \in Writers : work[other].op \in {"upload", "create"} => work[other].on # r
    /\ Start(w, [op |-> "upload", on |-> r, category |-> g])
    /\ UNCHANGED <<item, categories, files, marks, modLog, removals>>

Uploads(w) ==
    /\ work[w].op = "upload"
    /\ \/ files' = files \cup {work[w].on} /\ work' = [work EXCEPT ![w].op = "create"]
       \/ UNCHANGED files /\ Finish(w)
    /\ UNCHANGED <<item, categories, marks, modLog, removals>>

CategoryChecked(w) == TRUE

\* The foreign key looks again; without its category the insert fails.
CategoryThere(w) == work[w].category \in categories

CreateResourceWrites(w) ==
    /\ work[w].op = "create" /\ Finish(w)
    /\ item' = IF CategoryThere(w)
               THEN [item EXCEPT ![work[w].on].there = TRUE,
                        ![work[w].on].category = work[w].category]
               ELSE item
    /\ UNCHANGED <<categories, files, marks, modLog, removals>>

InUse(g) == \E r \in Resources : item[r].category = g

\* The foreign key restricts: a category in use stays, also for removed resources.
DeleteCategory(g) ==
    /\ g \in categories /\ ~InUse(g)
    /\ categories' = categories \ {g}
    /\ UNCHANGED <<item, files, marks, work, modLog, removals>>

-----------------------------------------------------------------------------
(* Moderation                                                              *)

ActionStatus == [hide |-> "hidden", reject |-> "rejected", archive |-> "archived",
                 restore |-> "clear"]

\* Mutant: every content may be archived.
AllowedAll(i) == DOMAIN ActionStatus

AllowedActions(i) ==
    DOMAIN ActionStatus \ (IF i \in Resources THEN {} ELSE {"archive"})

ModerateReads(w, i, action) ==
    /\ Kept(i) /\ action \in AllowedActions(i)
    /\ item[i].moderation # ActionStatus[action]
    /\ Start(w, [op |-> "moderate", on |-> i, from |-> item[i].moderation,
                 to |-> ActionStatus[action]])
    /\ UNCHANGED <<item, categories, files, marks, modLog, removals>>

LoggedAsFound(w) == [on |-> work[w].on, from |-> item[work[w].on].moderation,
                     to |-> work[w].from]

Logged(w) == [on |-> work[w].on, from |-> work[w].from, to |-> work[w].to]

\* The update and its record commit together; the row may have changed since
\* the read, also to the very status the moderator sets.
ModerateWrites(w) ==
    /\ work[w].op = "moderate" /\ Finish(w)
    /\ Len(modLog) < MaxModerations
    /\ item' = [item EXCEPT ![work[w].on].moderation = work[w].to]
    /\ modLog' = Append(modLog, Logged(w))
    /\ UNCHANGED <<categories, files, marks, removals>>

CommunityNext ==
    \/ \E p \in Posts, visible \in BOOLEAN : CreatePost(p, visible)
    \/ \E w \in Writers :
        \/ \E p \in Posts : UpdatePostReads(w, p)
        \/ \E p \in Posts, parent \in Comments \cup {"none"} : CommentReads(w, p, parent)
        \/ \E i \in Posts \cup Comments : DeleteReads(w, i)
        \/ \E u \in People, i \in Posts \cup Resources : MarkReads(w, u, i)
        \/ \E r \in Resources, g \in Categories : CreateResourceReads(w, r, g)
        \/ \E i \in Items, action \in DOMAIN ActionStatus : ModerateReads(w, i, action)
        \/ UpdatePostWrites(w) \/ DeleteWrites(w) \/ CommentWrites(w) \/ MarkWrites(w)
        \/ Uploads(w) \/ CreateResourceWrites(w) \/ ModerateWrites(w)
    \/ \E u \in People, i \in Posts \cup Resources : Unmark(u, i)
    \/ \E g \in Categories : DeleteCategory(g)

CommunitySpec == CommunityInit /\ [][CommunityNext]_communityVars

-----------------------------------------------------------------------------
(* Properties                                                              *)

\* Every variable has its type; only a resource has a category and is
\* archived, and only a comment is under a post.
CommunityTypeOK ==
    /\ \A i \in Items :
        /\ item[i].removed \in {"no", "author", "admin"} /\ item[i].visible \in BOOLEAN
        /\ item[i].moderation \in {"clear", "hidden", "rejected"}
                                 \cup (IF i \in Resources THEN {"archived"} ELSE {})
        /\ item[i].there => /\ (i \in Resources <=> item[i].category \in Categories)
                            /\ (i \in Comments <=> item[i].under \in Posts)
    /\ categories \subseteq Categories /\ files \subseteq Resources
    /\ marks \subseteq People \X (Posts \cup Resources)

RecordsOf(i) == {n \in DOMAIN modLog : modLog[n].on = i}

\* What an item's moderation status is, its last audit record says: also when
\* two administrators moderate it at a time.  (The previous status of a record
\* is the one its administrator read, and may be stale.)
StatusIsLastAudited ==
    \A i \in Items :
        item[i].moderation = IF RecordsOf(i) = {} THEN "clear" ELSE modLog[Max(RecordsOf(i))].to

\* What an administrator removed has a record of it, whoever removed it too.
RemovalsAudited == \A i \in Items : item[i].removed = "admin" => i \in removals

\* A resource always has its category and its file, whatever was deleted
\* between the checks of its creation and its insert.
ResourceIsWhole ==
    \A r \in Resources : item[r].there => item[r].category \in categories /\ r \in files

\* What was removed stays removed: no edit, comment or moderation that was
\* under way shows it again.
RemovedStaysRemoved ==
    [][\A i \in Items : item[i].removed # "no" => item'[i].removed # "no"]_communityVars

\* Contents, their categories and files and the audit of moderators agree.
CommunityConsistent ==
    CommunityTypeOK /\ StatusIsLastAudited /\ RemovalsAudited /\ ResourceIsWhole
=============================================================================
