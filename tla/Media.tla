-------------------------------- MODULE Media --------------------------------
(* Objects in the bucket and the rows that name them: a course's thumbnail, *)
(* a user's avatar and the picture of a portfolio item, each uploaded by    *)
(* the request that writes the row; and the video and document of a lesson, *)
(* uploaded before and given by key.  The bucket is not in the database: a  *)
(* request stores first, writes its row, and then deletes what the row no   *)
(* longer names.  Any request may stop half way, and any deletion may fail. *)
EXTENDS Naturals, FiniteSets

CONSTANTS
    CourseRows,      \* courses, each with a thumbnail
    Users,           \* users, each with an avatar
    PortfolioItems,  \* portfolio items, each with a picture
    LessonRows,      \* lessons of one course: the keys of a course are its own
    ImageKeys,       \* keys an upload of an image may draw (randomUUID)
    VideoKeys, DocumentKeys, \* keys drawn for lesson media
    Uploaders,       \* requests at a time that write a row with an image
    Authors,         \* requests at a time that write lessons or discard media
    NoKey, NullKey   \* a field left out, and a field set to null

ImageRows == CourseRows \cup Users \cup PortfolioItems
MediaKeys == VideoKeys \cup DocumentKeys

ASSUME MediaAssumption ==
    /\ CourseRows \cap Users = {} /\ PortfolioItems \cap (CourseRows \cup Users) = {}
    /\ ImageKeys \cap MediaKeys = {} /\ VideoKeys \cap DocumentKeys = {}
    /\ NoKey # NullKey /\ {NoKey, NullKey} \cap (ImageKeys \cup MediaKeys) = {}

VARIABLES
    image,     \* row with an image -> whether it is there, and the key it names
    upload,    \* requests about images in flight
    lesson,    \* lesson -> whether it is there, and the keys of its media
    author,    \* requests about lessons in flight
    stored,    \* keys of the objects in the bucket
    drawn,     \* keys drawn so far: a random key is drawn once
    contested  \* media keys that two requests in flight ever named at a time

imageVars == <<image, upload>>
lessonVars == <<lesson, author, contested>>
mediaVars == <<imageVars, lessonVars, stored, drawn>>

NoRequest == [op |-> "none"]
NoMedia == [video |-> NoKey, document |-> NoKey]
MediaKinds == {"video", "document"}
\* What a request may give: a key of the kind, null, or nothing.
GivenMedia == [video : VideoKeys \cup {NoKey, NullKey}, document : DocumentKeys \cup {NoKey, NullKey}]
LessonMedia == [video : VideoKeys \cup {NoKey}, document : DocumentKeys \cup {NoKey}]

MediaInit ==
    /\ image = [i \in ImageRows |-> [state |-> IF i \in Users THEN "there" ELSE "none",
                                     key |-> NoKey]]
    /\ lesson = [l \in LessonRows |-> [state |-> "none", media |-> NoMedia]]
    /\ upload = [r \in Uploaders |-> NoRequest] /\ author = [r \in Authors |-> NoRequest]
    /\ stored = {} /\ drawn = {} /\ contested = {}

-----------------------------------------------------------------------------
(* Images: thumbnails, avatars and portfolio pictures                       *)

Goes(r, next) == upload' = [upload EXCEPT ![r] = next]

\* What the request is to delete from the bucket; it has ended if that is nothing.
RemovalOf(key) == IF key = NoKey THEN NoRequest ELSE [op |-> "remove", key |-> key]

CreateBegins(r, rows) ==
    /\ upload[r] = NoRequest
    /\ Goes(r, [op |-> "create", rows |-> rows, new |-> NoKey])
    /\ UNCHANGED <<image, stored, drawn>>

\* An update reads the key that the row names, of a row that is there.
UpdateBegins(r, i) ==
    /\ upload[r] = NoRequest /\ image[i].state = "there"
    /\ Goes(r, [op |-> "update", on |-> i, old |-> image[i].key, new |-> NoKey])
    /\ UNCHANGED <<image, stored, drawn>>

\* The file that was sent is stored under a key of its own before the row is written.
StoreImage(r, k) ==
    /\ upload[r].op \in {"create", "update"} /\ upload[r].new = NoKey
    /\ k \notin drawn
    /\ stored' = stored \cup {k} /\ drawn' = drawn \cup {k}
    /\ Goes(r, [upload[r] EXCEPT !.new = k])
    /\ UNCHANGED image

\* With the file that was sent, or without one.
InsertRow(r, i) ==
    /\ upload[r].op = "create" /\ i \in upload[r].rows /\ image[i].state = "none"
    /\ image' = [image EXCEPT ![i] = [state |-> "there", key |-> upload[r].new]]
    /\ Goes(r, NoRequest)
    /\ UNCHANGED <<stored, drawn>>

\* The insert fails, a course's for good when its slug is taken a third time.
InsertFails(r) ==
    /\ upload[r].op = "create"
    /\ Goes(r, RemovalOf(upload[r].new))
    /\ UNCHANGED <<image, stored, drawn>>

\* A file, or the null that clears a course's thumbnail: else the write is not about the image.
Brings(r) == upload[r].new # NoKey \/ upload[r].on \in CourseRows

\* The row is written by its id; a portfolio item only while it is there.
WriteRow(r) ==
    /\ upload[r].op = "update" /\ Brings(r)
    /\ image[upload[r].on].state = "there"
    /\ image' = [image EXCEPT ![upload[r].on].key = upload[r].new]
    /\ Goes(r, RemovalOf(upload[r].old))
    /\ UNCHANGED <<stored, drawn>>

\* The write throws, or finds no portfolio item to write.  (A write of a portfolio item that
\* throws is not caught: the request stops.)
WriteRefused(r) ==
    /\ upload[r].op = "update"
    /\ upload[r].on \in PortfolioItems => image[upload[r].on].state # "there"
    /\ Goes(r, RemovalOf(upload[r].new))
    /\ UNCHANGED <<image, stored, drawn>>

DeleteItemBegins(r, i) ==
    /\ upload[r] = NoRequest /\ image[i].state = "there"
    /\ Goes(r, [op |-> "delete", on |-> i, old |-> image[i].key])
    /\ UNCHANGED <<image, stored, drawn>>

\* The item is marked deleted, once; the picture deleted is the one that was read.
DeleteItem(r) ==
    /\ upload[r].op = "delete"
    /\ \/ /\ image[upload[r].on].state = "there"
          /\ image' = [image EXCEPT ![upload[r].on].state = "deleted"]
          /\ Goes(r, RemovalOf(upload[r].old))
       \/ /\ image[upload[r].on].state = "deleted"
          /\ UNCHANGED image /\ Goes(r, NoRequest)
    /\ UNCHANGED <<stored, drawn>>

\* Best effort.
RemoveImage(r) ==
    /\ upload[r].op = "remove"
    /\ stored' \in {stored, stored \ {upload[r].key}}
    /\ Goes(r, NoRequest)
    /\ UNCHANGED <<image, drawn>>

ImageNext ==
    \E r \in Uploaders :
        \/ \E rows \in {CourseRows, PortfolioItems} : CreateBegins(r, rows)
        \/ \E i \in ImageRows : UpdateBegins(r, i) \/ InsertRow(r, i)
        \/ \E k \in ImageKeys : StoreImage(r, k)
        \/ InsertFails(r) \/ WriteRow(r) \/ WriteRefused(r)
        \/ \E i \in PortfolioItems : DeleteItemBegins(r, i)
        \/ DeleteItem(r) \/ RemoveImage(r)
        \/ Goes(r, NoRequest) /\ UNCHANGED <<image, stored, drawn>>   \* the request stops

-----------------------------------------------------------------------------
(* The media of lessons                                                     *)

KeysIn(media) == {media[kind] : kind \in MediaKinds} \ {NoKey, NullKey}

Turns(r, next) == author' = [author EXCEPT ![r] = next]

\* Mutant: the references are not counted.
ReferencedNever(k) == FALSE

\* A lesson that is there names the key.
Referenced(k) == \E l \in LessonRows : lesson[l].state = "there" /\ k \in KeysIn(lesson[l].media)

\* What is to be deleted if nothing refers to it, counted for each key.
Cleaning(keys) == IF keys = {} THEN NoRequest ELSE [op |-> "clean", doomed |-> keys, free |-> NoKey]

AuthorizeVideo(k) ==
    /\ k \notin drawn
    /\ drawn' = drawn \cup {k}
    /\ UNCHANGED <<author, lesson, stored>>

\* The client puts the video with the signed address, until that expires.
ClientPuts(k) ==
    /\ k \in drawn
    /\ stored' = stored \cup {k}
    /\ UNCHANGED <<author, lesson, drawn>>

UploadDocument(k) ==
    /\ k \notin drawn
    /\ stored' = stored \cup {k} /\ drawn' = drawn \cup {k}
    /\ UNCHANGED <<author, lesson>>

\* Create: no lesson yet.  Update: the lesson is there, its keys are read.
SaveBegins(r, l, given) ==
    /\ author[r] = NoRequest
    /\ l # NoKey => lesson[l].state = "there"
    /\ Turns(r, [op |-> "save", on |-> l, given |-> given, unchecked |-> KeysIn(given),
                 old |-> IF l = NoKey THEN NoMedia ELSE lesson[l].media])
    /\ UNCHANGED <<lesson, stored, drawn>>

\* assertInputMedia: the object of a key that is given is in the bucket.
AssertMedia(r, k) ==
    /\ author[r].op = "save" /\ k \in author[r].unchecked /\ k \in stored
    /\ Turns(r, [author[r] EXCEPT !.unchecked = @ \ {k}])
    /\ UNCHANGED <<lesson, stored, drawn>>

Checked(r) == author[r].op = "save" /\ author[r].unchecked = {}

\* What a row holds after a write: a field left out stays, null empties it.
Merged(old, given) ==
    [kind \in MediaKinds |-> IF given[kind] = NoKey THEN old[kind]
                        ELSE IF given[kind] = NullKey THEN NoKey ELSE given[kind]]

CreateLesson(r, l) ==
    /\ Checked(r) /\ author[r].on = NoKey /\ lesson[l].state = "none"
    /\ lesson' = [lesson EXCEPT ![l] = [state |-> "there", media |-> Merged(NoMedia, author[r].given)]]
    /\ Turns(r, NoRequest)
    /\ UNCHANGED <<stored, drawn>>

\* The keys that were read and that the request gave another value for.
Replaced(r) ==
    {author[r].old[kind] : kind \in {d \in MediaKinds : author[r].given[d] \notin {NoKey, author[r].old[d]}}}
        \ {NoKey, NullKey}

\* By id: also of a lesson that was deleted since it was read.
UpdateLesson(r) ==
    /\ Checked(r) /\ author[r].on # NoKey
    /\ LET l == author[r].on IN
       lesson' = [lesson EXCEPT ![l] = [state |-> lesson[l].state,
                                        media |-> Merged(lesson[l].media, author[r].given)]]
    /\ Turns(r, Cleaning(Replaced(r)))
    /\ UNCHANGED <<stored, drawn>>

\* The slug or the place is taken, or the write fails: what was given is cleaned up.
SaveFails(r) ==
    /\ Checked(r)
    /\ Turns(r, Cleaning(KeysIn(author[r].given)))
    /\ UNCHANGED <<lesson, stored, drawn>>

DeleteLessonBegins(r, l) ==
    /\ author[r] = NoRequest /\ lesson[l].state = "there"
    /\ Turns(r, [op |-> "delete", on |-> l, old |-> lesson[l].media])
    /\ UNCHANGED <<lesson, stored, drawn>>

DeleteLesson(r) ==
    /\ author[r].op = "delete"
    /\ LET l == author[r].on IN
       \/ /\ lesson[l].state = "there"
          /\ lesson' = [lesson EXCEPT ![l] = [state |-> "deleted", media |-> lesson[l].media]]
          /\ Turns(r, Cleaning(KeysIn(author[r].old)))
       \/ /\ lesson[l].state = "deleted"
          /\ UNCHANGED lesson /\ Turns(r, NoRequest)
    /\ UNCHANGED <<stored, drawn>>

\* deleteMediaBestEffort, for one key after the other.
CountReferences(r, k) ==
    /\ author[r].op = "clean" /\ author[r].free = NoKey /\ k \in author[r].doomed
    /\ IF Referenced(k)
       THEN Turns(r, Cleaning(author[r].doomed \ {k}))
       ELSE Turns(r, [op |-> "clean", doomed |-> author[r].doomed \ {k}, free |-> k])
    /\ UNCHANGED <<lesson, stored, drawn>>

\* discardMedia: refused when a lesson refers to it.
DiscardBegins(r, k) ==
    /\ author[r] = NoRequest /\ ~Referenced(k)
    /\ Turns(r, [op |-> "clean", doomed |-> {}, free |-> k])
    /\ UNCHANGED <<lesson, stored, drawn>>

RemoveMedia(r) ==
    /\ author[r].op = "clean" /\ author[r].free # NoKey
    /\ stored' \in {stored, stored \ {author[r].free}}
    /\ Turns(r, Cleaning(author[r].doomed))
    /\ UNCHANGED <<lesson, drawn>>

\* The keys a request was given, has read or is about to delete.
Named(w) ==
    CASE w.op = "save" -> KeysIn(w.given) \cup KeysIn(w.old)
      [] w.op = "delete" -> KeysIn(w.old)
      [] w.op = "clean" -> (w.doomed \cup {w.free}) \ {NoKey}
      [] OTHER -> {}

LessonMediaNext ==
    /\ \/ \E k \in VideoKeys : AuthorizeVideo(k) \/ ClientPuts(k)
       \/ \E k \in DocumentKeys : UploadDocument(k)
       \/ \E r \in Authors :
           \/ \E l \in LessonRows \cup {NoKey}, given \in GivenMedia : SaveBegins(r, l, given)
           \/ \E k \in MediaKeys : AssertMedia(r, k) \/ CountReferences(r, k) \/ DiscardBegins(r, k)
           \/ \E l \in LessonRows : CreateLesson(r, l) \/ DeleteLessonBegins(r, l)
           \/ UpdateLesson(r) \/ SaveFails(r) \/ DeleteLesson(r) \/ RemoveMedia(r)
           \/ Turns(r, NoRequest) /\ UNCHANGED <<lesson, stored, drawn>>   \* the request stops
    /\ contested' = contested \cup
           {k \in MediaKeys : \E r, s \in Authors :
               r # s /\ k \in Named(author'[r]) /\ k \in Named(author'[s])}

MediaNext ==
    \/ ImageNext /\ UNCHANGED lessonVars
    \/ LessonMediaNext /\ UNCHANGED imageVars

MediaSpec == MediaInit /\ [][MediaNext]_mediaVars

-----------------------------------------------------------------------------
(* Properties                                                               *)

MediaTypeOK ==
    /\ image \in [ImageRows -> [state : {"none", "there", "deleted"}, key : ImageKeys \cup {NoKey}]]
    /\ lesson \in [LessonRows -> [state : {"none", "there", "deleted"}, media : LessonMedia]]
    /\ stored \subseteq drawn /\ drawn \subseteq ImageKeys \cup MediaKeys
    /\ contested \subseteq MediaKeys

\* Whatever requests cross and wherever they stop, the image a row shows is in the bucket,
\* and it is the row's alone.
ImagesStored ==
    \A i \in ImageRows :
        image[i].state = "there" /\ image[i].key # NoKey =>
            /\ image[i].key \in stored
            /\ \A j \in ImageRows \ {i} : image[j].key # image[i].key

\* A lesson loses its video or document only when two requests named the key at a time: one
\* counted the references before the other wrote its own.  Requests that follow each other
\* never delete what another lesson refers to.
LessonMediaStored ==
    \A l \in LessonRows :
        lesson[l].state = "there" => KeysIn(lesson[l].media) \subseteq stored \cup contested

\* Rows and bucket agree, although no transaction spans them.
MediaKept == MediaTypeOK /\ ImagesStored /\ LessonMediaStored
=============================================================================
