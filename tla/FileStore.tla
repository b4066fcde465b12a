------------------------------ MODULE FileStore ------------------------------
(***************************************************************************)
(* Files, resumable uploads, custom emoji and avatars, and their retention: *)
(* api/files.rs, api/v4/files.rs, api/v4/uploads.rs, api/v4/emoji.rs,      *)
(* api/v4/users/media.rs, storage/s3.rs, jobs/retention.rs.                *)
(*                                                                         *)
(* A row in the database names an object in S3; no transaction spans both. *)
(* The content of a file is the sequence of its chunks, a chunk the number *)
(* of the place its sender believes it goes to.  Names, types, hashes and  *)
(* the pictures' sizes are left out: whether a thumbnail and a preview can *)
(* be made is a choice.                                                    *)
(***************************************************************************)
EXTENDS Requests, FiniteSets

CONSTANTS
    Files, Uploads, Emojis, Names, Messages,
    UploadSize   \* chunks of a resumable upload

ASSUME FileStoreAssumption == UploadSize \in Nat \ {0}

VARIABLES
    object,      \* S3: key -> content, for the keys that have an object
    file,        \* files: id -> row, None: no row
    upload,      \* upload_sessions: id -> row, None: no row
    emoji,       \* custom_emojis: id -> row, None: no row
    avatar,      \* whether users.avatar_url is set
    message,     \* posts: id -> row, None: no row
    client,      \* session -> the chunks its sender knows the server has, None: it has to ask
    leaving,     \* history: files that somebody began to delete
    overlapped,  \* history: sessions with two requests at the same time
    due          \* history: files that the last retention pass should have removed

FileVars == <<object, file, upload, emoji, avatar, message, client, leaving, overlapped, due>>

Key(kind, id) == <<kind, id>>
NewUpload == [offset |-> 0, data |-> <<>>, expired |-> FALSE]
Whole == [i \in 1..UploadSize |-> i]

FileStoreInit ==
    /\ object = <<>>
    /\ file = [f \in Files |-> None]
    /\ \E begun \in SUBSET Uploads :
          /\ upload = [u \in Uploads |-> IF u \in begun THEN NewUpload ELSE None]
          /\ client = [u \in Uploads |-> IF u \in begun THEN 0 ELSE None]
    /\ emoji = [e \in Emojis |-> None] /\ avatar = FALSE
    /\ \E root \in Messages, pinned \in SUBSET Messages :
          message = [m \in Messages |-> [root |-> IF m = root THEN None ELSE root, pinned |-> m \in pinned, old |-> FALSE]]
    /\ leaving = {} /\ overlapped = {} /\ due = {}

Stored(k) == k \in DOMAIN object
\* put_object, delete_object (storage/s3.rs).
S3_upload(k, data) == object' = [x \in DOMAIN object \cup {k} |-> IF x = k THEN data ELSE object[x]]
S3_delete(k) == object' = [x \in DOMAIN object \ {k} |-> object[x]]

FileExists(f) == file[f] # None
UploadExists(u) == upload[u] # None
\* expires_at > NOW()
UploadLive(u) == IF UploadExists(u) THEN ~upload[u].expired ELSE FALSE

\* An id nobody has: neither a row, an object nor a request under way.
FreshFile == {f \in Files : ~FileExists(f) /\ ~Stored(Key("file", f)) /\ f \notin leaving
                            /\ \A t \in Tasks : \A i \in 1..Len(task[t]) : task[t][i].x # f}
FreshEmoji == {e \in Emojis : emoji[e] = None /\ ~Stored(Key("emoji", e))}

-----------------------------------------------------------------------------
(* Storing a file. *)

\* The object, its thumbnail, its preview, then the row: a statement each (v4/files.rs, uploads.rs).
StoreThenInsert(f) == <<Stmt("put", f), Stmt("thumb", f), Stmt("preview", f), Stmt("insert_file", f)>>

upload_file_v4(t) ==
    /\ \E f \in FreshFile : Begin(t, StoreThenInsert(f))
    /\ UNCHANGED FileVars

\* The row comes before the object.
InsertThenStore(t) ==
    /\ \E f \in FreshFile : Begin(t, <<Stmt("insert_file", f), Stmt("put", f)>>)
    /\ UNCHANGED FileVars

\* The thumbnail is made in the background, after the answer (api/files.rs).
upload_file(t) ==
    /\ \E f \in FreshFile : Begin(t, <<Stmt("put", f), Stmt("insert_file", f), Stmt("thumb", f), Stmt("set_thumb", f)>>)
    /\ UNCHANGED FileVars

PutObject(t, o) ==
    /\ o.do = "put"
    /\ S3_upload(Key("file", o.x), [from |-> None, data |-> Whole])
    /\ Continue(t, <<>>)
    /\ UNCHANGED <<file, upload, emoji, avatar, message, client, leaving, overlapped, due>>

\* Not an image, or S3 refuses: the file goes without.
PutThumbnail(t, o) ==
    /\ o.do = "thumb"
    /\ S3_upload(Key("thumb", o.x), None) \/ UNCHANGED object
    /\ Continue(t, <<>>)
    /\ UNCHANGED <<file, upload, emoji, avatar, message, client, leaving, overlapped, due>>
PutPreview(t, o) ==
    /\ o.do = "preview"
    /\ S3_upload(Key("preview", o.x), None) \/ UNCHANGED object
    /\ Continue(t, <<>>)
    /\ UNCHANGED <<file, upload, emoji, avatar, message, client, leaving, overlapped, due>>

InsertFile(t, o) ==
    /\ o.do = "insert_file"
    /\ file' = [file EXCEPT ![o.x] = [thumb |-> Stored(Key("thumb", o.x)), old |-> FALSE]]
    /\ Continue(t, <<>>)
    /\ UNCHANGED <<object, upload, emoji, avatar, message, client, leaving, overlapped, due>>

\* UPDATE files SET has_thumbnail: no row, no effect.
SetThumbnail(t, o) ==
    /\ o.do = "set_thumb"
    /\ file' = IF FileExists(o.x) THEN [file EXCEPT ![o.x].thumb = Stored(Key("thumb", o.x))] ELSE file
    /\ Continue(t, <<>>)
    /\ UNCHANGED <<object, upload, emoji, avatar, message, client, leaving, overlapped, due>>

\* The object goes, then the row; the thumbnail and the preview stay.
delete_file(t, f) ==
    /\ FileExists(f)
    /\ leaving' = leaving \cup {f}
    /\ Begin(t, <<Stmt("delete_object", f), Stmt("delete_file", f)>>)
    /\ UNCHANGED <<object, file, upload, emoji, avatar, message, client, overlapped, due>>
DeleteObject(t, o) ==
    /\ o.do = "delete_object"
    /\ S3_delete(Key("file", o.x))
    /\ Continue(t, <<>>)
    /\ UNCHANGED <<file, upload, emoji, avatar, message, client, leaving, overlapped, due>>
DeleteFile(t, o) ==
    /\ o.do = "delete_file"
    /\ file' = [file EXCEPT ![o.x] = None]
    /\ Continue(t, <<>>)
    /\ UNCHANGED <<object, upload, emoji, avatar, message, client, leaving, overlapped, due>>

\* What the readers need: the object of the row, and the thumbnail the row says there is.
get_file(f) == Stored(Key("file", f))
get_thumbnail(f) == file[f].thumb => Stored(Key("thumb", f))

-----------------------------------------------------------------------------
(* Resumable uploads (uploads.rs). *)

Uploading(u) == \E t \in Tasks : \E i \in 1..Len(task[t]) :
                    task[t][i].do \in {"append", "complete", "forget_upload"} /\ task[t][i].x.u = u
\* A request for a session that another one is still busy with.
Overlap(u) == overlapped' = IF Uploading(u) THEN overlapped \cup {u} ELSE overlapped

create_upload(u) ==
    /\ ~UploadExists(u) /\ ~Uploading(u)
    /\ upload' = [upload EXCEPT ![u] = NewUpload]
    /\ client' = [client EXCEPT ![u] = 0]
    /\ Statement
    /\ UNCHANGED <<object, file, emoji, avatar, message, leaving, overlapped, due>>

\* The sender that lost an answer asks how far the server is.
get_upload(u) ==
    /\ UploadLive(u) /\ client[u] = None
    /\ client' = [client EXCEPT ![u] = upload[u].offset]
    /\ Overlap(u)
    /\ Statement
    /\ UNCHANGED <<object, file, upload, emoji, avatar, message, leaving, due>>

\* The session is read; the offset it has is the one the request goes on with.  The sender has the
\* chunk after the ones it knows of, or nothing more to send; until the answer it does not know.
upload_data(t, u) ==
    /\ UploadLive(u)
    /\ client[u] # None \/ Uploading(u)
    /\ LET known == IF client[u] = None THEN upload[u].offset ELSE client[u]
       IN  Begin(t, <<Stmt("append", [u |-> u, offset |-> upload[u].offset,
                                      body |-> IF known < UploadSize THEN <<known + 1>> ELSE <<>>])>>)
    /\ client' = [client EXCEPT ![u] = None]
    /\ Overlap(u)
    /\ UNCHANGED <<object, file, upload, emoji, avatar, message, leaving, due>>

\* The offset is written first, and the data after it.
AppendInTwo(t, o) ==
    /\ o.do \in {"append", "append_data"}
    /\ IF ~UploadExists(o.x.u) THEN GiveUp(t) /\ UNCHANGED <<upload, client>>
       ELSE LET offset == o.x.offset + Len(o.x.body)
            IN  IF o.do = "append"
                THEN /\ upload' = [upload EXCEPT ![o.x.u].offset = offset]
                     /\ Continue(t, <<Stmt("append_data", o.x)>>) /\ UNCHANGED client
                ELSE /\ upload' = [upload EXCEPT ![o.x.u].data = @ \o o.x.body]
                     /\ IF offset >= UploadSize THEN Continue(t, <<Stmt("complete", [u |-> o.x.u])>>) /\ UNCHANGED client
                        ELSE Continue(t, <<>>) /\ client' = [client EXCEPT ![o.x.u] = offset]
    /\ UNCHANGED <<object, file, emoji, avatar, message, leaving, overlapped, due>>

\* One UPDATE: the data is appended to what is there, the offset is the one read plus the body.
AppendData(t, o) ==
    /\ o.do = "append"
    /\ IF ~UploadExists(o.x.u)
       THEN IF o.x.offset + Len(o.x.body) >= UploadSize THEN GiveUp(t) /\ UNCHANGED <<upload, client>>
            ELSE Continue(t, <<>>) /\ UNCHANGED <<upload, client>>
       ELSE LET offset == o.x.offset + Len(o.x.body)
            IN  /\ upload' = [upload EXCEPT ![o.x.u].offset = offset, ![o.x.u].data = @ \o o.x.body]
                /\ IF offset >= UploadSize THEN Continue(t, <<Stmt("complete", [u |-> o.x.u])>>) /\ UNCHANGED client
                   ELSE Continue(t, <<>>) /\ client' = [client EXCEPT ![o.x.u] = offset]
    /\ UNCHANGED <<object, file, emoji, avatar, message, leaving, overlapped, due>>

\* The data is read and stored under a new id; then the rest as for any file, and the session goes.
CompleteUpload(t, o) ==
    /\ o.do = "complete"
    /\ IF ~UploadExists(o.x.u) THEN GiveUp(t) /\ UNCHANGED object
       ELSE \E f \in FreshFile :
              /\ S3_upload(Key("file", f), [from |-> o.x.u, data |-> upload[o.x.u].data])
              /\ Continue(t, Tail(StoreThenInsert(f)) \o <<Stmt("forget_upload", [u |-> o.x.u])>>)
    /\ UNCHANGED <<file, upload, emoji, avatar, message, client, leaving, overlapped, due>>
ForgetUpload(t, o) ==
    /\ o.do = "forget_upload"
    /\ upload' = [upload EXCEPT ![o.x.u] = None]
    /\ Continue(t, <<>>)
    /\ UNCHANGED <<object, file, emoji, avatar, message, client, leaving, overlapped, due>>

UploadExpires(u) ==
    /\ UploadLive(u)
    /\ upload' = [upload EXCEPT ![u].expired = TRUE]
    /\ Statement
    /\ UNCHANGED <<object, file, emoji, avatar, message, client, leaving, overlapped, due>>

-----------------------------------------------------------------------------
(* Emoji and avatars. *)

NameTaken(n, rows) == \E e \in Emojis : emoji[e] # None /\ emoji[e].name = n /\ emoji[e].live \in rows

\* No live emoji of the name, the image is stored, then the row.
create_emoji(t, n) ==
    /\ ~NameTaken(n, {TRUE}) /\ ~Doing({"put_emoji", "insert_emoji"})
    /\ \E e \in FreshEmoji : Begin(t, <<Stmt("put_emoji", [e |-> e, n |-> n]), Stmt("insert_emoji", [e |-> e, n |-> n])>>)
    /\ UNCHANGED FileVars
PutEmoji(t, o) ==
    /\ o.do = "put_emoji"
    /\ S3_upload(Key("emoji", o.x.e), None)
    /\ Continue(t, <<>>)
    /\ UNCHANGED <<file, upload, emoji, avatar, message, client, leaving, overlapped, due>>
\* UNIQUE (name) counts deleted emoji too: an error, and the image stays.
InsertEmoji(t, o) ==
    /\ o.do = "insert_emoji"
    /\ IF NameTaken(o.x.n, BOOLEAN) THEN GiveUp(t) /\ UNCHANGED emoji
       ELSE emoji' = [emoji EXCEPT ![o.x.e] = [name |-> o.x.n, live |-> TRUE]] /\ Continue(t, <<>>)
    /\ UNCHANGED <<object, file, upload, avatar, message, client, leaving, overlapped, due>>
delete_emoji(e) ==
    /\ IF emoji[e] = None THEN FALSE ELSE emoji[e].live
    /\ emoji' = [emoji EXCEPT ![e].live = FALSE]
    /\ Statement
    /\ UNCHANGED <<object, file, upload, avatar, message, client, leaving, overlapped, due>>
get_emoji_image(e) == emoji[e].live => Stored(Key("emoji", e))

\* The image of one user: stored under the user's key, then the row names it (users/media.rs).
upload_user_image(t) ==
    /\ Begin(t, <<Stmt("put_avatar", None), Stmt("set_avatar", None)>>)
    /\ UNCHANGED FileVars
PutAvatar(t, o) ==
    /\ o.do = "put_avatar"
    /\ S3_upload(Key("avatar", None), None)
    /\ Continue(t, <<>>)
    /\ UNCHANGED <<file, upload, emoji, avatar, message, client, leaving, overlapped, due>>
SetAvatar(t, o) ==
    /\ o.do = "set_avatar"
    /\ avatar' = TRUE
    /\ Continue(t, <<>>)
    /\ UNCHANGED <<object, file, upload, emoji, message, client, leaving, overlapped, due>>
get_user_image == avatar => Stored(Key("avatar", None))

-----------------------------------------------------------------------------
(* Retention (jobs/retention.rs). *)

FileAges(f) ==
    /\ IF FileExists(f) THEN ~file[f].old ELSE FALSE
    /\ file' = [file EXCEPT ![f].old = TRUE]
    /\ Statement
    /\ UNCHANGED <<object, upload, emoji, avatar, message, client, leaving, overlapped, due>>
MessageAges(m) ==
    /\ IF message[m] = None THEN FALSE ELSE ~message[m].old
    /\ message' = [message EXCEPT ![m].old = TRUE]
    /\ Statement
    /\ UNCHANGED <<object, file, upload, emoji, avatar, client, leaving, overlapped, due>>

Expired(m) == IF message[m] = None THEN FALSE ELSE message[m].old /\ ~message[m].pinned
ThreadExpired(m) == IF message[m] = None THEN FALSE
                    ELSE IF message[m].root = None THEN FALSE ELSE Expired(message[m].root)

\* Old messages that are not pinned are deleted, and with them the replies to them, pinned or not.  Then
\* the keys of the old files are read from a column that table files does not have: the pass ends there.
run_retention_cleanup(messages, files) ==
    /\ messages \/ files
    /\ message' = [m \in Messages |-> IF messages /\ (Expired(m) \/ ThreadExpired(m)) THEN None ELSE message[m]]
    /\ due' = IF files THEN {f \in Files : FileExists(f) /\ file[f].old} ELSE {}
    /\ Statement
    /\ UNCHANGED <<object, file, upload, emoji, avatar, client, leaving, overlapped>>

-----------------------------------------------------------------------------

FileRequest(t) ==
    \/ upload_file(t) \/ upload_file_v4(t) \/ upload_user_image(t)
    \/ \E f \in Files : delete_file(t, f) \/ FileAges(f)
    \/ \E u \in Uploads : create_upload(u) \/ get_upload(u) \/ upload_data(t, u) \/ UploadExpires(u)
    \/ \E n \in Names : create_emoji(t, n)
    \/ \E e \in Emojis : delete_emoji(e)
    \/ \E m \in Messages : MessageAges(m)
    \/ \E messages, files \in BOOLEAN : run_retention_cleanup(messages, files)

FileStep(t, o) ==
    \/ PutObject(t, o) \/ PutThumbnail(t, o) \/ PutPreview(t, o) \/ InsertFile(t, o) \/ SetThumbnail(t, o)
    \/ DeleteObject(t, o) \/ DeleteFile(t, o)
    \/ AppendData(t, o) \/ CompleteUpload(t, o) \/ ForgetUpload(t, o)
    \/ PutEmoji(t, o) \/ InsertEmoji(t, o) \/ PutAvatar(t, o) \/ SetAvatar(t, o)

FileStoreNext ==
    \/ /\ events < MaxEvents
       /\ \E t \in Tasks : FileRequest(t) \/ (Interrupted(t) /\ UNCHANGED FileVars)
    \/ \E t \in Tasks : Busy(t) /\ FileStep(t, Head(task[t]))

-----------------------------------------------------------------------------
(* Properties. *)

\* What a row names can be read: a file nobody began to delete has its object and the thumbnail its row
\* claims, an emoji and an avatar have their image, whatever request was cut short between S3 and the
\* database and however uploads, deletions and the background thumbnail interleave.
RowsHaveObjects ==
    /\ \A f \in Files \ leaving : FileExists(f) => get_file(f) /\ get_thumbnail(f)
    /\ \A e \in Emojis : emoji[e] # None => get_emoji_image(e)
    /\ get_user_image

\* A resumable upload whose sender asks for the offset after every lost answer stores each chunk once
\* and in its place, wherever the requests were cut short; two requests at once, the question
\* among them, void it (uploads.rs, upload_data and get_upload).
UploadIsExact ==
    \A k \in DOMAIN object : k[1] = "file" /\ object[k].from \notin overlapped => object[k].data = Whole

\* The job "periodically cleans up old messages and files based on the server's retention configuration"
\* (retention.rs): a file that was old enough when a pass of the job ran is gone.
OldFilesAreRemoved == \A f \in due : ~FileExists(f)

=============================================================================
