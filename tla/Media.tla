------------------------------- MODULE Media -------------------------------
(***************************************************************************)
(* MediaService for the attachments of support tickets: the rows of        *)
(* media_assets and the objects of the storage provider they stand for.    *)
(*                                                                         *)
(* A file is sent through the API, or the client is given a URL to put it  *)
(* under and finalizes it afterwards.  Row and object change one after the *)
(* other, and a handler saves the row it read before it asked the          *)
(* provider.  Sizes, formats and images of the menu are left out.          *)
(***************************************************************************)
EXTENDS Naturals, FiniteSets

CONSTANTS Users,    \* who may upload
          Tickets,  \* support tickets, the targets of attachments
          Assets    \* bound: media assets that ever exist

VARIABLES
  asset,      \* the row: who uploads it for which ticket, and its status
  object,     \* what is stored under its key
  stored,     \* history: assets whose file has been stored as announced
  uploading,  \* files stored by upload, whose row is not saved yet
  finalizing  \* how far finalize is with an asset

mediaVars == <<asset, object, stored, uploading, finalizing>>

\* "url": the client was given a URL to put the file under.
AssetRow == [by : SUBSET Users, target : SUBSET Tickets, url : BOOLEAN,
             status : {"none", "pending", "active"}]

MediaTypeOK ==
  /\ asset \in [Assets -> AssetRow]
  /\ object \in [Assets -> {"none", "good", "bad"}]
  /\ stored \in SUBSET Assets /\ uploading \in SUBSET Assets
  /\ finalizing \in [Assets -> {"no", "read", "checked"}]

MediaInit ==
  /\ asset = [a \in Assets |-> [by |-> {}, target |-> {}, url |-> FALSE, status |-> "none"]]
  /\ object = [a \in Assets |-> "none"]
  /\ stored = {} /\ uploading = {}
  /\ finalizing = [a \in Assets |-> "no"]
-----------------------------------------------------------------------------
Unused(a) == asset[a].by = {}
\* The key is new, so no other row or object has it.
For(a, u, t, url, s) ==
  asset' = [asset EXCEPT ![a] = [by |-> {u}, target |-> {t}, url |-> url, status |-> s]]

\* upload stores the file first.  The caller has checked access to t.
Upload(a, u, t) ==
  /\ Unused(a)
  /\ For(a, u, t, FALSE, "none")
  /\ object' = [object EXCEPT ![a] = "good"]
  /\ stored' = stored \cup {a}
  /\ uploading' = uploading \cup {a}
  /\ UNCHANGED finalizing

SaveUpload(a) ==
  /\ a \in uploading
  /\ asset' = [asset EXCEPT ![a].status = "active"]
  /\ uploading' = uploading \ {a}
  /\ UNCHANGED <<object, stored, finalizing>>

\* The row cannot be saved and the object is deleted again; or the API dies
\* and it stays.
UploadFails(a) ==
  /\ a \in uploading
  /\ uploading' = uploading \ {a}
  /\ object' \in {object, [object EXCEPT ![a] = "none"]}
  /\ UNCHANGED <<asset, stored, finalizing>>

AuthorizeUpload(a, u, t) ==
  /\ Unused(a)
  /\ For(a, u, t, TRUE, "pending")
  /\ UNCHANGED <<object, stored, uploading, finalizing>>

\* The client puts a file under the URL, the announced one or another, also
\* when the asset has been finalized or removed meanwhile.
Put(a, file) ==
  /\ asset[a].url /\ file \in {"good", "bad"}
  /\ object' = [object EXCEPT ![a] = file]
  /\ stored' = IF file = "good" THEN stored \cup {a} ELSE stored
  /\ UNCHANGED <<asset, uploading, finalizing>>

\* finalize: the pending row, the metadata of the object, the save.
ReadPending(a) ==
  /\ asset[a].status = "pending" /\ finalizing[a] = "no"
  /\ finalizing' = [finalizing EXCEPT ![a] = "read"]
  /\ UNCHANGED <<asset, object, stored, uploading>>

CheckObject(a) ==
  /\ finalizing[a] = "read"
  /\ finalizing' = [finalizing EXCEPT ![a] = IF object[a] = "good" THEN "checked" ELSE "no"]
  /\ UNCHANGED <<asset, object, stored, uploading>>

SaveFinal(a) ==
  /\ finalizing[a] = "checked"
  /\ asset' = [asset EXCEPT ![a].status = "active"]
  /\ finalizing' = [finalizing EXCEPT ![a] = "no"]
  /\ UNCHANGED <<object, stored, uploading>>

\* remove deletes the object and then saves the row as 'deleted', a status the
\* CHECK of the table does not have: the save fails and the row stays.
Remove(a) ==
  /\ asset[a].status # "none"
  /\ object' = [object EXCEPT ![a] = "none"]
  /\ UNCHANGED <<asset, stored, uploading, finalizing>>

\* The API dies between two steps of a handler.
MediaCrash ==
  /\ uploading' = {}
  /\ finalizing' = [a \in Assets |-> "no"]
  /\ UNCHANGED <<asset, object, stored>>

\* All but the two operations whose access the ticket decides.
MediaNext ==
  \/ \E a \in Assets : \/ SaveUpload(a) \/ UploadFails(a) \/ ReadPending(a)
                       \/ CheckObject(a) \/ SaveFinal(a) \/ Remove(a)
                       \/ \E file \in {"good", "bad"} : Put(a, file)
  \/ MediaCrash
-----------------------------------------------------------------------------
\* An asset that is active has had its file stored as it was announced, whoever
\* replaced or removed the file before finalize or remove got to the row.
ActiveWasStored ==
  \A a \in Assets : asset[a].status = "active" => a \in stored
=============================================================================
