-------------------------------- MODULE Wallet --------------------------------
(***************************************************************************)
(* The document wallet of the API (DocumentsService): a file in a          *)
(* directory and a record of it, and shares with organizations.  What the  *)
(* bytes are is checked before anything is written.                        *)
(***************************************************************************)
EXTENDS Requests

CONSTANTS
    Files,  \* fresh ids of documents
    Shares  \* fresh ids of shares

VARIABLES
    bytes,     \* the files written
    documents, \* storage.documents: the stored records
    shares,    \* storage.documentShares: none, granted or revoked
    withdrawn  \* history: the shares of which a revocation was answered

walletVars == <<bytes, documents, shares, withdrawn>>

WalletInit ==
    /\ bytes = {} /\ documents = {} /\ withdrawn = {}
    /\ shares = [s \in Shares |-> "none"]

\* The file is written synchronously, up to the put of the record.
Upload(r, d) ==
    /\ d \notin bytes
    /\ bytes' = bytes \cup {d}
    /\ Begin(r, d, [at |-> "put_document"])
    /\ UNCHANGED <<documents, shares, withdrawn>>

PutDocument(r) ==
    /\ At(r, "put_document")
    /\ documents' = documents \cup {req[r].on}
    /\ Answer(r)
    /\ UNCHANGED <<bytes, shares, withdrawn>>

\* The owner shares a document on record; the id is known once the share is put.
Share(r, d, s) ==
    /\ d \in documents /\ shares[s] = "none"
    /\ \A q \in Request : ~(At(q, "put_share") /\ req[q].share = s)
    /\ Begin(r, d, [at |-> "put_share", share |-> s])
    /\ UNCHANGED walletVars

PutShare(r) ==
    /\ At(r, "put_share")
    /\ shares' = [shares EXCEPT ![req[r].share] = "granted"]
    /\ Answer(r)
    /\ UNCHANGED <<bytes, documents, withdrawn>>

\* A share is read, then written back revoked; it may be revoked again.
RevokeShare(r, s) ==
    /\ shares[s] # "none"
    /\ Begin(r, s, [at |-> "put_revoked", share |-> s])
    /\ UNCHANGED walletVars

PutShareRevoked(r) ==
    /\ At(r, "put_revoked")
    /\ shares' = [shares EXCEPT ![req[r].share] = "revoked"]
    /\ withdrawn' = withdrawn \cup {req[r].share}
    /\ Answer(r)
    /\ UNCHANGED <<bytes, documents>>

WalletNext ==
    \E r \in Request :
        \/ \E d \in Files : Upload(r, d) \/ \E s \in Shares : Share(r, d, s)
        \/ \E s \in Shares : RevokeShare(r, s)
        \/ PutDocument(r) \/ PutShare(r) \/ PutShareRevoked(r)

-------------------------------------------------------------------------------
WalletTypeOK ==
    /\ bytes \subseteq Files /\ documents \subseteq Files /\ withdrawn \subseteq Shares
    /\ shares \in [Shares -> {"none", "granted", "revoked"}]

\* A document on record has its file, wherever an upload died (upload), and a share
\* once revoked stays so, whatever else is under way (share, revokeShare).
WalletHolds ==
    /\ documents \subseteq bytes
    /\ \A s \in withdrawn : shares[s] = "revoked"
===============================================================================
