------------------------------ MODULE Accounts ------------------------------
(* The users collection: accounts created by a checkout or a login, filled  *)
(* in from later checkouts, and edited by their owners.  model_dump() writes *)
(* a field that is not given as an explicit null, and a sparse unique index *)
(* of MongoDB skips only documents that lack the field: two nulls collide.  *)
(* Names, the address book and phone_verified, which no decision below      *)
(* reads, are left out, and so is get_or_create_by_phone, which nothing     *)
(* calls.                                                                   *)
CONSTANTS Users,            \* account ids
          Emails, Phones,
          Null,             \* a field without a value
          Customers         \* requests being served at one time

VARIABLES account,  \* the collection, by account id
          req,      \* the checkout a process is capturing
          rejected  \* history: verified logins refused by an index

accountVars == <<account, req, rejected>>

NoReq == [pc |-> "idle", phone |-> Null, email |-> Null, user |-> Null,
          hadPhone |-> Null, hadEmail |-> Null]

AccountInit ==
  /\ account = <<>>
  /\ req = [c \in Customers |-> NoReq]
  /\ rejected = {}

ByPhone(phone) == {u \in DOMAIN account : account[u].phone = phone}
ByEmail(email) == {u \in DOMAIN account : account[u].email = email}

(* The two unique indexes of ensure_indexes.                                *)
AcceptsByPhone(u, phone, email) == \A v \in DOMAIN account \ {u} : account[v].phone # phone
Accepts(u, phone, email) ==
  \A v \in DOMAIN account \ {u} : account[v].phone # phone /\ account[v].email # email

NewDoc(phone, email) == [phone |-> phone, email |-> email]

Insert(u, phone, email) ==
  /\ u \in Users \ DOMAIN account
  /\ Accepts(u, phone, email)
  /\ account' = [v \in DOMAIN account \cup {u} |->
                   IF v = u THEN NewDoc(phone, email) ELSE account[v]]

(* update_profile: the fields of the patch, which may be null, replace those *)
(* of the account.                                                          *)
Keep == "keep"
Or(patch, field) == IF patch = Keep THEN field ELSE patch
Patched(doc, phone, email) ==
  [phone |-> Or(phone, doc.phone), email |-> Or(email, doc.email)]

Update(u, phone, email) ==
  LET doc == Patched(account[u], phone, email)
  IN IF Accepts(u, doc.phone, doc.email)
     THEN account' = [account EXCEPT ![u] = doc]
     ELSE UNCHANGED account      \* DuplicateKeyError, ProfileConflictError

-----------------------------------------------------------------------------
Take(c, pc) ==
  req' = [req EXCEPT ![c] = IF pc = "idle" THEN NoReq ELSE [@ EXCEPT !.pc = pc]]
Found(c, u) ==
  req' = [req EXCEPT ![c].pc = "claims", ![c].user = u,
                     ![c].hadPhone = account[u].phone, ![c].hadEmail = account[u].email]

(* The owner edits the profile: PATCH /api/account/me.                      *)
EditProfile ==
  /\ \E u \in DOMAIN account, phone \in Phones \cup {Null, Keep}, email \in Emails \cup {Null, Keep} :
       Update(u, phone, email)
  /\ UNCHANGED <<req, rejected>>

(* capture_from_checkout, with the account of the session when there is one. *)
StartCapture(c) ==
  /\ req[c].pc = "idle"
  /\ \E phone \in Phones \cup {Null}, email \in Emails \cup {Null}, u \in DOMAIN account \cup {Null} :
       req' = [req EXCEPT ![c] = [NoReq EXCEPT !.pc = "byId", !.phone = phone,
                                                !.email = email, !.user = u]]
  /\ UNCHANGED <<account, rejected>>

CaptureById(c) ==
  /\ req[c].pc = "byId"
  /\ IF req[c].user \in DOMAIN account THEN Found(c, req[c].user) ELSE Take(c, "byPhone")
  /\ UNCHANGED <<account, rejected>>

(* A lookup without a value finds nobody.                                   *)
Lookup(c, found, otherwise) ==
  \/ \E u \in found : Found(c, u)
  \/ /\ found = {}
     /\ Take(c, otherwise)

PhoneOwner(c) == IF req[c].phone = Null THEN {} ELSE ByPhone(req[c].phone)
EmailOwner(c) == IF req[c].email = Null THEN {} ELSE ByEmail(req[c].email)

CaptureByPhone(c) ==
  /\ req[c].pc = "byPhone"
  /\ Lookup(c, PhoneOwner(c), "byEmail")
  /\ UNCHANGED <<account, rejected>>

CaptureByEmail(c) ==
  /\ req[c].pc = "byEmail"
  /\ Lookup(c, EmailOwner(c),
            IF req[c].phone = Null /\ req[c].email = Null THEN "idle" ELSE "insert")
  /\ UNCHANGED <<account, rejected>>

CaptureInsert(c) ==
  /\ req[c].pc = "insert"
  /\ \E u \in Users \ DOMAIN account :
       IF Accepts(u, req[c].phone, req[c].email)
       THEN /\ Insert(u, req[c].phone, req[c].email)
            /\ req' = [req EXCEPT ![c].pc = "claims", ![c].user = u,
                         ![c].hadPhone = req[c].phone, ![c].hadEmail = req[c].email]
       ELSE /\ Take(c, "againByPhone")
            /\ UNCHANGED account
  /\ UNCHANGED rejected

(* DuplicateKeyError: look again; finding nobody, the error is raised and   *)
(* the order goes on without an account.                                    *)
CaptureAgain(c) ==
  /\ \/ /\ req[c].pc = "againByPhone"
        /\ Lookup(c, PhoneOwner(c), "againByEmail")
     \/ /\ req[c].pc = "againByEmail"
        /\ Lookup(c, EmailOwner(c), "idle")
  /\ UNCHANGED <<account, rejected>>

(* Fields the account read earlier lacks are filled in, unless another      *)
(* account has the value by now.  The two lookups decide one field each.    *)
Fill(had, wanted, owner, u) ==
  IF had = Null /\ wanted # Null /\ owner \subseteq {u} THEN wanted ELSE Keep

CaptureEmailClaim(c) ==
  /\ req[c].pc = "claims"
  /\ req' = [req EXCEPT ![c].pc = "claimPhone",
               ![c].email = Fill(req[c].hadEmail, @, ByEmail(@), req[c].user)]
  /\ UNCHANGED <<account, rejected>>

CapturePhoneClaim(c) ==
  /\ req[c].pc = "claimPhone"
  /\ req' = [req EXCEPT ![c].pc = "patch",
               ![c].phone = Fill(req[c].hadPhone, @, ByPhone(@), req[c].user)]
  /\ UNCHANGED <<account, rejected>>

CapturePatch(c) ==
  /\ req[c].pc = "patch"
  /\ Update(req[c].user, req[c].phone, req[c].email)
  /\ Take(c, "idle")
  /\ UNCHANGED rejected

CaptureStep(c) ==
  \/ StartCapture(c) \/ CaptureById(c) \/ CaptureByPhone(c) \/ CaptureByEmail(c)
  \/ CaptureInsert(c) \/ CaptureAgain(c)
  \/ CaptureEmailClaim(c) \/ CapturePhoneClaim(c) \/ CapturePatch(c)
=============================================================================
