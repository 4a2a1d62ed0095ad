----------------------------- MODULE Onboarding -----------------------------
(***************************************************************************)
(* The server's records of sellers: the stores, their owners, the waitlist *)
(* and the cached answers of DiscogsSellerLookup, with what each request   *)
(* handler checks and writes.  Stores are keyed by their Discogs username; *)
(* the unique index on it is the guard of every insert.                    *)
(***************************************************************************)
EXTENDS Naturals

CONSTANTS
    Names,      \* Discogs usernames people try; also the Discogs accounts
    Nobody,     \* no name: a blank field, an absent session key
    Plausible,  \* names that pass the checks of their format
    Stocked     \* names with the least inventory a claim asks for

ASSUME OnboardingAssumption ==
    /\ Nobody \notin Names
    /\ Stocked \subseteq Plausible /\ Plausible \subseteq Names

VARIABLES
    stores,    \* "none", "unowned" (a preview) or "owned", by username
    owners,    \* StoreOwner rows by username: the account the tokens are of
    waitlist,  \* usernames on the waitlist
    lookups    \* Rails.cache: the found answers, "" when there is none

records == <<stores, owners, waitlist, lookups>>

StoreStatus == { "none", "active_store", "active_applicant" }

RecordsTypeOK ==
    /\ stores \in [Names -> { "none", "unowned", "owned" }]
    /\ owners \in [Names -> Names \cup { Nobody }]
    /\ waitlist \subseteq Names
    /\ lookups \in [Names -> StoreStatus \cup { "" }]

RecordsInit ==
    /\ stores = [n \in Names |-> "none"]
    /\ owners = [n \in Names |-> Nobody]
    /\ waitlist = {}
    /\ lookups = [n \in Names |-> ""]

HasStore(n) == stores[n] # "none"

LocalStoreStatus(n) ==
    IF HasStore(n) THEN "active_store"
    ELSE IF n \in waitlist THEN "active_applicant" ELSE "none"

\* The cached answer, or the profile from Discogs with the local status of the
\* moment, cached for an hour; a failing Discogs, and a name it does not know,
\* are "not found" and not cached.
LookUp(n, answer) ==
    /\ UNCHANGED <<stores, owners, waitlist>>
    /\ \/ /\ n \notin Plausible \/ lookups[n] = ""
          /\ answer = "not_found"
          /\ UNCHANGED lookups
       \/ /\ n \in Plausible /\ lookups[n] # ""
          /\ answer = lookups[n]
          /\ UNCHANGED lookups
       \/ /\ n \in Plausible /\ lookups[n] = ""
          /\ answer = LocalStoreStatus(n)
          /\ lookups' = [lookups EXCEPT ![n] = answer]

\* The admin's lookup asks the tables anew whatever the cached answer says.
SignupAvailability(n, found) ==
    IF found = "not_found" THEN found ELSE LocalStoreStatus(n)

OnboardingChecks(n, checkApplicant) ==
    ~HasStore(n) /\ (checkApplicant => n \notin waitlist)

Register(n) ==
    /\ n \notin waitlist
    /\ waitlist' = waitlist \cup { n }
    /\ UNCHANGED <<stores, owners, lookups>>

CreatePreview(n) ==
    /\ n \in Plausible /\ ~HasStore(n)
    /\ stores' = [stores EXCEPT ![n] = "unowned"]
    /\ UNCHANGED <<owners, waitlist, lookups>>

\* dependent: :destroy takes the listings with it.
DestroyStore(n) ==
    /\ HasStore(n)
    /\ stores' = [stores EXCEPT ![n] = "none"]
    /\ UNCHANGED <<owners, waitlist, lookups>>

\* The transaction of the callback: the owner's tokens and the store together.
CreateOwned(n, account) ==
    /\ n \in Plausible /\ ~HasStore(n)
    /\ owners' = [owners EXCEPT ![n] = account]
    /\ stores' = [stores EXCEPT ![n] = "owned"]
    /\ UNCHANGED <<waitlist, lookups>>

\* An UPDATE of a row that is gone by now writes nothing and raises nothing.
LinkOwner(n, account) ==
    /\ owners' = [owners EXCEPT ![n] = account]
    /\ stores' = [stores EXCEPT ![n] = IF @ = "none" THEN @ ELSE "owned"]
    /\ UNCHANGED <<waitlist, lookups>>

CurrentStore(n) == stores[n] = "owned"

OauthAuthorized(n) == CurrentStore(n) /\ owners[n] # Nobody

ExpireLookup(n) ==
    /\ lookups[n] # ""
    /\ lookups' = [lookups EXCEPT ![n] = ""]
    /\ UNCHANGED <<stores, owners, waitlist>>

-----------------------------------------------------------------------------
\* Other people and the cache, through the same handlers.
OthersLookUp == \E n \in Names, a \in StoreStatus : LookUp(n, a)

OthersRegister == \E n \in Names : Register(n)

OthersOnboard == \E n \in Names : CreatePreview(n)

OthersDestroy == \E n \in Names : DestroyStore(n)

OthersClaim ==
    \E n \in Stocked : CreateOwned(n, n) \/ (HasStore(n) /\ LinkOwner(n, n))

LookupsExpire == \E n \in Names : ExpireLookup(n)

Others ==
    \/ OthersLookUp
    \/ OthersRegister
    \/ OthersOnboard
    \/ OthersDestroy
    \/ OthersClaim
    \/ LookupsExpire
=============================================================================
