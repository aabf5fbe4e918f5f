--------------------------- MODULE ResourceService ---------------------------
(***************************************************************************)
(* internal/logic/resource.go: an in-memory store behind a RWMutex, and    *)
(* clients that walk its pages while others create, patch and delete.      *)
(* Every handler is one critical section, what it does to its own copy     *)
(* afterwards included.  Of a resource's fields the model keeps the owner, *)
(* which ListResources filters by.                                         *)
(***************************************************************************)
EXTENDS Integers, FiniteSetsExt

CONSTANTS
  MaxId,            \* ids are 1..MaxId; their order is the order of the strings
  Owners, NoOwner,  \* NoOwner is the empty owner: a filter that lets all pass
  Unset,            \* a field that is absent from a patch
  Sizes,            \* the page_size of a request, 0 standing for all that are <= 0
  DefaultPageSize,  \* defaultPageSize
  Walkers

ASSUME ResourceAssumption ==
  /\ MaxId \in Nat /\ NoOwner \in Owners /\ Unset \notin Owners
  /\ Sizes \subseteq Nat /\ DefaultPageSize \in Nat \ {0}

Ids == 1..MaxId

VARIABLES
  store,   \* the owner of each resource that is there
  used,    \* ids newID has given out
  walk,    \* of each walker: "idle", "walking" or "done"
  filter, size, token,  \* the request of its next page; token 0 is the empty one
  listed, again,  \* the ids of its pages so far, and those it got more than once
  held     \* history: ids that have passed its filter ever since its first page

resourceVars == <<store, used, walk, filter, size, token, listed, again, held>>
walkVars == <<walk, filter, size, token, listed, again>>

ResourceInit ==
  /\ store = [id \in {} |-> NoOwner] /\ used = {}
  /\ walk = [w \in Walkers |-> "idle"]
  /\ filter = [w \in Walkers |-> NoOwner]
  /\ size = [w \in Walkers |-> 0]
  /\ token = [w \in Walkers |-> 0]
  /\ listed = [w \in Walkers |-> {}] /\ again = [w \in Walkers |-> {}]
  /\ held = [w \in Walkers |-> {}]

Passing(s, owner) == {id \in DOMAIN s : owner = NoOwner \/ s[id] = owner}

\* What a change of the store does to the history of the walks.
Recheck(s) == held' = [w \in Walkers |-> held[w] \cap Passing(s, filter[w])]

-----------------------------------------------------------------------------
(* Create, Update and Delete.  Calls that only read, or are refused (no        *)
(* resource, no id, not found), leave the store as it is and are not shown. *)

\* newID is random: it may fall anywhere in the order, and does not repeat.
CreateResource(id, owner) ==
  /\ id \in Ids \ used
  /\ used' = used \cup {id}
  /\ store' = [i \in DOMAIN store \cup {id} |-> IF i = id THEN owner ELSE store[i]]
  /\ Recheck(store')
  /\ UNCHANGED walkVars

\* A patch replaces the owner if it has one (Unset: it has not).
UpdateResource(id, owner) ==
  /\ id \in DOMAIN store
  /\ store' = [store EXCEPT ![id] = IF owner = Unset THEN @ ELSE owner]
  /\ Recheck(store')
  /\ UNCHANGED <<used, walkVars>>

DeleteResource(id) ==
  /\ id \in DOMAIN store
  /\ store' = [i \in DOMAIN store \ {id} |-> store[i]]
  /\ Recheck(store')
  /\ UNCHANGED <<used, walkVars>>

-----------------------------------------------------------------------------
(* ListResources *)

\* Faulty variant: the walk resumes at the token instead of after it.
After_AtToken(all, tok) == {id \in all : id >= tok}

\* Faulty variant: the token is looked up, and a deleted one is not found.
After_LooksUp(all, tok) == {id \in all : id > tok /\ tok \in all \cup {0}}

\* The clones are sorted by id; those past the token, which need not be there any more,
\* or all for the empty token.
After(all, tok) == {id \in all : id > tok}

PageSize(n) == IF n = 0 THEN DefaultPageSize ELSE n

\* The first of them, as many as make a page.
Page(rest, n) == {id \in rest : Cardinality({j \in rest : j <= id}) <= PageSize(n)}

\* The last id of the page, if there is more after it.
NextPageToken(rest, page) == IF page # rest /\ page # {} THEN Max(page) ELSE 0

\* A walker asks for a page, the first with an empty token, any filter and size ...
Begin(w, owner, n) ==
  /\ walk[w] # "walking"
  /\ walk' = [walk EXCEPT ![w] = "walking"]
  /\ filter' = [filter EXCEPT ![w] = owner]
  /\ size' = [size EXCEPT ![w] = n]
  /\ token' = [token EXCEPT ![w] = 0]
  /\ listed' = [listed EXCEPT ![w] = {}] /\ again' = [again EXCEPT ![w] = {}]
  /\ held' = [held EXCEPT ![w] = Passing(store, owner)]
  /\ UNCHANGED <<store, used>>

\* ... and gets it, until the answer has no next token.
ListResources(w) ==
  /\ walk[w] = "walking"
  /\ LET rest == After(Passing(store, filter[w]), token[w])
         page == Page(rest, size[w])
         next == NextPageToken(rest, page)
     IN /\ listed' = [listed EXCEPT ![w] = @ \cup page]
        /\ again' = [again EXCEPT ![w] = @ \cup (page \cap listed[w])]
        /\ token' = [token EXCEPT ![w] = next]
        /\ walk' = [walk EXCEPT ![w] = IF next = 0 THEN "done" ELSE @]
  /\ UNCHANGED <<store, used, filter, size, held>>

-----------------------------------------------------------------------------
ResourceNext ==
  \/ \E id \in Ids :
       \/ DeleteResource(id)
       \/ \E owner \in Owners : CreateResource(id, owner)
       \/ \E owner \in Owners \cup {Unset} : UpdateResource(id, owner)
  \/ \E w \in Walkers :
       \/ \E owner \in Owners, n \in Sizes : Begin(w, owner, n)
       \/ ListResources(w)

ResourceSpec == ResourceInit /\ [][ResourceNext]_resourceVars

\* A walker goes on asking until it has the last page.
ResourceFairSpec == ResourceSpec /\ \A w \in Walkers : WF_resourceVars(ListResources(w))

-----------------------------------------------------------------------------
ResourceTypeOK ==
  /\ DOMAIN store \subseteq used /\ used \subseteq Ids
  /\ \A id \in DOMAIN store : store[id] \in Owners
  /\ walk \in [Walkers -> {"idle", "walking", "done"}]
  /\ filter \in [Walkers -> Owners] /\ size \in [Walkers -> Sizes] /\ token \in [Walkers -> 0..MaxId]
  /\ {held, listed, again} \subseteq [Walkers -> SUBSET Ids]

\* A walk over the pages lists nothing twice, and misses nothing that was there
\* (and had the owner asked for) from its first page to its last, whatever was
\* created, moved or deleted in between, the resource the token names included.
WalkExact ==
  \A w \in Walkers :
    /\ again[w] = {}
    /\ walk[w] = "done" => held[w] \subseteq listed[w]

\* Every walk ends: the token of a page is never one that was used before.
WalkEnds == \A w \in Walkers : walk[w] = "walking" ~> walk[w] = "done"
=============================================================================
