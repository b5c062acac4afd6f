------------------------------- MODULE Content -------------------------------
(* The pages of the shop between MongoDB and Redis.  A route keeps its      *)
(* answers under a key of its own and asks a service, most of which keep    *)
(* copies under keys of theirs; an editor of the admin routes writes, then  *)
(* deletes the keys of both.  Keys lack their prefix chokmoki:, and a       *)
(* pattern such as products:* stands for one key of it.                     *)
EXTENDS Integers, Sequences, FiniteSets, SequencesExt

CONSTANTS Pages,            \* bound: the pages that are followed, of Shop below
          Readers, Editors,
          Busy,             \* bound: the pages all of them ask for, where calls may fail;
          Alone,            \*   the others have this one reader
          MaxCacheFaults    \* bound: calls of CacheService that fail, editors that die

VARIABLES page,       \* the page of this behaviour
          store,      \* whether the shop has anything to show of each collection
          copies,     \* what Redis keeps under each key
          reader,     \* a request for the page
          editor,     \* the steps an editor has yet to make
          cacheFaults

contentVars == <<page, store, copies, reader, editor, cacheFaults>>

-----------------------------------------------------------------------------
(* What a service or a route reads, under which key it keeps it, and        *)
(* whether it keeps the news that there is nothing.                         *)
NoKey == ""
Service(key, colls) == [key |-> key, colls |-> colls, empty |-> TRUE]
ServiceIfAny(key, colls) == [Service(key, colls) EXCEPT !.empty = FALSE]
Direct(coll) == Service(NoKey, <<coll>>)
Route(key, parts) == [key |-> key, parts |-> parts, empty |-> TRUE]
Item(key, part) == [key |-> key, parts |-> <<part>>, empty |-> FALSE]

(* The steps of an edit.  delete_pattern asks for the keys, then deletes    *)
(* those it was told.                                                       *)
Change(coll) == [do |-> "write", coll |-> coll, keys |-> {}]
Delete(keys) == [do |-> "delete", coll |-> NoKey, keys |-> keys]
Scan(keys) == [do |-> "scan", coll |-> NoKey, keys |-> keys]
Listed(keys) == [Delete(keys) EXCEPT !.do = "listed"]
Around(edit) == [i \in DOMAIN edit |-> [edit[i] EXCEPT !.do = "around"]]

(* get_public and upsert of the settings: one document of one collection.   *)
Settings(key) == [read |-> ServiceIfAny(key, <<key>>), edit |-> <<Change(key), Delete({key})>>]

-----------------------------------------------------------------------------
(* The services.                                                            *)
TestimonialList == Service("testimonials:list:True", <<"testimonials">>)
TestimonialListAll == Service("testimonials:list:all", <<"testimonials">>)
TestimonialEdit ==
  <<Change("testimonials"), Scan({"testimonials:list:True", "testimonials:list:all"})>>

HeroActive == ServiceIfAny("hero_config:active", <<"hero_configs">>)
HeroList == Service("hero_config:list", <<"hero_configs">>)
HeroEdit == <<Change("hero_configs"), Scan({"hero_config:active", "hero_config:list"})>>

AssetByKey == ServiceIfAny("site_assets:key", <<"site_assets">>)
AssetList(key) == Service(key, <<"site_assets">>)
AssetKeys == {"site_assets:key", "site_assets:list:True", "site_assets:list:all"}
AssetEdit == <<Change("site_assets"), Scan(AssetKeys)>>

FaqList(key) == Service(key, <<"faq_items">>)
FaqKeys == {"faq:all", "faq:all:True", "faq:all:all"}
FaqEdit == <<Change("faq_items"), Scan(FaqKeys)>>

SlideList(key) == Service(key, <<"collection_slides">>)
SlideEdit ==
  <<Change("collection_slides"), Scan({"collection_slides:True", "collection_slides:all"})>>

PolicyBundle == Service("policies", <<"policy_page_meta", "policy_sections">>)
PolicyMetaEdit == <<Change("policy_page_meta"), Delete({"policies"})>>
PolicySectionEdit == <<Change("policy_sections"), Delete({"policies"})>>

JournalMeta == ServiceIfAny("journal_page", <<"journal_page_settings">>)
JournalPosts(key) == Service(key, <<"blog_posts">>)
PostKeys == {"blog_posts:list:True", "blog_posts:list:all"}
JournalEdit == <<Change("journal_page_settings"), Delete({"journal_page"}), Scan(PostKeys)>>
PostEdit == <<Change("blog_posts"), Scan(PostKeys)>>

StudioService == Settings("studio_settings")
ShopService == Settings("shop_page")
HomeService == Settings("home_page")
StoryService == Settings("story_page")
NavigationService == Settings("navigation")
ContactService == Settings("contact_page")
AccountService == Settings("account_page")
HistoryService == Settings("history_page")
ProductPageService == Settings("product_page")

ProductList == Direct("products")
ProductBySlug == [Direct("products") EXCEPT !.empty = FALSE]
ProductEdit == <<Change("products")>>
CategoryList == Direct("categories")
CategoryBySlug == [Direct("categories") EXCEPT !.empty = FALSE]
CategoryEdit == <<Change("categories")>>

-----------------------------------------------------------------------------
(* The public routes: a list also counts, past the copy of the list.        *)
ProductsRoute == Route("products:*", <<ProductList, Direct("products")>>)
ProductRoute == Item("product:*", ProductBySlug)
CategoriesRoute == Route("categories", <<CategoryList, Direct("categories")>>)
CategoryRoute == Item("category:*", CategoryBySlug)
TestimonialsRoute == Route("testimonials", <<TestimonialList, Direct("testimonials")>>)
HeroRoute == [Item("hero", HeroActive) EXCEPT !.empty = TRUE]
AssetsRoute == Route("site-assets", <<AssetList("site_assets:list:True")>>)
AssetRoute == Item("site-asset:*", AssetByKey)
FaqRoute == Route("faq:all", <<FaqList("faq:all:True")>>)
SlidesRoute == Route("collection-slides", <<SlideList("collection_slides:True")>>)
StudioRoute == Route("studio-settings", <<StudioService.read>>)
ShopRoute == Route("shop-page", <<ShopService.read>>)
PoliciesRoute == [Item("policies", PolicyBundle) EXCEPT !.empty = TRUE]
HomeRoute == Route("home-page", <<HomeService.read>>)
StoryRoute == Route("story-page", <<StoryService.read>>)
NavigationRoute == Route("navigation", <<NavigationService.read>>)
ContactRoute == Route("contact-page", <<ContactService.read>>)
AccountRoute == Route("account-page", <<AccountService.read>>)
HistoryRoute == Route("history-page", <<HistoryService.read>>)
ProductPageRoute == Route("product-page", <<ProductPageService.read>>)
JournalRoute == Route("journal", <<JournalMeta, JournalPosts("blog_posts:list:True")>>)

(* The lists of the admin routes keep nothing, the services under them do.  *)
AdminTestimonials == Route(NoKey, <<TestimonialListAll, Direct("testimonials")>>)
AdminHero == Route(NoKey, <<HeroList, Direct("hero_configs")>>)
AdminAssets == Route(NoKey, <<AssetList("site_assets:list:all")>>)
AdminFaq == Route(NoKey, <<FaqList("faq:all:all")>>)
AdminSlides == Route(NoKey, <<SlideList("collection_slides:all")>>)
AdminJournal == Route(NoKey, <<Direct("journal_page_settings"), JournalPosts("blog_posts:list:all")>>)

-----------------------------------------------------------------------------
(* The edits of the admin routes.                                           *)
ProductBust == <<Scan({"products:*"}), Scan({"product:*"})>>
ProductCreated == ProductEdit \o ProductBust
ProductChanged == ProductEdit \o ProductBust
ProductRenamed == ProductEdit \o <<Delete({"product:*"})>> \o ProductBust
ProductDeleted == ProductEdit \o <<Delete({"product:*"})>> \o ProductBust
CategoryBust == <<Delete({"categories"}), Scan({"category:*"})>>
CategoryCreated == CategoryEdit \o CategoryBust
CategoryChanged == CategoryEdit \o CategoryBust
CategoryDeleted == CategoryEdit \o CategoryBust
TestimonialEdited == TestimonialEdit \o <<Delete({"testimonials"})>>
HeroBustedFirst == <<Head(HeroEdit), Delete({"hero"})>> \o Tail(HeroEdit)
HeroEdited == HeroEdit \o <<Delete({"hero"})>>
AssetEdited == AssetEdit \o <<Delete({"site-assets"}), Scan({"site-asset:*"})>>
FaqEdited == FaqEdit \o <<Scan(FaqKeys)>>
SlideEdited == SlideEdit \o <<Delete({"collection-slides"})>>
StudioEdited == StudioService.edit \o <<Delete({"studio-settings"})>>
ShopEdited == ShopService.edit \o <<Delete({"shop-page"})>>
PolicyMetaEdited == PolicyMetaEdit \o <<Delete({"policies"})>>
PolicySectionEdited == PolicySectionEdit \o <<Delete({"policies"})>>
HomeEdited == HomeService.edit \o <<Delete({"home-page"})>>
StoryEdited == StoryService.edit \o <<Delete({"story-page"})>>
NavigationEdited == NavigationService.edit \o <<Delete({"navigation"})>>
ContactEdited == ContactService.edit \o <<Delete({"contact-page"})>>
AccountEdited == AccountService.edit \o <<Delete({"account-page"})>>
HistoryEdited == HistoryService.edit \o <<Delete({"history-page"})>>
ProductPageEdited == ProductPageService.edit \o <<Delete({"product-page"})>>
JournalEdited == JournalEdit \o <<Delete({"journal"})>>
PostEdited == PostEdit \o <<Delete({"journal"})>>

(* The legacy commands write the same documents and delete no key.          *)
ProductMutation == Around(ProductEdit)
CategoryMutation == Around(CategoryEdit)

PageOf(routes, edits) == [routes |-> routes, edits |-> edits]
Shop ==
  [products |-> PageOf({ProductsRoute, ProductRoute},
                     {ProductCreated, ProductChanged, ProductRenamed, ProductDeleted, ProductMutation}),
   categories |-> PageOf({CategoriesRoute, CategoryRoute},
                       {CategoryCreated, CategoryChanged, CategoryDeleted, CategoryMutation}),
   testimonials |-> PageOf({TestimonialsRoute, AdminTestimonials}, {TestimonialEdited}),
   hero |-> PageOf({HeroRoute, AdminHero}, {HeroEdited}),
   assets |-> PageOf({AssetsRoute, AdminAssets}, {AssetEdited}),
   asset |-> PageOf({AssetRoute}, {AssetEdited}),
   faq |-> PageOf({FaqRoute, AdminFaq}, {FaqEdited}),
   slides |-> PageOf({SlidesRoute, AdminSlides}, {SlideEdited}),
   studio |-> PageOf({StudioRoute}, {StudioEdited}),
   shop |-> PageOf({ShopRoute}, {ShopEdited}),
   policies |-> PageOf({PoliciesRoute}, {PolicyMetaEdited, PolicySectionEdited}),
   home |-> PageOf({HomeRoute}, {HomeEdited}),
   story |-> PageOf({StoryRoute}, {StoryEdited}),
   navigation |-> PageOf({NavigationRoute}, {NavigationEdited}),
   contact |-> PageOf({ContactRoute}, {ContactEdited}),
   account |-> PageOf({AccountRoute}, {AccountEdited}),
   history |-> PageOf({HistoryRoute}, {HistoryEdited}),
   product_page |-> PageOf({ProductPageRoute}, {ProductPageEdited}),
   journal |-> PageOf({JournalRoute}, {JournalEdited, PostEdited}),
   posts |-> PageOf({AdminJournal}, {JournalEdited, PostEdited})]

ASSUME PagesAssumption == Pages \subseteq DOMAIN Shop

PartsOf(route) == {route.parts[i] : i \in DOMAIN route.parts}
Parts == UNION {PartsOf(route) : route \in Shop[page].routes}
CacheKeys ==
  ({route.key : route \in Shop[page].routes} \cup {part.key : part \in Parts}) \ {NoKey}
CollsOf(part) == {part.colls[i] : i \in DOMAIN part.colls}
Colls == UNION {CollsOf(part) : part \in Parts}

(* A restore writes the collections, which are few, one after the other,    *)
(* and then deletes every key that starts with chokmoki:.  An import that   *)
(* wipes deletes the documents of a collection before it inserts its own.   *)
ChangeAll(order) == [i \in DOMAIN order |-> Change(order[i])]
WipeAndInsert(order) == [i \in 1 .. 2 * Len(order) |-> Change(order[(i + 1) \div 2])]
BundleRestores == {ChangeAll(order) \o <<Scan(CacheKeys)>> : order \in SetToSeqs(Colls)}
ConfigImports == {WipeAndInsert(order) \o <<Scan(CacheKeys)>> : order \in SetToSeqs(Colls)}
Edits == Shop[page].edits \cup BundleRestores \cup ConfigImports

-----------------------------------------------------------------------------
(* A copy: whether it still is what MongoDB holds (history: it is old once  *)
(* a collection it was made from was written, in doubt when an edit or a    *)
(* deletion came between while it was made).                                *)
NoCopy == "none"
Worse(a, b) ==
  IF "doubt" \in {a, b} THEN "doubt" ELSE IF "old" \in {a, b} THEN "old" ELSE "store"
NoRoute == Route(NoKey, <<>>)
Idle == [pc |-> "idle", route |-> NoRoute, part |-> 0, coll |-> 0, some |-> FALSE,
         got |-> "store", read |-> "store"]

ContentInit ==
  /\ page \in Pages
  /\ store \in [Colls -> BOOLEAN]
  /\ copies = [key \in CacheKeys |-> NoCopy]
  /\ reader = [r \in Readers |-> Idle]
  /\ editor = [e \in Editors |-> <<>>]
  /\ cacheFaults = 0

(* CacheService swallows its errors: a get that fails is a miss, a set or a *)
(* delete that fails does nothing.                                          *)
MayFail == page \in Busy /\ cacheFaults < MaxCacheFaults
Fails(failed) == cacheFaults' = IF failed THEN cacheFaults + 1 ELSE cacheFaults
CopyAt(key) == IF key = NoKey THEN NoCopy ELSE copies[key]
Gets(key) == {CopyAt(key)} \cup (IF MayFail THEN {NoCopy} ELSE {})
Set(key, copy) ==
  \/ copies' = [copies EXCEPT ![key] = copy] /\ Fails(FALSE)
  \/ MayFail /\ Fails(TRUE) /\ UNCHANGED copies
KeepNothing == UNCHANGED <<copies, cacheFaults>>

Becomes(r, state) == reader' = [reader EXCEPT ![r] = state]
PartOf(r) == reader[r].route.parts[reader[r].part]
Between(e) == editor[e] # <<>> /\ Head(editor[e]).do = "listed"
InDoubt(copy) == IF \E e \in Editors : Between(e) THEN "doubt" ELSE copy

(* What a request goes on with once a part of its answer is there; some     *)
(* tells whether it holds anything.                                         *)
WithPart(r, copy, some) ==
  LET q == reader[r]
      sum == Worse(q.got, copy)
  IN IF q.part < Len(q.route.parts)
     THEN [q EXCEPT !.pc = "part", !.part = @ + 1, !.some = FALSE, !.got = sum, !.read = "store"]
     ELSE IF q.route.empty \/ some
     THEN [q EXCEPT !.pc = "finish", !.some = FALSE, !.got = sum, !.read = "store"]
     ELSE Idle

Ask(r) ==
  /\ reader[r] = Idle
  /\ page \in Busy \/ r = Alone
  /\ \E route \in Shop[page].routes : \E copy \in Gets(route.key) :
       /\ Fails(copy # CopyAt(route.key))
       /\ Becomes(r, IF copy = NoCopy
                     THEN [Idle EXCEPT !.pc = "part", !.route = route, !.part = 1]
                     ELSE [Idle EXCEPT !.pc = "answer", !.route = route, !.got = copy])
  /\ UNCHANGED <<page, store, copies, editor>>

AskService(r) ==
  /\ reader[r].pc = "part"
  /\ \E copy \in Gets(PartOf(r).key) :
       /\ Fails(copy # CopyAt(PartOf(r).key))
       /\ Becomes(r, IF copy = NoCopy THEN [reader[r] EXCEPT !.pc = "read", !.coll = 1]
                     ELSE WithPart(r, copy, TRUE))
  /\ UNCHANGED <<page, store, copies, editor>>

ReadStore(r) ==
  LET q == reader[r]
      last == q.coll = Len(PartOf(r).colls)
  IN /\ q.pc = "read"
     /\ Becomes(r, [q EXCEPT !.some = @ \/ store[PartOf(r).colls[q.coll]],
                             !.pc = IF last THEN "keep" ELSE "read",
                             !.coll = IF last THEN 0 ELSE @ + 1])
     /\ UNCHANGED <<page, store, copies, editor, cacheFaults>>

KeepPart(r) ==
  LET q == reader[r]
      part == PartOf(r)
  IN /\ q.pc = "keep"
     /\ IF part.key # NoKey /\ (part.empty \/ q.some) THEN Set(part.key, InDoubt(q.read))
        ELSE KeepNothing
     /\ Becomes(r, WithPart(r, q.read, q.some))
     /\ UNCHANGED <<page, store, editor>>

Finish(r) ==
  LET q == reader[r]
  IN /\ q.pc = "finish"
     /\ IF q.route.key # NoKey THEN Set(q.route.key, InDoubt(q.got)) ELSE KeepNothing
     /\ Becomes(r, [Idle EXCEPT !.pc = "answer", !.route = q.route, !.got = q.got])
     /\ UNCHANGED <<page, store, editor>>

Return(r) ==
  /\ reader[r].pc = "answer" /\ Becomes(r, Idle)
  /\ UNCHANGED <<page, store, copies, editor, cacheFaults>>

-----------------------------------------------------------------------------
(* History: what requests hold of their answers when an editor moves; what  *)
(* they just read of MongoDB is outdated by a write only.                   *)
Disturb(written) ==
  reader' = [r \in Readers |->
    LET q == reader[r]
        holds == q.pc = "finish" \/ q.part > 1
        hasRead == q.pc = "keep" \/ q.coll > 1
    IN [q EXCEPT !.got = IF holds THEN "doubt" ELSE @,
                 !.read = IF hasRead /\ written THEN "doubt" ELSE @]]
MadeFrom(coll) ==
  {part.key : part \in {p \in Parts : coll \in CollsOf(p)}}
  \cup {route.key : route \in {r \in Shop[page].routes : \E p \in PartsOf(r) : coll \in CollsOf(p)}}
Mark(keys, from) ==
  copies' = [key \in CacheKeys |->
               IF key \in keys /\ copies[key] \in {"store", "old"}
               THEN from ELSE copies[key]]

Edit(e) ==
  /\ editor[e] = <<>>
  /\ \E edit \in Edits : editor' = [editor EXCEPT ![e] = edit]
  /\ UNCHANGED <<page, store, copies, reader, cacheFaults>>

ThisStep(e) == Head(editor[e])
Does(e, kinds) == editor[e] # <<>> /\ ThisStep(e).do \in kinds
Goes(e, rest) == editor' = [editor EXCEPT ![e] = rest] /\ Disturb(ThisStep(e).do \in {"write", "around"})

(* A write changes what the shop shows, or leaves nothing of it.            *)
WriteStore(e) ==
  /\ Does(e, {"write", "around"})
  /\ \E some \in BOOLEAN : store' = [store EXCEPT ![ThisStep(e).coll] = some]
  /\ Mark(MadeFrom(ThisStep(e).coll), IF ThisStep(e).do = "write" THEN "old" ELSE "doubt")
  /\ Goes(e, Tail(editor[e]))
  /\ UNCHANGED <<page, cacheFaults>>

DeleteKeys(e) ==
  /\ Does(e, {"delete", "listed"})
  /\ \/ /\ copies' = [key \in CacheKeys |-> IF key \in ThisStep(e).keys THEN NoCopy ELSE copies[key]]
        /\ Fails(FALSE)
     \/ MayFail /\ Fails(TRUE) /\ Mark(ThisStep(e).keys, "doubt")
  /\ Goes(e, Tail(editor[e]))
  /\ UNCHANGED <<page, store>>

FindKeys(e) ==
  LET found == {key \in ThisStep(e).keys \cap CacheKeys : copies[key] # NoCopy}
      rest == Tail(editor[e])
  IN /\ Does(e, {"scan"})
     /\ \/ /\ Fails(FALSE) /\ UNCHANGED copies
           /\ Goes(e, IF found = {} THEN rest ELSE <<Listed(found)>> \o rest)
        \/ MayFail /\ Fails(TRUE) /\ Mark(ThisStep(e).keys, "doubt") /\ Goes(e, rest)
     /\ UNCHANGED <<page, store>>

(* The process dies, or a later write of a restore raises.                  *)
EditorDies(e) ==
  /\ MayFail /\ Fails(TRUE)
  /\ editor[e] # <<>> /\ Goes(e, <<>>) /\ Mark(CacheKeys, "doubt")
  /\ UNCHANGED <<page, store>>

Expire ==
  /\ \E key \in CacheKeys : copies[key] # NoCopy /\ copies' = [copies EXCEPT ![key] = NoCopy]
  /\ UNCHANGED <<page, store, reader, editor, cacheFaults>>

ContentNext ==
  \/ \E r \in Readers :
       Ask(r) \/ AskService(r) \/ ReadStore(r) \/ KeepPart(r) \/ Finish(r) \/ Return(r)
  \/ \E e \in Editors :
       Edit(e) \/ WriteStore(e) \/ DeleteKeys(e) \/ FindKeys(e) \/ EditorDies(e)
  \/ Expire

ContentSpec == ContentInit /\ [][ContentNext]_contentVars

-----------------------------------------------------------------------------
(* Every variable has its type.                                             *)
ContentTypeOK ==
  /\ store \in [Colls -> BOOLEAN]
  /\ copies \in [CacheKeys -> {"none", "store", "old", "doubt"}]
  /\ \A r \in Readers : reader[r].pc \in {"idle", "part", "read", "keep", "finish", "answer"}

(* Two layers of copies, each deleted by other code than wrote it, agree    *)
(* with MongoDB: an old copy is one that an editor is still about to        *)
(* delete.  Outside this are the copies in doubt, which stay until they     *)
(* expire after 300 or 600 s: their request was under way during an edit, a *)
(* deletion failed or broke off, their keys had been listed before the copy *)
(* was there, or the edit came past the admin routes.                       *)
ToBeDeleted(key) ==
  \E e \in Editors : \E i \in DOMAIN editor[e] : key \in editor[e][i].keys
CopyIsCurrent == \A key \in CacheKeys : copies[key] = "old" => ToBeDeleted(key)
=============================================================================
