---------------------------- MODULE ContentProofs ---------------------------
(* A copy of a page that is old and that no race excuses is still to be     *)
(* deleted, for any number of requests and editors, every page of the shop, *)
(* any order of a restore and any faults of the cache.                      *)
(* First the table: every edit deletes what it makes old, and deletes the   *)
(* key of a route no earlier than those of its parts.  Then the invariant:  *)
(* what is left of an edit still does so, and a request that answers from   *)
(* an old copy puts it under a key which is still to be deleted.            *)
EXTENDS Content, FiniteSetTheorems, SequenceTheorems, TLAPS

-----------------------------------------------------------------------------
(* The sequences the edits are.                                           *)
IsSteps(s) == s \in Seq({s[i] : i \in DOMAIN s})

(* A write is followed by the deletion of every key that is made from it,   *)
(* and who deletes the key of a part deletes that of its route no earlier.  *)
Later(s, i, key) == \E j \in DOMAIN s : j > i /\ key \in s[j].keys
NotBefore(s, i, key) == \E j \in DOMAIN s : j >= i /\ key \in s[j].keys

Pledged(routes, s, i) ==
  \A route \in routes : \A n \in DOMAIN route.parts :
     s[i].coll \in CollsOf(route.parts[n]) =>
       \A key \in {route.key, route.parts[n].key} \ {NoKey} : Later(s, i, key)
InOrder(routes, s, i) ==
  \A route \in routes : \A n \in DOMAIN route.parts :
     route.parts[n].key \in s[i].keys /\ route.key # NoKey => NotBefore(s, i, route.key)

Sound(routes, s) ==
  /\ IsSteps(s)
  /\ \A i \in DOMAIN s :
       /\ s[i].do \in {"write", "around", "delete", "scan"} /\ NoKey \notin s[i].keys
       /\ s[i].do \in {"write", "around"} => s[i].keys = {}
       /\ s[i].do = "write" => Pledged(routes, s, i)
       /\ InOrder(routes, s, i)

(* The keys of a route, those of its parts, and what these are made from.   *)
Keeps(route, K, P, C) ==
  /\ route.key \in K \cup {NoKey}
  /\ Len(route.parts) \in Nat \ {0} /\ DOMAIN route.parts = 1 .. Len(route.parts)
  /\ \A n \in DOMAIN route.parts :
       route.parts[n].key \in P \cup {NoKey} /\ CollsOf(route.parts[n]) \subseteq C

(* What is made from coll is kept under one of keys.                        *)
Covers(routes, coll, keys) ==
  \A route \in routes : \A n \in DOMAIN route.parts :
     coll \in CollsOf(route.parts[n]) => {route.key, route.parts[n].key} \ {NoKey} \subseteq keys

IsDeletion(d) == d.do \in {"delete", "scan"} /\ NoKey \notin d.keys
IsWrite(w) == w.do = "write" /\ w.keys = {}

(* What the constructors of a step and of a part give.                      *)
LEMMA ChangeIs ==
  ASSUME NEW coll
  PROVE  IsWrite(Change(coll)) /\ Change(coll).coll = coll
BY DEF Change, IsWrite

LEMMA DeleteIs ==
  ASSUME NEW keys, NoKey \notin keys
  PROVE  /\ IsDeletion(Delete(keys)) /\ Delete(keys).keys = keys
         /\ IsDeletion(Scan(keys)) /\ Scan(keys).keys = keys
<1>1. Delete(keys) = [do |-> "delete", coll |-> NoKey, keys |-> keys]
  BY DEF Delete
<1>2. Scan(keys) = [do |-> "scan", coll |-> NoKey, keys |-> keys]
  BY DEF Scan
<1>3. QED
  BY <1>1, <1>2 DEF IsDeletion

LEMMA ServiceIs ==
  ASSUME NEW key, NEW coll
  PROVE  /\ Service(key, <<coll>>).key = key /\ CollsOf(Service(key, <<coll>>)) = {coll}
         /\ ServiceIfAny(key, <<coll>>).key = key /\ CollsOf(ServiceIfAny(key, <<coll>>)) = {coll}
         /\ Direct(coll).key = NoKey /\ CollsOf(Direct(coll)) = {coll}
<1> DEFINE s == Service(key, <<coll>>)  i == ServiceIfAny(key, <<coll>>)
<1>1. s.key = key /\ s.colls = <<coll>> /\ i.key = key /\ i.colls = <<coll>>
  BY DEF Service, ServiceIfAny
<1>2. Direct(coll).key = NoKey /\ Direct(coll).colls = <<coll>>
  BY DEF Direct, Service
<1>3. QED
  BY <1>1, <1>2 DEF CollsOf

LEMMA RouteKeeps ==
  ASSUME NEW K, NEW P, NEW C, NEW key \in K \cup {NoKey},
         NEW part, part.key \in P \cup {NoKey}, CollsOf(part) \subseteq C,
         NEW other, other.key \in P \cup {NoKey}, CollsOf(other) \subseteq C
  PROVE  /\ Keeps(Route(key, <<part>>), K, P, C)
         /\ Keeps(Route(key, <<part, other>>), K, P, C)
         /\ Keeps(Item(key, part), K, P, C)
         /\ Keeps([Item(key, part) EXCEPT !.empty = TRUE], K, P, C)
<1> DEFINE q == Route(key, <<part>>)  two == Route(key, <<part, other>>)
           t == Item(key, part)  e == [Item(key, part) EXCEPT !.empty = TRUE]
<1>1. /\ q.key = key /\ q.parts = <<part>> /\ two.key = key /\ two.parts = <<part, other>>
      /\ t.key = key /\ t.parts = <<part>>
  BY DEF Route, Item
<1>2. e.key = key /\ e.parts = <<part>>
  BY DEF Item
<1> HIDE DEF q, two, t, e
<1>3. Keeps(q, K, P, C) /\ Keeps(t, K, P, C) /\ Keeps(e, K, P, C)
  BY <1>1, <1>2 DEF Keeps
<1>4. Keeps(two, K, P, C)
  <2>1. \A n \in DOMAIN two.parts : two.parts[n] \in {part, other}
    BY <1>1
  <2>2. QED
    BY <1>1, <2>1 DEF Keeps
<1>5. QED
  BY <1>3, <1>4 DEF q, two, t, e

(* A write and two or three deletions, the last of which is the route's.    *)
LEMMA ThreeSteps ==
  ASSUME NEW routes, NEW K, NEW P, NEW C, \A route \in routes : Keeps(route, K, P, C),
         NEW w, IsWrite(w), NEW d, IsDeletion(d), NEW f, IsDeletion(f),
         K \cup P \subseteq d.keys \cup f.keys \/ Covers(routes, w.coll, d.keys \cup f.keys),
         P = {} \/ K \subseteq f.keys
  PROVE  Sound(routes, <<w, d, f>>)
<1> DEFINE s == <<w, d, f>>
<1>1. /\ IsSteps(s) /\ DOMAIN s = 1 .. 3 /\ s[1] = w /\ s[2] = d /\ s[3] = f
  BY DEF IsSteps
<1> HIDE DEF s
<1>2. \A key \in d.keys \cup f.keys : Later(s, 1, key)
  <2> SUFFICES ASSUME NEW key \in d.keys \cup f.keys PROVE \E j \in {2, 3} : key \in s[j].keys
    BY <1>1 DEF Later
  <2>1. QED
    BY <1>1
<1>3. Pledged(routes, s, 1)
  <2>1. Covers(routes, w.coll, d.keys \cup f.keys)
    BY DEF Covers, Keeps
  <2>2. QED
    BY <1>1, <1>2, <2>1 DEF Pledged, Covers
<1>4. ASSUME NEW i \in DOMAIN s PROVE InOrder(routes, s, i)
  <2> SUFFICES ASSUME NEW route \in routes, NEW n \in DOMAIN route.parts,
                      route.parts[n].key \in s[i].keys, route.key # NoKey
               PROVE  NotBefore(s, i, route.key)
    BY DEF InOrder
  <2>1. s[i].keys # {} /\ NoKey \notin s[i].keys
    BY <1>1 DEF IsWrite, IsDeletion
  <2>2. route.parts[n].key \in P /\ route.key \in K
    BY <2>1 DEF Keeps
  <2>3. route.key \in s[3].keys
    BY <1>1, <2>2
  <2>4. QED
    BY <1>1, <2>3 DEF NotBefore
<1>5. QED
  BY <1>1, <1>3, <1>4 DEF Sound, IsWrite, IsDeletion, s

LEMMA FourSteps ==
  ASSUME NEW routes, NEW K, NEW P, NEW C, \A route \in routes : Keeps(route, K, P, C),
         NEW w, IsWrite(w), NEW d, IsDeletion(d), NEW f, IsDeletion(f), NEW g, IsDeletion(g),
         K \cup P \subseteq d.keys \cup f.keys \cup g.keys,
         P = {} \/ K \subseteq g.keys \/ (K \subseteq f.keys /\ P \cap g.keys = {})
  PROVE  Sound(routes, <<w, d, f, g>>)
<1> DEFINE s == <<w, d, f, g>>
<1>1. /\ IsSteps(s) /\ DOMAIN s = 1 .. 4 /\ s[1] = w /\ s[2] = d /\ s[3] = f /\ s[4] = g
  BY DEF IsSteps
<1> HIDE DEF s
<1>2. \A key \in K \cup P : Later(s, 1, key)
  <2> SUFFICES ASSUME NEW key \in K \cup P PROVE \E j \in {2, 3, 4} : key \in s[j].keys
    BY <1>1 DEF Later
  <2>1. QED
    BY <1>1
<1>3. Pledged(routes, s, 1)
  BY <1>2 DEF Pledged, Keeps
<1>4. ASSUME NEW i \in DOMAIN s PROVE InOrder(routes, s, i)
  <2> SUFFICES ASSUME NEW route \in routes, NEW n \in DOMAIN route.parts,
                      route.parts[n].key \in s[i].keys, route.key # NoKey
               PROVE  NotBefore(s, i, route.key)
    BY DEF InOrder
  <2>1. s[i].keys # {} /\ NoKey \notin s[i].keys
    BY <1>1 DEF IsWrite, IsDeletion
  <2>2. route.parts[n].key \in P /\ route.key \in K
    BY <2>1 DEF Keeps
  <2>3. CASE route.key \in s[4].keys
    BY <1>1, <2>3 DEF NotBefore
  <2>4. CASE route.key \notin s[4].keys
    <3>1. K \subseteq f.keys /\ P \cap g.keys = {}
      BY <1>1, <2>2, <2>4
    <3>2. i # 4 /\ route.key \in s[3].keys
      BY <1>1, <2>2, <3>1
    <3>3. QED
      BY <1>1, <3>2 DEF NotBefore
  <2>5. QED
    BY <2>3, <2>4
<1>5. QED
  BY <1>1, <1>3, <1>4 DEF Sound, IsWrite, IsDeletion, s

(* A legacy command pledges nothing.                                        *)
LEMMA AroundIsSound ==
  ASSUME NEW coll, NEW routes
  PROVE  Sound(routes, Around(<<Change(coll)>>))
<1> DEFINE s == Around(<<Change(coll)>>)
           a == [Change(coll) EXCEPT !.do = "around"]
<1>1. s = <<a>>
  BY DEF Around
<1>2. a.do = "around" /\ a.keys = {}
  BY DEF Change
<1> HIDE DEF a
<1>3. IsSteps(s) /\ DOMAIN s = {1} /\ s[1] = a
  BY <1>1 DEF IsSteps
<1> HIDE DEF s
<1>4. Sound(routes, s)
  BY <1>2, <1>3 DEF Sound, InOrder
<1>5. QED
  BY <1>4 DEF s

(* Sequences that are written out, put together.                            *)
LEMMA Joined ==
  ASSUME NEW a, NEW b, NEW c, NEW d
  PROVE  /\ <<a>> \o <<b, c>> = <<a, b, c>> /\ <<a, b>> \o <<c>> = <<a, b, c>>
         /\ <<a, b, c>> \o <<d>> = <<a, b, c, d>>
<1>1. \A x, y : {x} = {y} => x = y
  OBVIOUS
<1>2. {<<a>> \o <<b, c>>} = {<<a, b, c>>}
  OBVIOUS
<1>3. {<<a, b>> \o <<c>>} = {<<a, b, c>>}
  OBVIOUS
<1>4. {<<a, b, c>> \o <<d>>} = {<<a, b, c, d>>}
  OBVIOUS
<1>5. QED
  BY <1>1, <1>2, <1>3, <1>4

LEMMA JoinedTwo ==
  ASSUME NEW a, NEW b
  PROVE  <<a>> \o <<b>> = <<a, b>>
<1> DEFINE T == {a, b}
<1>1. <<a>> \o <<b>> \in Seq(T) /\ <<a, b>> \in Seq(T)
  OBVIOUS
<1>2. Len(<<a>> \o <<b>>) = 2 /\ Len(<<a, b>>) = 2
  OBVIOUS
<1>3. \A i \in 1 .. 2 : (<<a>> \o <<b>>)[i] = <<a, b>>[i]
  OBVIOUS
<1>4. QED
  BY <1>1, <1>2, <1>3, SeqEqual

LEMMA JoinedPairs ==
  ASSUME NEW a, NEW b, NEW c, NEW d
  PROVE  <<a, b>> \o <<c, d>> = <<a, b, c, d>>
<1>1. {<<a, b>> \o <<c, d>>} = {<<a, b, c, d>>}
  OBVIOUS
<1>2. QED
  BY <1>1

-----------------------------------------------------------------------------
(* The pages: each keeps its own keys, and every edit of it is sound.       *)
KeptUnder(name, K, P, C) ==
  /\ \A route \in Shop[name].routes : Keeps(route, K, P, C)
  /\ \A edit \in Shop[name].edits : Sound(Shop[name].routes, edit)

(* One document, one service key and one key of the route.                  *)
LEMMA SettingsKept ==
  ASSUME NEW name, NEW key, NEW k, NoKey \notin {key, k},
         Shop[name] = PageOf({Route(k, <<Settings(key).read>>)},
                             {Settings(key).edit \o <<Delete({k})>>})
  PROVE  KeptUnder(name, {k}, {key}, {key})
<1> DEFINE read == ServiceIfAny(key, <<key>>)
           route == Route(k, <<read>>)
           edit == <<Change(key), Delete({key}), Delete({k})>>
<1>1. /\ Settings(key).read = read /\ Settings(key).edit = <<Change(key), Delete({key})>>
  BY DEF Settings
<1>2. Shop[name].routes = {route} /\ Shop[name].edits = {edit}
  <2>1. Shop[name].routes = {Route(k, <<Settings(key).read>>)}
    BY DEF PageOf
  <2>2. Shop[name].edits = {Settings(key).edit \o <<Delete({k})>>}
    BY DEF PageOf
  <2>3. <<Change(key), Delete({key})>> \o <<Delete({k})>> = edit
    BY Joined
  <2>4. QED
    BY <1>1, <2>1, <2>2, <2>3
<1>3. Keeps(route, {k}, {key}, {key})
  BY ServiceIs, RouteKeeps
<1>4. Sound({route}, edit)
  <2> HIDE DEF route
  <2>1. \A q \in {route} : Keeps(q, {k}, {key}, {key})
    BY <1>3
  <2>2. /\ IsWrite(Change(key)) /\ IsDeletion(Delete({key})) /\ IsDeletion(Delete({k}))
        /\ {k} \cup {key} \subseteq Delete({key}).keys \cup Delete({k}).keys
        /\ {k} \subseteq Delete({k}).keys
    BY ChangeIs, DeleteIs
  <2>3. QED
    BY <2>1, <2>2, ThreeSteps
<1>5. QED
  BY <1>2, <1>3, <1>4 DEF KeptUnder

LEMMA StudioKept ==
  KeptUnder("studio", {"studio-settings"}, {"studio_settings"}, {"studio_settings"})
<1>1. Shop["studio"] = PageOf({Route("studio-settings", <<Settings("studio_settings").read>>)},
                            {Settings("studio_settings").edit \o <<Delete({"studio-settings"})>>})
  BY DEF Shop, StudioRoute, StudioService, StudioEdited
<1>2. QED
  BY <1>1, SettingsKept DEF NoKey

LEMMA ShopKept == KeptUnder("shop", {"shop-page"}, {"shop_page"}, {"shop_page"})
<1>1. Shop["shop"] = PageOf({Route("shop-page", <<Settings("shop_page").read>>)},
                            {Settings("shop_page").edit \o <<Delete({"shop-page"})>>})
  BY DEF Shop, ShopRoute, ShopService, ShopEdited
<1>2. QED
  BY <1>1, SettingsKept DEF NoKey

LEMMA HomeKept == KeptUnder("home", {"home-page"}, {"home_page"}, {"home_page"})
<1>1. Shop["home"] = PageOf({Route("home-page", <<Settings("home_page").read>>)},
                            {Settings("home_page").edit \o <<Delete({"home-page"})>>})
  BY DEF Shop, HomeRoute, HomeService, HomeEdited
<1>2. QED
  BY <1>1, SettingsKept DEF NoKey

LEMMA StoryKept == KeptUnder("story", {"story-page"}, {"story_page"}, {"story_page"})
<1>1. Shop["story"] = PageOf({Route("story-page", <<Settings("story_page").read>>)},
                            {Settings("story_page").edit \o <<Delete({"story-page"})>>})
  BY DEF Shop, StoryRoute, StoryService, StoryEdited
<1>2. QED
  BY <1>1, SettingsKept DEF NoKey

LEMMA NavigationKept == KeptUnder("navigation", {"navigation"}, {"navigation"}, {"navigation"})
<1>1. Shop["navigation"] = PageOf({Route("navigation", <<Settings("navigation").read>>)},
                            {Settings("navigation").edit \o <<Delete({"navigation"})>>})
  BY DEF Shop, NavigationRoute, NavigationService, NavigationEdited
<1>2. QED
  BY <1>1, SettingsKept DEF NoKey

LEMMA ContactKept == KeptUnder("contact", {"contact-page"}, {"contact_page"}, {"contact_page"})
<1>1. Shop["contact"] = PageOf({Route("contact-page", <<Settings("contact_page").read>>)},
                            {Settings("contact_page").edit \o <<Delete({"contact-page"})>>})
  BY DEF Shop, ContactRoute, ContactService, ContactEdited
<1>2. QED
  BY <1>1, SettingsKept DEF NoKey

LEMMA AccountKept == KeptUnder("account", {"account-page"}, {"account_page"}, {"account_page"})
<1>1. Shop["account"] = PageOf({Route("account-page", <<Settings("account_page").read>>)},
                            {Settings("account_page").edit \o <<Delete({"account-page"})>>})
  BY DEF Shop, AccountRoute, AccountService, AccountEdited
<1>2. QED
  BY <1>1, SettingsKept DEF NoKey

LEMMA HistoryKept == KeptUnder("history", {"history-page"}, {"history_page"}, {"history_page"})
<1>1. Shop["history"] = PageOf({Route("history-page", <<Settings("history_page").read>>)},
                            {Settings("history_page").edit \o <<Delete({"history-page"})>>})
  BY DEF Shop, HistoryRoute, HistoryService, HistoryEdited
<1>2. QED
  BY <1>1, SettingsKept DEF NoKey

LEMMA ProductPageKept == KeptUnder("product_page", {"product-page"}, {"product_page"}, {"product_page"})
<1>1. Shop["product_page"] = PageOf({Route("product-page", <<Settings("product_page").read>>)},
                            {Settings("product_page").edit \o <<Delete({"product-page"})>>})
  BY DEF Shop, ProductPageRoute, ProductPageService, ProductPageEdited
<1>2. QED
  BY <1>1, SettingsKept DEF NoKey

LEMMA HeroKept ==
  KeptUnder("hero", {"hero"}, {"hero_config:active", "hero_config:list"}, {"hero_configs"})
<1> DEFINE K == {"hero"}  P == {"hero_config:active", "hero_config:list"}  C == {"hero_configs"}
           routes == Shop["hero"].routes
<1>1. routes = {HeroRoute, AdminHero}
  BY DEF Shop, PageOf
<1>2. \A route \in routes : Keeps(route, K, P, C)
  <2>1. /\ HeroActive.key \in P \cup {NoKey} /\ CollsOf(HeroActive) \subseteq C
        /\ HeroList.key \in P \cup {NoKey} /\ CollsOf(HeroList) \subseteq C
        /\ Direct("hero_configs").key \in P \cup {NoKey}
        /\ CollsOf(Direct("hero_configs")) \subseteq C
    BY ServiceIs DEF HeroActive, HeroList
  <2>2. Keeps(HeroRoute, K, P, C) /\ Keeps(AdminHero, K, P, C)
    BY <2>1, RouteKeeps DEF HeroRoute, AdminHero
  <2>3. QED
    BY <1>1, <2>2
<1>3. Shop["hero"].edits = {<<Change("hero_configs"), Scan(P), Delete(K)>>}
  BY DEF Shop, PageOf, HeroEdited, HeroEdit
<1>4. Sound(routes, <<Change("hero_configs"), Scan(P), Delete(K)>>)
  <2> HIDE DEF routes
  <2>1. /\ IsWrite(Change("hero_configs")) /\ IsDeletion(Scan(P)) /\ IsDeletion(Delete(K))
        /\ Scan(P).keys = P /\ Delete(K).keys = K
    <3>1. NoKey \notin K \cup P
      BY DEF NoKey
    <3>2. QED
      BY <3>1, ChangeIs, DeleteIs
  <2>2. QED
    BY <1>2, <2>1, ThreeSteps
<1>5. QED
  BY <1>2, <1>3, <1>4 DEF KeptUnder

LEMMA TestimonialsKept ==
  KeptUnder("testimonials", {"testimonials"},
       {"testimonials:list:True", "testimonials:list:all"}, {"testimonials"})
<1> DEFINE K == {"testimonials"}
           P == {"testimonials:list:True", "testimonials:list:all"}
           C == {"testimonials"}
           routes == Shop["testimonials"].routes
<1>1. routes = {TestimonialsRoute, AdminTestimonials}
  BY DEF Shop, PageOf
<1>2. \A route \in routes : Keeps(route, K, P, C)
  <2>1. /\ TestimonialList.key \in P \cup {NoKey} /\ CollsOf(TestimonialList) \subseteq C
        /\ TestimonialListAll.key \in P \cup {NoKey} /\ CollsOf(TestimonialListAll) \subseteq C
        /\ Direct("testimonials").key \in P \cup {NoKey}
        /\ CollsOf(Direct("testimonials")) \subseteq C
    BY ServiceIs DEF TestimonialList, TestimonialListAll
  <2>2. Keeps(TestimonialsRoute, K, P, C) /\ Keeps(AdminTestimonials, K, P, C)
    BY <2>1, RouteKeeps DEF TestimonialsRoute, AdminTestimonials
  <2>3. QED
    BY <1>1, <2>2
<1>3. Shop["testimonials"].edits = {TestimonialEdited}
  BY DEF Shop, PageOf
<1>4. TestimonialEdited = <<Change("testimonials"), Scan(P), Delete(K)>>
  BY Joined DEF TestimonialEdited, TestimonialEdit
<1>5. Sound(routes, <<Change("testimonials"), Scan(P), Delete(K)>>)
  <2> HIDE DEF routes
  <2>1. IsWrite(Change("testimonials")) /\ IsDeletion(Scan(P)) /\ IsDeletion(Delete(K))
        /\ Scan(P).keys = P /\ Delete(K).keys = K
    <3>1. NoKey \notin P \cup K
      BY DEF NoKey
    <3>2. QED
      BY <3>1, ChangeIs, DeleteIs
  <2>2. QED
    BY <1>2, <2>1, ThreeSteps
<1>6. QED
  BY <1>2, <1>3, <1>4, <1>5 DEF KeptUnder

LEMMA SlidesKept ==
  KeptUnder("slides", {"collection-slides"},
       {"collection_slides:True", "collection_slides:all"}, {"collection_slides"})
<1> DEFINE K == {"collection-slides"}
           P == {"collection_slides:True", "collection_slides:all"}
           C == {"collection_slides"}
           routes == Shop["slides"].routes
<1>1. routes = {SlidesRoute, AdminSlides}
  BY DEF Shop, PageOf
<1>2. \A route \in routes : Keeps(route, K, P, C)
  <2>1. /\ SlideList("collection_slides:True").key \in P \cup {NoKey}
        /\ CollsOf(SlideList("collection_slides:True")) \subseteq C
        /\ SlideList("collection_slides:all").key \in P \cup {NoKey}
        /\ CollsOf(SlideList("collection_slides:all")) \subseteq C
    BY ServiceIs DEF SlideList
  <2>2. Keeps(SlidesRoute, K, P, C) /\ Keeps(AdminSlides, K, P, C)
    BY <2>1, RouteKeeps DEF SlidesRoute, AdminSlides
  <2>3. QED
    BY <1>1, <2>2
<1>3. Shop["slides"].edits = {SlideEdited}
  BY DEF Shop, PageOf
<1>4. SlideEdited = <<Change("collection_slides"), Scan(P), Delete(K)>>
  BY Joined DEF SlideEdited, SlideEdit
<1>5. Sound(routes, <<Change("collection_slides"), Scan(P), Delete(K)>>)
  <2> HIDE DEF routes
  <2>1. IsWrite(Change("collection_slides")) /\ IsDeletion(Scan(P)) /\ IsDeletion(Delete(K))
        /\ Scan(P).keys = P /\ Delete(K).keys = K
    <3>1. NoKey \notin P \cup K
      BY DEF NoKey
    <3>2. QED
      BY <3>1, ChangeIs, DeleteIs
  <2>2. QED
    BY <1>2, <2>1, ThreeSteps
<1>6. QED
  BY <1>2, <1>3, <1>4, <1>5 DEF KeptUnder

LEMMA FaqKept ==
  KeptUnder("faq", {"faq:all"}, {"faq:all:True", "faq:all:all"}, {"faq_items"})
<1> DEFINE K == {"faq:all"}  P == {"faq:all:True", "faq:all:all"}  C == {"faq_items"}
           routes == Shop["faq"].routes
<1>1. routes = {FaqRoute, AdminFaq}
  BY DEF Shop, PageOf
<1>2. \A route \in routes : Keeps(route, K, P, C)
  <2>1. /\ FaqList("faq:all:True").key \in P \cup {NoKey}
        /\ CollsOf(FaqList("faq:all:True")) \subseteq C
        /\ FaqList("faq:all:all").key \in P \cup {NoKey}
        /\ CollsOf(FaqList("faq:all:all")) \subseteq C
    BY ServiceIs DEF FaqList
  <2>2. Keeps(FaqRoute, K, P, C) /\ Keeps(AdminFaq, K, P, C)
    BY <2>1, RouteKeeps DEF FaqRoute, AdminFaq
  <2>3. QED
    BY <1>1, <2>2
<1>3. Shop["faq"].edits = {FaqEdited}
  BY DEF Shop, PageOf
<1>4. FaqEdited = <<Change("faq_items"), Scan(FaqKeys), Scan(FaqKeys)>>
  BY Joined DEF FaqEdited, FaqEdit
<1>5. Sound(routes, <<Change("faq_items"), Scan(FaqKeys), Scan(FaqKeys)>>)
  <2> HIDE DEF routes
  <2>1. IsWrite(Change("faq_items")) /\ IsDeletion(Scan(FaqKeys)) /\ IsDeletion(Scan(FaqKeys))
        /\ Scan(FaqKeys).keys = FaqKeys /\ Scan(FaqKeys).keys = FaqKeys
    <3>1. NoKey \notin FaqKeys
      BY DEF NoKey, FaqKeys
    <3>2. QED
      BY <3>1, ChangeIs, DeleteIs
  <2>2. K \cup P \subseteq FaqKeys
    BY DEF FaqKeys
  <2>3. QED
    BY <1>2, <2>1, <2>2, ThreeSteps
<1>6. QED
  BY <1>2, <1>3, <1>4, <1>5 DEF KeptUnder

LEMMA AssetSteps ==
  /\ AssetEdited = <<Change("site_assets"), Scan(AssetKeys),
                     Delete({"site-assets"}), Scan({"site-asset:*"})>>
  /\ IsWrite(Change("site_assets"))
  /\ IsDeletion(Scan(AssetKeys)) /\ Scan(AssetKeys).keys = AssetKeys
  /\ IsDeletion(Delete({"site-assets"})) /\ Delete({"site-assets"}).keys = {"site-assets"}
  /\ IsDeletion(Scan({"site-asset:*"})) /\ Scan({"site-asset:*"}).keys = {"site-asset:*"}
<1>1. AssetEdited = <<Change("site_assets"), Scan(AssetKeys),
                      Delete({"site-assets"}), Scan({"site-asset:*"})>>
  BY JoinedPairs DEF AssetEdited, AssetEdit
<1>2. NoKey \notin AssetKeys \cup {"site-assets"} \cup {"site-asset:*"}
  BY DEF NoKey, AssetKeys
<1>3. QED
  BY <1>1, <1>2, ChangeIs, DeleteIs

LEMMA AssetsKept ==
  KeptUnder("assets", {"site-assets"},
       {"site_assets:list:True", "site_assets:list:all"}, {"site_assets"})
<1> DEFINE K == {"site-assets"}
           P == {"site_assets:list:True", "site_assets:list:all"}
           C == {"site_assets"}
           routes == Shop["assets"].routes
<1>1. routes = {AssetsRoute, AdminAssets}
  BY DEF Shop, PageOf
<1>2. \A route \in routes : Keeps(route, K, P, C)
  <2>1. /\ AssetList("site_assets:list:True").key \in P \cup {NoKey}
        /\ CollsOf(AssetList("site_assets:list:True")) \subseteq C
        /\ AssetList("site_assets:list:all").key \in P \cup {NoKey}
        /\ CollsOf(AssetList("site_assets:list:all")) \subseteq C
    BY ServiceIs DEF AssetList
  <2>2. Keeps(AssetsRoute, K, P, C) /\ Keeps(AdminAssets, K, P, C)
    BY <2>1, RouteKeeps DEF AssetsRoute, AdminAssets
  <2>3. QED
    BY <1>1, <2>2
<1>3. Shop["assets"].edits = {AssetEdited}
  BY DEF Shop, PageOf
<1>4. Sound(routes, AssetEdited)
  <2> HIDE DEF routes
  <2>1. K \cup P \subseteq AssetKeys \cup {"site-assets"} /\ P \cap {"site-asset:*"} = {}
    BY DEF AssetKeys
  <2>2. QED
    BY <1>2, <2>1, AssetSteps, FourSteps
<1>5. QED
  BY <1>2, <1>3, <1>4 DEF KeptUnder

LEMMA AssetKept ==
  KeptUnder("asset", {"site-asset:*"}, {"site_assets:key"}, {"site_assets"})
<1> DEFINE K == {"site-asset:*"}  P == {"site_assets:key"}  C == {"site_assets"}
           routes == Shop["asset"].routes
<1>1. routes = {AssetRoute}
  BY DEF Shop, PageOf
<1>2. \A route \in routes : Keeps(route, K, P, C)
  <2>1. /\ AssetByKey.key \in P \cup {NoKey} /\ CollsOf(AssetByKey) \subseteq C
    BY ServiceIs DEF AssetByKey
  <2>2. Keeps(AssetRoute, K, P, C)
    BY <2>1, RouteKeeps DEF AssetRoute
  <2>3. QED
    BY <1>1, <2>2
<1>3. Shop["asset"].edits = {AssetEdited}
  BY DEF Shop, PageOf
<1>4. Sound(routes, AssetEdited)
  <2> HIDE DEF routes
  <2>1. K \cup P \subseteq AssetKeys \cup {"site-asset:*"}
    BY DEF AssetKeys
  <2>2. QED
    BY <1>2, <2>1, AssetSteps, FourSteps
<1>5. QED
  BY <1>2, <1>3, <1>4 DEF KeptUnder

LEMMA ProductsKept == KeptUnder("products", {"products:*", "product:*"}, {}, {"products"})
<1> DEFINE K == {"products:*", "product:*"}  P == {}  C == {"products"}
           routes == Shop["products"].routes
           w == Change("products")  d == Delete({"product:*"})
           f == Scan({"products:*"})  g == Scan({"product:*"})
<1>1. routes = {ProductsRoute, ProductRoute}
  BY DEF Shop, PageOf
<1>2. \A route \in routes : Keeps(route, K, P, C)
  <2>1. /\ Direct("products").key = NoKey /\ CollsOf(Direct("products")) = C
    BY ServiceIs
  <2>2. ProductBySlug.key = NoKey /\ CollsOf(ProductBySlug) = C
    <3>1. /\ ProductBySlug.key = Direct("products").key
          /\ ProductBySlug.colls = Direct("products").colls
      BY DEF ProductBySlug, Direct, Service
    <3>2. QED
      BY <2>1, <3>1 DEF CollsOf
  <2>3. Keeps(ProductsRoute, K, P, C) /\ Keeps(ProductRoute, K, P, C)
    BY <2>1, <2>2, RouteKeeps DEF ProductsRoute, ProductRoute, ProductList
  <2>4. QED
    BY <1>1, <2>3
<1>3. Shop["products"].edits =
        {ProductCreated, ProductChanged, ProductRenamed, ProductDeleted, ProductMutation}
  BY DEF Shop, PageOf
<1>4. ProductCreated = <<w, f, g>> /\ ProductChanged = <<w, f, g>>
  BY Joined DEF ProductCreated, ProductChanged, ProductEdit, ProductBust
<1>5. ProductRenamed = <<w, d, f, g>> /\ ProductDeleted = <<w, d, f, g>>
  <2>1. <<w>> \o <<d>> = <<w, d>>
    BY JoinedTwo
  <2>2. ProductRenamed = <<w, d>> \o <<f, g>> /\ ProductDeleted = <<w, d>> \o <<f, g>>
    BY <2>1, Zenon DEF ProductRenamed, ProductDeleted, ProductEdit, ProductBust
  <2> HIDE DEF w, d, f, g
  <2>3. QED
    BY <2>2, JoinedPairs
<1>6. IsWrite(w) /\ IsDeletion(d) /\ IsDeletion(f) /\ IsDeletion(g)
      /\ d.keys = {"product:*"} /\ f.keys = {"products:*"} /\ g.keys = {"product:*"}
  <2>1. NoKey \notin {"products:*"} \cup {"product:*"}
    BY DEF NoKey
  <2>2. QED
    BY <2>1, ChangeIs, DeleteIs
<1>7. Sound(routes, ProductMutation)
  BY AroundIsSound DEF ProductMutation, ProductEdit
<1>8. /\ P = {} /\ K \cup P \subseteq f.keys \cup g.keys
      /\ K \cup P \subseteq d.keys \cup f.keys \cup g.keys
  BY <1>6
<1> HIDE DEF routes, w, d, f, g, K, P, C
<1>9. Sound(routes, <<w, f, g>>)
  BY <1>2, <1>6, <1>8, ThreeSteps
<1>10. Sound(routes, <<w, d, f, g>>)
  BY <1>2, <1>6, <1>8, FourSteps
<1>11. QED
  BY <1>2, <1>3, <1>4, <1>5, <1>7, <1>9, <1>10 DEF KeptUnder, routes, K, P, C

LEMMA CategoriesKept == KeptUnder("categories", {"categories", "category:*"}, {}, {"categories"})
<1> DEFINE K == {"categories", "category:*"}  P == {}  C == {"categories"}
           routes == Shop["categories"].routes
           w == Change("categories")  d == Delete({"categories"})  f == Scan({"category:*"})
<1>1. routes = {CategoriesRoute, CategoryRoute}
  BY DEF Shop, PageOf
<1>2. \A route \in routes : Keeps(route, K, P, C)
  <2>1. /\ Direct("categories").key = NoKey /\ CollsOf(Direct("categories")) = C
    BY ServiceIs
  <2>2. CategoryBySlug.key = NoKey /\ CollsOf(CategoryBySlug) = C
    <3>1. /\ CategoryBySlug.key = Direct("categories").key
          /\ CategoryBySlug.colls = Direct("categories").colls
      BY DEF CategoryBySlug, Direct, Service
    <3>2. QED
      BY <2>1, <3>1 DEF CollsOf
  <2>3. Keeps(CategoriesRoute, K, P, C) /\ Keeps(CategoryRoute, K, P, C)
    BY <2>1, <2>2, RouteKeeps DEF CategoriesRoute, CategoryRoute, CategoryList
  <2>4. QED
    BY <1>1, <2>3
<1>3. Shop["categories"].edits =
        {CategoryCreated, CategoryChanged, CategoryDeleted, CategoryMutation}
  BY DEF Shop, PageOf
<1>4. /\ CategoryCreated = <<w, d, f>> /\ CategoryChanged = <<w, d, f>>
      /\ CategoryDeleted = <<w, d, f>>
  BY Joined DEF CategoryCreated, CategoryChanged, CategoryDeleted, CategoryEdit, CategoryBust
<1>5. /\ IsWrite(w) /\ IsDeletion(d) /\ IsDeletion(f)
      /\ d.keys = {"categories"} /\ f.keys = {"category:*"}
  <2>1. NoKey \notin {"categories"} \cup {"category:*"}
    BY DEF NoKey
  <2>2. QED
    BY <2>1, ChangeIs, DeleteIs
<1>6. Sound(routes, CategoryMutation)
  BY AroundIsSound DEF CategoryMutation, CategoryEdit
<1>7. P = {} /\ K \cup P \subseteq d.keys \cup f.keys
  BY <1>5
<1> HIDE DEF routes, w, d, f, K, P, C
<1>8. Sound(routes, <<w, d, f>>)
  BY <1>2, <1>5, <1>7, ThreeSteps
<1>9. QED
  BY <1>2, <1>3, <1>4, <1>6, <1>8 DEF KeptUnder, routes, K, P, C

LEMMA PoliciesKept ==
  KeptUnder("policies", {"policies"}, {"policies"}, {"policy_page_meta", "policy_sections"})
<1> DEFINE K == {"policies"}  C == {"policy_page_meta", "policy_sections"}
           routes == Shop["policies"].routes  d == Delete(K)
<1>1. routes = {PoliciesRoute}
  BY DEF Shop, PageOf
<1>2. \A route \in routes : Keeps(route, K, K, C)
  <2>1. PolicyBundle.key = "policies" /\ PolicyBundle.colls = <<"policy_page_meta", "policy_sections">>
    BY DEF PolicyBundle, Service
  <2>2. CollsOf(PolicyBundle) \subseteq C
    BY <2>1 DEF CollsOf
  <2>3. Keeps(PoliciesRoute, K, K, C)
    BY <2>1, <2>2, RouteKeeps DEF PoliciesRoute
  <2>4. QED
    BY <1>1, <2>3
<1>3. Shop["policies"].edits = {PolicyMetaEdited, PolicySectionEdited}
  BY DEF Shop, PageOf
<1>4. PolicyMetaEdited = <<Change("policy_page_meta"), d, d>>
  BY Joined DEF PolicyMetaEdited, PolicyMetaEdit
<1>5. PolicySectionEdited = <<Change("policy_sections"), d, d>>
  BY Joined DEF PolicySectionEdited, PolicySectionEdit
<1>6. IsDeletion(d) /\ d.keys = K
  <2>1. NoKey \notin K
    BY DEF NoKey
  <2>2. QED
    BY <2>1, DeleteIs
<1> HIDE DEF routes, d
<1>7. ASSUME NEW w, IsWrite(w) PROVE Sound(routes, <<w, d, d>>)
  BY <1>2, <1>6, <1>7, ThreeSteps
<1>8. QED
  BY <1>2, <1>3, <1>4, <1>5, <1>7, ChangeIs DEF KeptUnder, routes

LEMMA JournalSteps ==
  /\ JournalEdited = <<Change("journal_page_settings"), Delete({"journal_page"}),
                       Scan(PostKeys), Delete({"journal"})>>
  /\ PostEdited = <<Change("blog_posts"), Scan(PostKeys), Delete({"journal"})>>
  /\ IsWrite(Change("journal_page_settings")) /\ IsWrite(Change("blog_posts"))
  /\ Change("blog_posts").coll = "blog_posts"
  /\ IsDeletion(Delete({"journal_page"})) /\ Delete({"journal_page"}).keys = {"journal_page"}
  /\ IsDeletion(Scan(PostKeys)) /\ Scan(PostKeys).keys = PostKeys
  /\ IsDeletion(Delete({"journal"})) /\ Delete({"journal"}).keys = {"journal"}
<1>1. JournalEdited = <<Change("journal_page_settings"), Delete({"journal_page"}),
                        Scan(PostKeys), Delete({"journal"})>>
  BY Joined DEF JournalEdited, JournalEdit
<1>2. PostEdited = <<Change("blog_posts"), Scan(PostKeys), Delete({"journal"})>>
  BY Joined DEF PostEdited, PostEdit
<1>3. NoKey \notin {"journal_page"} \cup PostKeys \cup {"journal"}
  BY DEF PostKeys, NoKey
<1>4. QED
  BY <1>1, <1>2, <1>3, ChangeIs, DeleteIs

LEMMA JournalKept ==
  KeptUnder("journal", {"journal"}, {"journal_page", "blog_posts:list:True"},
       {"journal_page_settings", "blog_posts"})
<1> DEFINE K == {"journal"}  P == {"journal_page", "blog_posts:list:True"}
           C == {"journal_page_settings", "blog_posts"}
           posts == JournalPosts("blog_posts:list:True")
           routes == Shop["journal"].routes
<1>1. routes = {JournalRoute} /\ Shop["journal"].edits = {JournalEdited, PostEdited}
  BY DEF Shop, PageOf
<1>2. /\ JournalMeta.key = "journal_page" /\ CollsOf(JournalMeta) = {"journal_page_settings"}
      /\ posts.key = "blog_posts:list:True" /\ CollsOf(posts) = {"blog_posts"}
  BY ServiceIs DEF JournalMeta, JournalPosts
<1> HIDE DEF posts
<1>3. JournalRoute.key = "journal" /\ JournalRoute.parts = <<JournalMeta, posts>>
  BY DEF JournalRoute, Route, posts
<1>4. \A route \in routes : Keeps(route, K, P, C)
  <2>1. \A n \in DOMAIN JournalRoute.parts : JournalRoute.parts[n] \in {JournalMeta, posts}
    BY <1>3
  <2>2. Len(JournalRoute.parts) = 2 /\ DOMAIN JournalRoute.parts = 1 .. 2
    BY <1>3
  <2>3. Keeps(JournalRoute, K, P, C)
    BY <1>2, <1>3, <2>1, <2>2 DEF Keeps
  <2>4. QED
    BY <1>1, <2>3
<1>5. Covers(routes, "blog_posts", PostKeys \cup {"journal"})
  <2>1. ASSUME NEW n \in DOMAIN JournalRoute.parts, "blog_posts" \in CollsOf(JournalRoute.parts[n])
        PROVE  JournalRoute.parts[n] = posts
    BY <1>2, <1>3, <2>1
  <2>2. posts.key \in PostKeys
    BY <1>2 DEF PostKeys
  <2>3. QED
    BY <1>1, <1>3, <2>1, <2>2 DEF Covers
<1> HIDE DEF routes
<1>6. Sound(routes, PostEdited)
  <2>1. K \subseteq Delete({"journal"}).keys
    BY JournalSteps
  <2>2. QED
    BY <1>4, <1>5, <2>1, JournalSteps, ThreeSteps
<1>7. Sound(routes, JournalEdited)
  <2>1. K \cup P \subseteq {"journal_page"} \cup PostKeys \cup {"journal"}
    BY DEF PostKeys
  <2>2. QED
    BY <1>4, <2>1, JournalSteps, FourSteps
<1>8. QED
  BY <1>1, <1>4, <1>6, <1>7 DEF KeptUnder, routes

LEMMA PostsKept ==
  KeptUnder("posts", {}, {"blog_posts:list:all"}, {"journal_page_settings", "blog_posts"})
<1> DEFINE K == {}  P == {"blog_posts:list:all"}  C == {"journal_page_settings", "blog_posts"}
           posts == JournalPosts("blog_posts:list:all")
           settings == Direct("journal_page_settings")
           routes == Shop["posts"].routes
<1>1. routes = {AdminJournal} /\ Shop["posts"].edits = {JournalEdited, PostEdited}
  BY DEF Shop, PageOf
<1>2. \A route \in routes : Keeps(route, K, P, C)
  <2>1. /\ settings.key \in P \cup {NoKey} /\ CollsOf(settings) \subseteq C
        /\ posts.key \in P \cup {NoKey} /\ CollsOf(posts) \subseteq C
    <3>1. posts = Service("blog_posts:list:all", <<"blog_posts">>)
      BY DEF JournalPosts
    <3>2. posts.key = "blog_posts:list:all" /\ CollsOf(posts) = {"blog_posts"}
      BY <3>1, ServiceIs
    <3>3. settings.key = NoKey /\ CollsOf(settings) = {"journal_page_settings"}
      BY ServiceIs
    <3> HIDE DEF posts, settings
    <3>4. QED
      BY <3>2, <3>3
  <2>2. Keeps(AdminJournal, K, P, C)
    BY <2>1, RouteKeeps DEF AdminJournal
  <2>3. QED
    BY <1>1, <2>2
<1>3. K = {} /\ K \cup P \subseteq PostKeys
  BY DEF PostKeys
<1> HIDE DEF routes, K, P, C
<1>4. Sound(routes, PostEdited)
  BY <1>2, <1>3, JournalSteps, ThreeSteps
<1>5. Sound(routes, JournalEdited)
  BY <1>2, <1>3, JournalSteps, FourSteps
<1>6. QED
  BY <1>1, <1>2, <1>4, <1>5 DEF KeptUnder, routes, K, P, C

-----------------------------------------------------------------------------
(* Every edit of every page.                                                *)
IsKept(name) == \E K, P, C : IsFiniteSet(C) /\ KeptUnder(name, K, P, C)

LEMMA ShopIsKept ==
  ASSUME NEW name \in Pages
  PROVE  IsKept(name)
<1>1. name \in {"products", "categories", "testimonials", "hero", "assets",
               "asset", "faq", "slides", "studio", "shop", "policies", "home",
               "story", "navigation", "contact", "account", "history",
               "product_page", "journal", "posts"}
  BY PagesAssumption DEF Shop
<1>2. \A x, y : IsFiniteSet({x}) /\ IsFiniteSet({x, y})
  <2> TAKE x, y
  <2>1. IsFiniteSet({x}) /\ IsFiniteSet({y})
    BY FS_Singleton
  <2>2. {x} \cup {y} = {x, y}
    OBVIOUS
  <2>3. QED
    BY <2>1, <2>2, FS_Union
<1>3. IsKept("products")
  BY <1>2, ProductsKept DEF IsKept
<1>4. IsKept("categories")
  BY <1>2, CategoriesKept DEF IsKept
<1>5. IsKept("testimonials")
  BY <1>2, TestimonialsKept DEF IsKept
<1>6. IsKept("hero")
  BY <1>2, HeroKept DEF IsKept
<1>7. IsKept("assets")
  BY <1>2, AssetsKept DEF IsKept
<1>8. IsKept("asset")
  BY <1>2, AssetKept DEF IsKept
<1>9. IsKept("faq")
  BY <1>2, FaqKept DEF IsKept
<1>10. IsKept("slides")
  BY <1>2, SlidesKept DEF IsKept
<1>11. IsKept("studio")
  BY <1>2, StudioKept DEF IsKept
<1>12. IsKept("shop")
  BY <1>2, ShopKept DEF IsKept
<1>13. IsKept("policies")
  BY <1>2, PoliciesKept DEF IsKept
<1>14. IsKept("home")
  BY <1>2, HomeKept DEF IsKept
<1>15. IsKept("story")
  BY <1>2, StoryKept DEF IsKept
<1>16. IsKept("navigation")
  BY <1>2, NavigationKept DEF IsKept
<1>17. IsKept("contact")
  BY <1>2, ContactKept DEF IsKept
<1>18. IsKept("account")
  BY <1>2, AccountKept DEF IsKept
<1>19. IsKept("history")
  BY <1>2, HistoryKept DEF IsKept
<1>20. IsKept("product_page")
  BY <1>2, ProductPageKept DEF IsKept
<1>21. IsKept("journal")
  BY <1>2, JournalKept DEF IsKept
<1>22. IsKept("posts")
  BY <1>2, PostsKept DEF IsKept
<1>23. QED
  BY <1>1, <1>3, <1>4, <1>5, <1>6, <1>7, <1>8, <1>9, <1>10, <1>11, <1>12, <1>13,
     <1>14, <1>15, <1>16, <1>17, <1>18, <1>19, <1>20, <1>21, <1>22

(* A restore writes in any order and ends with every key of the cache.      *)
LEMMA RestoreIsSound ==
  ASSUME NEW n \in Nat, NEW f, NEW colls,
         f = [i \in 1 .. n |-> Change(colls[i])]
  PROVE  Sound(Shop[page].routes, f \o <<Scan(CacheKeys)>>)
<1> DEFINE d == Scan(CacheKeys)
           s == f \o <<d>>
           T == {f[i] : i \in 1 .. n} \cup {d}
<1>1. IsDeletion(d) /\ d.keys = CacheKeys
  <2>1. NoKey \notin CacheKeys
    BY DEF CacheKeys
  <2>2. QED
    BY <2>1, DeleteIs
<1>2. \A i \in 1 .. n : IsWrite(f[i])
  BY ChangeIs
<1> HIDE DEF d
<1>3. f \in Seq(T) /\ <<d>> \in Seq(T) /\ Len(f) = n /\ DOMAIN f = 1 .. n
  OBVIOUS
<1> HIDE DEF T
<1>4. /\ s \in Seq(T) /\ DOMAIN s = 1 .. n + 1
      /\ \A i \in 1 .. n : s[i] = f[i]
      /\ s[n + 1] = d
  BY <1>3
<1> HIDE DEF s
<1>5. IsSteps(s)
  BY <1>4 DEF IsSteps
<1>6. \A route \in Shop[page].routes : \A m \in DOMAIN route.parts :
        {route.key, route.parts[m].key} \ {NoKey} \subseteq CacheKeys
  BY DEF CacheKeys, Parts, PartsOf
<1>7. ASSUME NEW i \in 1 .. n
      PROVE  s[i].do = "write" /\ s[i].keys = {} /\ Pledged(Shop[page].routes, s, i)
  <2>1. s[i].do = "write" /\ s[i].keys = {}
    BY <1>2, <1>4 DEF IsWrite
  <2>2. n + 1 \in DOMAIN s /\ n + 1 > i /\ s[n + 1].keys = CacheKeys
    BY <1>1, <1>4
  <2>3. \A key \in CacheKeys : Later(s, i, key)
    BY <2>2 DEF Later
  <2>4. QED
    BY <1>6, <2>1, <2>3 DEF Pledged
<1>8. InOrder(Shop[page].routes, s, n + 1)
  <2>1. \A key \in CacheKeys : NotBefore(s, n + 1, key)
    BY <1>1, <1>4 DEF NotBefore
  <2>2. QED
    BY <1>6, <2>1 DEF InOrder
<1>9. Sound(Shop[page].routes, s)
  <2> SUFFICES ASSUME NEW i \in DOMAIN s
               PROVE  /\ s[i].do \in {"write", "around", "delete", "scan"} /\ NoKey \notin s[i].keys
                      /\ s[i].do \in {"write", "around"} => s[i].keys = {}
                      /\ s[i].do = "write" => Pledged(Shop[page].routes, s, i)
                      /\ InOrder(Shop[page].routes, s, i)
    BY <1>5 DEF Sound
  <2>1. CASE i \in 1 .. n
    BY <1>7, <2>1 DEF InOrder
  <2>2. CASE i = n + 1
    BY <1>1, <1>4, <1>8, <2>2 DEF IsDeletion
  <2>3. QED
    BY <1>4, <2>1, <2>2
<1>10. QED
  BY <1>9 DEF s, d

LEMMA EditIsSound ==
  ASSUME page \in Pages, NEW edit \in Edits
  PROVE  Sound(Shop[page].routes, edit)
<1>1. PICK K, P, C : IsFiniteSet(C) /\ KeptUnder(page, K, P, C)
  BY ShopIsKept DEF IsKept
<1>2. Cardinality(Colls) \in Nat
  <2>1. Colls \subseteq C
    BY <1>1 DEF KeptUnder, Keeps, Colls, Parts, PartsOf
  <2>2. QED
    BY <1>1, <2>1, FS_Subset, FS_CardinalityType
<1>3. CASE edit \in Shop[page].edits
  BY <1>1, <1>3 DEF KeptUnder
<1>4. CASE edit \in BundleRestores
  <2>1. PICK order \in SetToSeqs(Colls) : edit = ChangeAll(order) \o <<Scan(CacheKeys)>>
    BY <1>4 DEF BundleRestores
  <2>2. DOMAIN order = 1 .. Cardinality(Colls)
    BY DEF SetToSeqs
  <2>3. ChangeAll(order) = [i \in 1 .. Cardinality(Colls) |-> Change(order[i])]
    BY <2>2 DEF ChangeAll
  <2>4. QED
    BY <1>2, <2>1, <2>3, RestoreIsSound
<1>5. CASE edit \in ConfigImports
  <2>1. PICK order \in SetToSeqs(Colls) : edit = WipeAndInsert(order) \o <<Scan(CacheKeys)>>
    BY <1>5 DEF ConfigImports
  <2>2. Len(order) = Cardinality(Colls)
    BY <1>2 DEF SetToSeqs
  <2> DEFINE n == 2 * Cardinality(Colls)
             colls == [i \in 1 .. n |-> order[(i + 1) \div 2]]
  <2>3. WipeAndInsert(order) = [i \in 1 .. n |-> Change(colls[i])]
    BY <2>2 DEF WipeAndInsert
  <2>4. n \in Nat
    BY <1>2
  <2> HIDE DEF n, colls
  <2>5. QED
    BY <2>1, <2>3, <2>4, RestoreIsSound
<1>6. QED
  BY <1>3, <1>4, <1>5 DEF Edits

-----------------------------------------------------------------------------
(* What is left of an edit: only what a scan found can lie without the      *)
(* route's key being deleted later.                                         *)
GoesOn(routes, s) ==
  /\ IsSteps(s)
  /\ \A i \in DOMAIN s :
       /\ s[i].do \in {"write", "around", "delete", "scan", "listed"} /\ NoKey \notin s[i].keys
       /\ s[i].do = "listed" => i = 1
       /\ s[i].do \in {"write", "around"} => s[i].keys = {}
       /\ s[i].do = "write" => Pledged(routes, s, i)
       /\ s[i].do # "listed" => InOrder(routes, s, i)

(* What a copy and a request can be.                                        *)
Copies == {"none", "store", "old", "doubt"}
Stages == {"idle", "part", "read", "keep", "finish", "answer"}
RequestTypes == [pc : Stages, route : Shop[page].routes \cup {NoRoute}, part : Nat, coll : Nat,
             some : BOOLEAN, got : {"store", "old", "doubt"}, read : {"store", "doubt"}]

(* A request that is at a part of its answer.                               *)
Reads(q) == q.pc \in {"part", "read", "keep"}
Deletable(key) == (\E e \in Editors : Between(e)) \/ ToBeDeleted(key)
SomeoneEdits == \E e \in Editors : editor[e] # <<>>
(* Who makes an answer from an old copy made it since the last edit moved.  *)
AnswersLater(q) ==
  /\ Reads(q) => /\ q.route \in Shop[page].routes /\ q.part \in DOMAIN q.route.parts
                 /\ q.part = 1 => q.got = "store"
  /\ q.pc = "finish" => q.route \in Shop[page].routes
  /\ (Reads(q) \/ q.pc = "finish") /\ q.got = "old" =>
       SomeoneEdits /\ (q.route.key # NoKey => Deletable(q.route.key))

ContentTypes ==
  /\ page \in Pages /\ store \in [Colls -> BOOLEAN] /\ copies \in [CacheKeys -> Copies]
  /\ reader \in [Readers -> RequestTypes]
  /\ editor = [e \in Editors |-> editor[e]]
EditsGoOn == \A e \in Editors : GoesOn(Shop[page].routes, editor[e])
ReadersAreLate == \A r \in Readers : AnswersLater(reader[r])

ContentInv == ContentTypes /\ EditsGoOn /\ ReadersAreLate /\ CopyIsCurrent

LEMMA EmptyGoesOn == ASSUME NEW routes PROVE GoesOn(routes, <<>>)
BY DEF GoesOn, IsSteps

LEMMA SoundGoesOn ==
  ASSUME NEW routes, NEW s, Sound(routes, s)
  PROVE  GoesOn(routes, s)
BY DEF Sound, GoesOn

(* A sequence of steps, its first one and the others.                       *)
LEMMA StepsOf ==
  ASSUME NEW T, NEW s \in Seq(T)
  PROVE  IsSteps(s)
<1> DEFINE R == {s[i] : i \in DOMAIN s}
<1>1. Len(s) \in Nat /\ s \in [1 .. Len(s) -> T]
  OBVIOUS
<1>2. \A i \in 1 .. Len(s) : s[i] \in R
  BY <1>1
<1> HIDE DEF R
<1>3. s \in [1 .. Len(s) -> R]
  BY <1>1, <1>2
<1>4. s \in Seq(R)
  BY <1>1, <1>3, SeqDef
<1>5. QED
  BY <1>4 DEF R, IsSteps

LEMMA StepsHave ==
  ASSUME NEW s, IsSteps(s)
  PROVE  /\ Len(s) \in Nat /\ DOMAIN s = 1 .. Len(s)
         /\ s # <<>> => /\ Len(s) >= 1 /\ 1 \in DOMAIN s /\ Head(s) = s[1]
                       /\ IsSteps(Tail(s)) /\ Len(Tail(s)) = Len(s) - 1
                       /\ \A i \in DOMAIN Tail(s) : i + 1 \in DOMAIN s /\ Tail(s)[i] = s[i + 1]
<1> DEFINE T == {s[i] : i \in DOMAIN s}
<1>1. s \in Seq(T)
  BY DEF IsSteps
<1> HIDE DEF T
<1>2. Len(s) \in Nat /\ DOMAIN s = 1 .. Len(s)
  BY <1>1
<1>3. ASSUME s # <<>>
      PROVE  /\ Len(s) >= 1 /\ 1 \in DOMAIN s /\ Head(s) = s[1]
             /\ IsSteps(Tail(s)) /\ Len(Tail(s)) = Len(s) - 1
             /\ \A i \in DOMAIN Tail(s) : i + 1 \in DOMAIN s /\ Tail(s)[i] = s[i + 1]
  <2>1. Len(s) >= 1 /\ Head(s) = s[1]
    BY <1>1, <1>3
  <2> DEFINE t == Tail(s)
  <2>2. /\ t \in Seq(T) /\ Len(t) = Len(s) - 1 /\ DOMAIN t = 1 .. Len(s) - 1
        /\ \A i \in 1 .. Len(s) - 1 : t[i] = s[i + 1]
    BY <1>1, <1>3
  <2> HIDE DEF t
  <2>3. IsSteps(t)
    BY <2>2, StepsOf
  <2>4. QED
    BY <1>2, <2>1, <2>2, <2>3 DEF t
<1>4. QED
  BY <1>2, <1>3

(* One step less, or the keys a scan found in its place.                    *)
LEMMA TailGoesOn ==
  ASSUME NEW routes, NEW s, GoesOn(routes, s), s # <<>>
  PROVE  /\ GoesOn(routes, Tail(s))
         /\ \A i \in DOMAIN s : i # 1 => i - 1 \in DOMAIN Tail(s) /\ Tail(s)[i - 1] = s[i]
         /\ \A i \in DOMAIN Tail(s) : Tail(s)[i].do # "listed"
<1> DEFINE t == Tail(s)
<1>1. IsSteps(s)
  BY DEF GoesOn
<1>2. /\ Len(s) \in Nat /\ DOMAIN s = 1 .. Len(s) /\ IsSteps(t) /\ Len(t) = Len(s) - 1
      /\ \A i \in DOMAIN t : i + 1 \in DOMAIN s /\ t[i] = s[i + 1]
  BY <1>1, StepsHave
<1>3. DOMAIN t = 1 .. Len(s) - 1
  BY <1>2, StepsHave
<1> HIDE DEF t
<1>4. \A i \in DOMAIN s : i # 1 => i - 1 \in DOMAIN t /\ t[i - 1] = s[i]
  BY <1>2, <1>3
<1>5. ASSUME NEW i \in DOMAIN t, NEW key
      PROVE  /\ Later(s, i + 1, key) => Later(t, i, key)
             /\ NotBefore(s, i + 1, key) => NotBefore(t, i, key)
  <2>1. i + 1 > 1 /\ i \in Nat
    BY <1>3
  <2>2. ASSUME NEW j \in DOMAIN s, j >= i + 1, key \in s[j].keys
        PROVE  j - 1 \in DOMAIN t /\ j - 1 >= i /\ key \in t[j - 1].keys /\ (j > i + 1 => j - 1 > i)
    BY <1>2, <1>4, <2>1, <2>2
  <2>3. \A j \in DOMAIN s : j > i + 1 => j >= i + 1
    BY <1>2, <2>1
  <2>4. QED
    BY <2>2, <2>3 DEF Later, NotBefore
<1>6. ASSUME NEW i \in DOMAIN t
      PROVE  /\ Pledged(routes, s, i + 1) => Pledged(routes, t, i)
             /\ InOrder(routes, s, i + 1) => InOrder(routes, t, i)
             /\ t[i] = s[i + 1] /\ i + 1 \in DOMAIN s /\ i + 1 # 1
  BY <1>2, <1>3, <1>5 DEF Pledged, InOrder
<1>7. GoesOn(routes, t)
  BY <1>2, <1>6 DEF GoesOn
<1>8. \A i \in DOMAIN t : t[i].do # "listed"
  BY <1>6 DEF GoesOn
<1>9. QED
  BY <1>4, <1>7, <1>8 DEF t

LEMMA ListedGoesOn ==
  ASSUME NEW routes, NEW s, GoesOn(routes, s), s # <<>>, NEW found, NoKey \notin found
  PROVE  /\ GoesOn(routes, <<Listed(found)>> \o Tail(s))
         /\ DOMAIN (<<Listed(found)>> \o Tail(s)) = DOMAIN s
         /\ \A i \in DOMAIN s :
              (<<Listed(found)>> \o Tail(s))[i] = IF i = 1 THEN Listed(found) ELSE s[i]
<1> DEFINE t == Tail(s)
           d == Listed(found)
           u == <<d>> \o t
           T == {t[i] : i \in DOMAIN t} \cup {d}
<1>1. IsSteps(s)
  BY DEF GoesOn
<1>2. /\ Len(s) \in Nat /\ Len(s) >= 1 /\ DOMAIN s = 1 .. Len(s)
      /\ IsSteps(t) /\ Len(t) = Len(s) - 1
      /\ \A i \in DOMAIN t : t[i] = s[i + 1]
  BY <1>1, StepsHave
<1>3. d.do = "listed" /\ d.keys = found
  BY DEF Listed, Delete
<1> HIDE DEF t, d
<1>4. t \in Seq(T) /\ <<d>> \in Seq(T) /\ Len(<<d>>) = 1
  BY <1>2 DEF IsSteps
<1> HIDE DEF T
<1>5. u \in Seq(T) /\ Len(u) = Len(s) /\ DOMAIN u = DOMAIN s /\ u[1] = d
  <2>1. u \in Seq(T) /\ Len(u) = 1 + Len(t) /\ u[1] = d
    BY <1>4
  <2>2. DOMAIN u = 1 .. Len(u)
    BY <2>1
  <2>3. Len(u) = Len(s)
    <3>1. Len(t) = Len(s) - 1 /\ Len(s) \in Nat
      BY <1>2
    <3>2. Len(u) = 1 + Len(t)
      BY <2>1
    <3> HIDE DEF u
    <3>3. QED
      BY <3>1, <3>2
  <2>4. QED
    BY <1>2, <2>1, <2>2, <2>3
<1>6. ASSUME NEW i \in DOMAIN s, i # 1 PROVE u[i] = s[i]
  <2>1. i - 1 \in DOMAIN t /\ u[i] = t[i - 1] /\ (i - 1) + 1 = i
    BY <1>2, <1>4, <1>6
  <2>2. QED
    BY <1>2, <2>1
<1> HIDE DEF u
<1>7. IsSteps(u)
  BY <1>5, StepsOf
<1>8. ASSUME NEW i \in DOMAIN s, i # 1
      PROVE  /\ Pledged(routes, s, i) => Pledged(routes, u, i)
             /\ InOrder(routes, s, i) => InOrder(routes, u, i)
  <2>1. i > 1
    BY <1>2, <1>8
  <2>2. \A j \in DOMAIN s : j >= i => j # 1 /\ u[j] = s[j]
    BY <1>2, <1>6, <2>1
  <2>3. \A j \in DOMAIN s : j > i => j >= i
    BY <1>2
  <2>4. \A key : /\ Later(s, i, key) => Later(u, i, key)
                 /\ NotBefore(s, i, key) => NotBefore(u, i, key)
    BY <1>5, <2>2, <2>3 DEF Later, NotBefore
  <2>5. QED
    BY <1>6, <1>8, <2>4 DEF Pledged, InOrder
<1>9. GoesOn(routes, u)
  BY <1>3, <1>5, <1>6, <1>7, <1>8 DEF GoesOn
<1>10. QED
  BY <1>5, <1>6, <1>9 DEF u, t, d

-----------------------------------------------------------------------------
(* The steps: those of the readers, those of the editors, and expiry.       *)
LEMMA SamePage ==
  ASSUME page' = page
  PROVE  Colls' = Colls /\ CacheKeys' = CacheKeys /\ RequestTypes' = RequestTypes
BY DEF Colls, CacheKeys, Parts, RequestTypes

LEMMA IdleIs == Idle \in RequestTypes /\ AnswersLater(Idle) /\ Idle.pc = "idle"
<1>1. Idle = [pc |-> "idle", route |-> NoRoute, part |-> 0, coll |-> 0, some |-> FALSE,
              got |-> "store", read |-> "store"]
  BY DEF Idle
<1>2. QED
  BY <1>1 DEF RequestTypes, Stages, AnswersLater, Reads

(* A reader moves: the editors go on, and what it keeps is as it should be. *)
LEMMA ReaderMoves ==
  ASSUME ContentInv, page' = page, store' = store, editor' = editor,
         NEW r \in Readers, NEW q \in RequestTypes, AnswersLater(q), Becomes(r, q),
         copies' \in [CacheKeys -> Copies],
         \A key \in CacheKeys : copies'[key] = "old" => ToBeDeleted(key)
  PROVE  ContentInv'
<1>1. Colls' = Colls /\ CacheKeys' = CacheKeys /\ RequestTypes' = RequestTypes
  BY SamePage
<1>2. reader \in [Readers -> RequestTypes] /\ reader' = [reader EXCEPT ![r] = q]
  BY DEF ContentInv, ContentTypes, Becomes
<1>3. ContentTypes'
  BY <1>1, <1>2 DEF ContentInv, ContentTypes
<1>4. EditsGoOn'
  BY DEF ContentInv, EditsGoOn
<1>5. \A key : ToBeDeleted(key) = ToBeDeleted(key)' /\ Deletable(key) = Deletable(key)'
  BY DEF ToBeDeleted, Deletable, Between
<1>6. \A x : AnswersLater(x) => AnswersLater(x)'
  BY <1>5 DEF AnswersLater, SomeoneEdits
<1>7. \A x \in Readers : AnswersLater(reader'[x])
  BY <1>2 DEF ContentInv, ReadersAreLate
<1>8. ReadersAreLate'
  BY <1>6, <1>7 DEF ReadersAreLate
<1>9. CopyIsCurrent'
  BY <1>1, <1>5 DEF CopyIsCurrent
<1>10. QED
  BY <1>3, <1>4, <1>8, <1>9 DEF ContentInv

(* What is still to be deleted is on an editor's list.                      *)
LEMMA OldIsEdited == \A key : ToBeDeleted(key) => SomeoneEdits
BY DEF ToBeDeleted, SomeoneEdits

LEMMA WorseIs ==
  ASSUME NEW a \in {"store", "old", "doubt"}, NEW b \in {"store", "old", "doubt"}
  PROVE  /\ Worse(a, b) \in {"store", "old", "doubt"}
         /\ Worse(a, b) = "old" => a = "old" \/ b = "old"
BY DEF Worse

LEMMA PageKeeps ==
  ASSUME page \in Pages, NEW route \in Shop[page].routes
  PROVE  /\ Len(route.parts) \in Nat \ {0} /\ DOMAIN route.parts = 1 .. Len(route.parts)
         /\ route.key # NoKey => route.key \in CacheKeys
         /\ \A n \in DOMAIN route.parts :
              route.parts[n].key # NoKey => route.parts[n].key \in CacheKeys
<1>1. PICK K, P, C : KeptUnder(page, K, P, C)
  BY ShopIsKept DEF IsKept
<1>2. QED
  BY <1>1 DEF KeptUnder, Keeps, CacheKeys, Parts, PartsOf

LEMMA WithPartIs ==
  ASSUME ContentInv, NEW r \in Readers, Reads(reader[r]),
         NEW copy \in {"store", "old", "doubt"}, NEW some \in BOOLEAN,
         copy = "old" => SomeoneEdits,
         copy = "old" /\ reader[r].route.key # NoKey => Deletable(reader[r].route.key)
  PROVE  WithPart(r, copy, some) \in RequestTypes /\ AnswersLater(WithPart(r, copy, some))
<1> DEFINE q == reader[r]
           sum == Worse(q.got, copy)
           next == [q EXCEPT !.pc = "part", !.part = @ + 1, !.some = FALSE, !.got = sum,
                             !.read = "store"]
           done == [q EXCEPT !.pc = "finish", !.some = FALSE, !.got = sum, !.read = "store"]
<1>1. \/ q.part < Len(q.route.parts) /\ WithPart(r, copy, some) = next
      \/ WithPart(r, copy, some) \in {done, Idle}
  BY DEF WithPart
<1>2. q \in RequestTypes /\ AnswersLater(q)
  BY DEF ContentInv, ContentTypes, ReadersAreLate
<1> HIDE DEF q
<1>3. q.part \in Nat /\ q.route \in Shop[page].routes /\ q.part \in DOMAIN q.route.parts
      /\ q.got \in {"store", "old", "doubt"} /\ page \in Pages
  BY <1>2 DEF RequestTypes, AnswersLater, ContentInv, ContentTypes, q
<1>4. /\ sum \in {"store", "old", "doubt"}
      /\ (sum = "old" => SomeoneEdits)
      /\ (sum = "old" /\ q.route.key # NoKey => Deletable(q.route.key))
  BY <1>2, <1>3, WorseIs DEF AnswersLater, q
<1> HIDE DEF sum
<1>5. next \in RequestTypes /\ done \in RequestTypes
  <2>1. q.part + 1 \in Nat
    BY <1>3
  <2>2. next \in RequestTypes
    BY <1>2, <1>4, <2>1 DEF RequestTypes, Stages
  <2>3. done \in RequestTypes
    BY <1>2, <1>4 DEF RequestTypes, Stages
  <2>4. QED
    BY <2>2, <2>3
<1>6. AnswersLater(done)
  <2>1. done.pc = "finish" /\ done.route = q.route /\ done.got = sum
    BY <1>2 DEF RequestTypes
  <2>2. QED
    BY <1>3, <1>4, <2>1 DEF AnswersLater, Reads
<1>7. ASSUME q.part < Len(q.route.parts) PROVE AnswersLater(next)
  <2>1. next.pc = "part" /\ next.route = q.route /\ next.got = sum /\ next.part = q.part + 1
    BY <1>2 DEF RequestTypes
  <2>2. Len(q.route.parts) \in Nat /\ DOMAIN q.route.parts = 1 .. Len(q.route.parts)
    BY <1>3, PageKeeps
  <2>3. q.part + 1 \in DOMAIN q.route.parts /\ q.part + 1 # 1
    BY <1>3, <1>7, <2>2
  <2>4. QED
    BY <1>3, <1>4, <2>1, <2>3 DEF AnswersLater, Reads
<1>8. QED
  BY <1>1, <1>5, <1>6, <1>7, IdleIs

LEMMA AskKeeps ==
  ASSUME ContentInv, NEW r \in Readers, Ask(r)
  PROVE  ContentInv'
<1>1. PICK route \in Shop[page].routes : \E copy \in Gets(route.key) :
        Becomes(r, IF copy = NoCopy
                   THEN [Idle EXCEPT !.pc = "part", !.route = route, !.part = 1]
                   ELSE [Idle EXCEPT !.pc = "answer", !.route = route, !.got = copy])
  BY DEF Ask
<1>2. PICK copy \in Gets(route.key) :
        Becomes(r, IF copy = NoCopy
                   THEN [Idle EXCEPT !.pc = "part", !.route = route, !.part = 1]
                   ELSE [Idle EXCEPT !.pc = "answer", !.route = route, !.got = copy])
  BY <1>1
<1> DEFINE begin == [Idle EXCEPT !.pc = "part", !.route = route, !.part = 1]
           answer == [Idle EXCEPT !.pc = "answer", !.route = route, !.got = copy]
<1>3. /\ page \in Pages /\ copies \in [CacheKeys -> Copies]
      /\ UNCHANGED <<page, store, copies, editor>>
  BY DEF ContentInv, ContentTypes, Ask
<1>4. copy \in Copies
  BY <1>2, <1>3, PageKeeps DEF Gets, CopyAt, NoCopy, Copies
<1>5. Idle \in RequestTypes /\ Idle.got = "store"
  BY IdleIs DEF Idle
<1>6. begin \in RequestTypes /\ AnswersLater(begin)
  <2>1. /\ begin \in RequestTypes /\ begin.pc = "part" /\ begin.route = route
        /\ begin.part = 1 /\ begin.got = "store"
    BY <1>5 DEF RequestTypes, Stages
  <2>2. 1 \in DOMAIN route.parts
    BY <1>3, PageKeeps
  <2> HIDE DEF begin
  <2>3. QED
    BY <2>1, <2>2 DEF RequestTypes, Stages, AnswersLater, Reads
<1>7. copy # NoCopy => answer \in RequestTypes /\ AnswersLater(answer)
  <2> SUFFICES ASSUME copy # NoCopy PROVE answer \in RequestTypes /\ AnswersLater(answer)
    OBVIOUS
  <2>1. copy \in {"store", "old", "doubt"}
    BY <1>4 DEF Copies, NoCopy
  <2>2. answer \in RequestTypes /\ answer.pc = "answer"
    BY <1>5, <2>1 DEF RequestTypes, Stages
  <2> HIDE DEF answer
  <2>3. QED
    BY <2>2 DEF AnswersLater, Reads
<1> HIDE DEF begin, answer
<1>8. \E q \in RequestTypes : AnswersLater(q) /\ Becomes(r, q)
  BY <1>2, <1>6, <1>7 DEF begin, answer
<1>9. QED
  BY <1>3, <1>8, ReaderMoves DEF ContentInv, CopyIsCurrent

LEMMA AskServiceKeeps ==
  ASSUME ContentInv, NEW r \in Readers, AskService(r)
  PROVE  ContentInv'
<1> DEFINE q == reader[r]
           ask == [q EXCEPT !.pc = "read", !.coll = 1]
<1>1. PICK copy \in Gets(PartOf(r).key) :
        Becomes(r, IF copy = NoCopy THEN ask ELSE WithPart(r, copy, TRUE))
  BY DEF AskService
<1>2. /\ page \in Pages /\ copies \in [CacheKeys -> Copies]
      /\ UNCHANGED <<page, store, copies, editor>>
      /\ q \in RequestTypes /\ AnswersLater(q) /\ q.pc = "part"
  BY DEF ContentInv, ContentTypes, ReadersAreLate, AskService
<1>3. q.route \in Shop[page].routes /\ q.part \in DOMAIN q.route.parts /\ Reads(q)
  BY <1>2 DEF AnswersLater, Reads
<1>4. PartOf(r) = q.route.parts[q.part]
  BY DEF PartOf
<1> HIDE DEF q
<1>5. /\ copy \in Copies
      /\ (copy = "old" => PartOf(r).key \in CacheKeys /\ copies[PartOf(r).key] = "old")
  <2>1. PartOf(r).key # NoKey => PartOf(r).key \in CacheKeys
    BY <1>2, <1>3, <1>4, PageKeeps
  <2>2. QED
    BY <1>1, <1>2, <2>1 DEF Gets, CopyAt, NoCopy, Copies
<1>6. ASSUME copy = "old", q.route.key # NoKey PROVE Deletable(q.route.key)
  <2>1. PICK e \in Editors : \E i \in DOMAIN editor[e] : PartOf(r).key \in editor[e][i].keys
    BY <1>5, <1>6 DEF ContentInv, CopyIsCurrent, ToBeDeleted
  <2>2. PICK i \in DOMAIN editor[e] : PartOf(r).key \in editor[e][i].keys
    BY <2>1
  <2>3. GoesOn(Shop[page].routes, editor[e])
    BY DEF ContentInv, EditsGoOn
  <2>4. CASE editor[e][i].do = "listed"
    <3>1. i = 1 /\ IsSteps(editor[e])
      BY <2>3, <2>4 DEF GoesOn
    <3>2. editor[e] # <<>>
      OBVIOUS
    <3>3. Head(editor[e]) = editor[e][1]
      BY <3>1, <3>2, StepsHave
    <3>4. QED
      BY <2>4, <3>1, <3>2, <3>3 DEF Deletable, Between
  <2>5. CASE editor[e][i].do # "listed"
    <3>1. InOrder(Shop[page].routes, editor[e], i)
      BY <2>3, <2>5 DEF GoesOn
    <3>2. NotBefore(editor[e], i, q.route.key)
      BY <1>3, <1>4, <1>6, <2>2, <3>1 DEF InOrder
    <3>3. QED
      BY <3>2 DEF NotBefore, Deletable, ToBeDeleted
  <2>6. QED
    BY <2>4, <2>5
<1>7. ask \in RequestTypes /\ AnswersLater(ask)
  <2>1. ask \in RequestTypes
    BY <1>2 DEF RequestTypes, Stages
  <2>2. ask.pc = "read" /\ ask.route = q.route /\ ask.part = q.part /\ ask.got = q.got
    BY <1>2 DEF RequestTypes
  <2>3. QED
    BY <1>2, <1>3, <2>1, <2>2 DEF AnswersLater, Reads
<1>8. copy = "old" => SomeoneEdits
  BY <1>5, OldIsEdited DEF ContentInv, CopyIsCurrent
<1>9. ASSUME copy # NoCopy
      PROVE  WithPart(r, copy, TRUE) \in RequestTypes /\ AnswersLater(WithPart(r, copy, TRUE))
  BY <1>3, <1>5, <1>6, <1>8, <1>9, WithPartIs DEF q, Copies, NoCopy
<1> HIDE DEF ask
<1>10. PICK n \in RequestTypes : AnswersLater(n) /\ Becomes(r, n)
  BY <1>1, <1>7, <1>9
<1>11. QED
  BY <1>2, <1>10, ReaderMoves DEF ContentInv, CopyIsCurrent

LEMMA ReadStoreKeeps ==
  ASSUME ContentInv, NEW r \in Readers, ReadStore(r)
  PROVE  ContentInv'
<1> DEFINE q == reader[r]
           last == q.coll = Len(PartOf(r).colls)
           n == [q EXCEPT !.some = @ \/ store[PartOf(r).colls[q.coll]],
                          !.pc = IF last THEN "keep" ELSE "read",
                          !.coll = IF last THEN 0 ELSE @ + 1]
<1>1. /\ q \in RequestTypes /\ AnswersLater(q) /\ q.pc = "read" /\ copies \in [CacheKeys -> Copies]
      /\ UNCHANGED <<page, store, copies, editor>>
  BY DEF ContentInv, ContentTypes, ReadersAreLate, ReadStore
<1>2. Becomes(r, n)
  BY DEF ReadStore
<1> HIDE DEF q, last
<1>3. n \in RequestTypes
  <2>1. q.coll \in Nat /\ (IF last THEN 0 ELSE q.coll + 1) \in Nat
    BY <1>1 DEF RequestTypes
  <2>2. (q.some \/ store[PartOf(r).colls[q.coll]]) \in BOOLEAN
    OBVIOUS
  <2>3. (IF last THEN "keep" ELSE "read") \in Stages
    BY DEF Stages
  <2>4. QED
    BY <1>1, <2>1, <2>2, <2>3 DEF RequestTypes
<1>4. n.pc \in {"keep", "read"} /\ n.route = q.route /\ n.part = q.part /\ n.got = q.got
  BY <1>1 DEF RequestTypes
<1> HIDE DEF n
<1>5. AnswersLater(n)
  BY <1>1, <1>4 DEF AnswersLater, Reads
<1>6. QED
  BY <1>1, <1>2, <1>3, <1>5, ReaderMoves DEF ContentInv, CopyIsCurrent

(* What is kept: under one key the copy, under the others what there was.   *)
LEMMA SetKeeps ==
  ASSUME ContentInv, NEW key, NEW copy \in {"store", "old", "doubt"}, Set(key, copy),
         copy = "old" => ToBeDeleted(key)
  PROVE  /\ copies' \in [CacheKeys -> Copies]
         /\ \A k \in CacheKeys : copies'[k] = "old" => ToBeDeleted(k)
<1>1. copies \in [CacheKeys -> Copies]
  BY DEF ContentInv, ContentTypes
<1>2. copies' = [copies EXCEPT ![key] = copy] \/ copies' = copies
  BY DEF Set
<1>3. copies' \in [CacheKeys -> Copies]
  BY <1>1, <1>2 DEF Copies
<1>4. ASSUME NEW k \in CacheKeys, copies'[k] = "old"
      PROVE  copies[k] = "old" \/ (k = key /\ copy = "old")
  BY <1>1, <1>2, <1>4
<1>5. QED
  BY <1>3, <1>4 DEF ContentInv, CopyIsCurrent

LEMMA KeepPartKeeps ==
  ASSUME ContentInv, NEW r \in Readers, KeepPart(r)
  PROVE  ContentInv'
<1> DEFINE q == reader[r]
<1>1. /\ q \in RequestTypes /\ AnswersLater(q) /\ q.pc = "keep" /\ copies \in [CacheKeys -> Copies]
      /\ UNCHANGED <<page, store, editor>> /\ Becomes(r, WithPart(r, q.read, q.some))
  BY DEF ContentInv, ContentTypes, ReadersAreLate, KeepPart
<1>2. q.read \in {"store", "doubt"} /\ q.some \in BOOLEAN /\ Reads(q)
  BY <1>1 DEF RequestTypes, Reads
<1>3. /\ copies' \in [CacheKeys -> Copies]
      /\ \A k \in CacheKeys : copies'[k] = "old" => ToBeDeleted(k)
  <2>1. Set(PartOf(r).key, InDoubt(q.read)) \/ UNCHANGED copies
    BY DEF KeepPart, KeepNothing
  <2>2. InDoubt(q.read) \in {"store", "doubt"}
    BY <1>2 DEF InDoubt
  <2>3. CASE Set(PartOf(r).key, InDoubt(q.read))
    BY <2>2, <2>3, SetKeeps
  <2>4. CASE UNCHANGED copies
    BY <1>1, <2>4 DEF ContentInv, CopyIsCurrent
  <2>5. QED
    BY <2>1, <2>3, <2>4
<1>4. WithPart(r, q.read, q.some) \in RequestTypes /\ AnswersLater(WithPart(r, q.read, q.some))
  BY <1>2, WithPartIs
<1> HIDE DEF q
<1>5. QED
  BY <1>1, <1>3, <1>4, ReaderMoves

LEMMA FinishKeeps ==
  ASSUME ContentInv, NEW r \in Readers, Finish(r)
  PROVE  ContentInv'
<1> DEFINE q == reader[r]
           n == [Idle EXCEPT !.pc = "answer", !.route = q.route, !.got = q.got]
<1>1. /\ q \in RequestTypes /\ AnswersLater(q) /\ q.pc = "finish" /\ copies \in [CacheKeys -> Copies]
      /\ UNCHANGED <<page, store, editor>> /\ Becomes(r, n)
  BY DEF ContentInv, ContentTypes, ReadersAreLate, Finish
<1>2. /\ copies' \in [CacheKeys -> Copies]
      /\ \A k \in CacheKeys : copies'[k] = "old" => ToBeDeleted(k)
  <2>1. (q.route.key # NoKey /\ Set(q.route.key, InDoubt(q.got))) \/ UNCHANGED copies
    BY DEF Finish, KeepNothing
  <2>2. CASE q.route.key # NoKey /\ Set(q.route.key, InDoubt(q.got))
    <3>1. InDoubt(q.got) \in {"store", "old", "doubt"}
      BY <1>1 DEF InDoubt, RequestTypes
    <3>2. InDoubt(q.got) = "old" => ~(\E e \in Editors : Between(e)) /\ q.got = "old"
      BY DEF InDoubt
    <3>3. InDoubt(q.got) = "old" => ToBeDeleted(q.route.key)
      BY <1>1, <2>2, <3>2 DEF AnswersLater, Deletable
    <3>4. QED
      BY <2>2, <3>1, <3>3, SetKeeps
  <2>3. CASE UNCHANGED copies
    BY <1>1, <2>3 DEF ContentInv, CopyIsCurrent
  <2>4. QED
    BY <2>1, <2>2, <2>3
<1>3. n \in RequestTypes /\ AnswersLater(n)
  <2>1. q.route \in Shop[page].routes \cup {NoRoute} /\ q.got \in {"store", "old", "doubt"}
    BY <1>1 DEF RequestTypes
  <2> HIDE DEF q
  <2>2. n \in RequestTypes /\ n.pc = "answer"
    BY <2>1, IdleIs DEF RequestTypes, Stages
  <2> HIDE DEF n
  <2>3. QED
    BY <2>2 DEF AnswersLater, Reads
<1> HIDE DEF n, q
<1>4. QED
  BY <1>1, <1>2, <1>3, ReaderMoves

LEMMA ReturnKeeps ==
  ASSUME ContentInv, NEW r \in Readers, Return(r)
  PROVE  ContentInv'
<1>1. /\ copies \in [CacheKeys -> Copies] /\ UNCHANGED <<page, store, copies, editor>>
      /\ Becomes(r, Idle)
  BY DEF ContentInv, ContentTypes, Return
<1>2. QED
  BY <1>1, IdleIs, ReaderMoves DEF ContentInv, CopyIsCurrent

(* An editor moves: who was making an answer does not go on with an old     *)
(* copy, and what is old is still to be deleted.                            *)
LEMMA EditorMoves ==
  ASSUME ContentInv, page' = page,
         NEW e \in Editors, NEW rest, GoesOn(Shop[page].routes, rest),
         editor' = [editor EXCEPT ![e] = rest], NEW written \in BOOLEAN, Disturb(written),
         store' \in [Colls -> BOOLEAN], copies' \in [CacheKeys -> Copies],
         \A key \in CacheKeys : copies'[key] = "old" => ToBeDeleted(key)'
  PROVE  ContentInv'
<1>1. Colls' = Colls /\ CacheKeys' = CacheKeys /\ RequestTypes' = RequestTypes
  BY SamePage
<1>2. reader \in [Readers -> RequestTypes] /\ editor = [x \in Editors |-> editor[x]]
  BY DEF ContentInv, ContentTypes
<1>3. editor' = [x \in Editors |-> IF x = e THEN rest ELSE editor[x]]
  BY <1>2
<1>4. EditsGoOn'
  BY <1>3 DEF ContentInv, EditsGoOn
<1>5. ASSUME NEW r \in Readers
      PROVE  \E n \in RequestTypes : reader'[r] = n /\ AnswersLater(n)'
  <2> PICK q : q = reader[r]
    OBVIOUS
  <2> DEFINE holds == q.pc = "finish" \/ q.part > 1
             hasRead == q.pc = "keep" \/ q.coll > 1
  <2>1. PICK n : n = [q EXCEPT !.got = IF holds THEN "doubt" ELSE @,
                               !.read = IF hasRead /\ written THEN "doubt" ELSE @]
    OBVIOUS
  <2>2. reader'[r] = n
    BY <2>1 DEF Disturb
  <2>3. q \in RequestTypes /\ AnswersLater(q)
    BY <1>2 DEF ContentInv, ReadersAreLate
  <2> HIDE DEF hasRead
  <2>4. (IF holds THEN "doubt" ELSE q.got) \in {"store", "old", "doubt"}
        /\ (IF hasRead /\ written THEN "doubt" ELSE q.read) \in {"store", "doubt"}
    BY <2>3 DEF RequestTypes
  <2>5. n \in RequestTypes
    BY <2>1, <2>3, <2>4 DEF RequestTypes
  <2>6. /\ n.pc = q.pc /\ n.route = q.route /\ n.part = q.part
        /\ n.got = IF holds THEN "doubt" ELSE q.got
    BY <2>1, <2>3 DEF RequestTypes
  <2>7. Reads(q) \/ q.pc = "finish" => n.got # "old"
    <3>1. CASE q.pc = "finish"
      BY <2>6, <3>1
    <3>2. CASE Reads(q)
      <4>1. q.part \in DOMAIN q.route.parts /\ q.route \in Shop[page].routes /\ page \in Pages
        BY <2>3, <3>2 DEF AnswersLater, ContentInv, ContentTypes
      <4>2. q.part > 1 \/ q.part = 1
        BY <4>1, PageKeeps
      <4>3. q.part = 1 => q.got = "store"
        BY <2>3, <3>2 DEF AnswersLater
      <4>4. QED
        BY <2>6, <4>2, <4>3
    <3>3. QED
      BY <3>1, <3>2
  <2>8. Reads(q) /\ q.part = 1 => n.got = "store"
    <3> SUFFICES ASSUME Reads(q), q.part = 1 PROVE n.got = "store"
      OBVIOUS
    <3>1. ~holds
      BY DEF Reads
    <3>2. QED
      BY <2>3, <2>6, <3>1 DEF AnswersLater
  <2> HIDE DEF holds
  <2>9. AnswersLater(n)'
    <3>1. /\ Reads(n) => /\ Reads(q) /\ n.route \in Shop[page].routes
                        /\ n.part \in DOMAIN n.route.parts
                        /\ (n.part = 1 => n.got = "store")
          /\ n.pc = "finish" => n.route \in Shop[page].routes
      BY <2>3, <2>6, <2>8 DEF AnswersLater, Reads
    <3>2. Reads(n) \/ n.pc = "finish" => n.got # "old"
      BY <2>6, <2>7 DEF Reads
    <3>3. QED
      BY <3>1, <3>2 DEF AnswersLater, Reads
  <2>10. QED
    BY <2>2, <2>5, <2>9
<1>6. reader' \in [Readers -> RequestTypes]
  BY <1>5 DEF Disturb
<1>7. ContentTypes'
  BY <1>1, <1>3, <1>6 DEF ContentInv, ContentTypes
<1>8. ReadersAreLate'
  BY <1>5 DEF ReadersAreLate, AnswersLater, Reads, Deletable, ToBeDeleted, Between
<1>9. CopyIsCurrent'
  BY <1>1 DEF CopyIsCurrent
<1>10. QED
  BY <1>4, <1>7, <1>8, <1>9 DEF ContentInv

LEMMA EditKeeps ==
  ASSUME ContentInv, NEW e \in Editors, Edit(e)
  PROVE  ContentInv'
<1>1. PICK edit \in Edits : editor' = [editor EXCEPT ![e] = edit]
  BY DEF Edit
<1>2. UNCHANGED <<page, store, copies, reader>> /\ editor[e] = <<>>
  BY DEF Edit
<1>3. ContentTypes /\ EditsGoOn /\ ReadersAreLate /\ CopyIsCurrent /\ page \in Pages
  BY DEF ContentInv, ContentTypes
<1>4. editor' = [x \in Editors |-> IF x = e THEN edit ELSE editor[x]]
  BY <1>1, <1>3 DEF ContentTypes
<1>5. GoesOn(Shop[page].routes, edit)
  BY <1>3, EditIsSound, SoundGoesOn
<1>6. Colls' = Colls /\ CacheKeys' = CacheKeys /\ RequestTypes' = RequestTypes
  BY <1>2, SamePage
<1>7. \A key : /\ ToBeDeleted(key) => ToBeDeleted(key)'
               /\ Deletable(key) => Deletable(key)'
  <2>1. \A x \in Editors : editor[x] # <<>> => editor'[x] = editor[x]
    BY <1>2, <1>4
  <2>2. \A x \in Editors : \A i \in DOMAIN editor[x] : editor[x] # <<>>
    OBVIOUS
  <2>3. \A key : ToBeDeleted(key) => ToBeDeleted(key)'
    <3> TAKE key
    <3> SUFFICES ASSUME NEW x \in Editors, NEW i \in DOMAIN editor[x], key \in editor[x][i].keys
                 PROVE  ToBeDeleted(key)'
      BY DEF ToBeDeleted
    <3>1. editor'[x] = editor[x]
      BY <2>1, <2>2
    <3>2. QED
      BY <3>1 DEF ToBeDeleted
  <2>4. (\E x \in Editors : Between(x)) => (\E x \in Editors : Between(x))'
    BY <2>1 DEF Between
  <2>5. QED
    BY <2>3, <2>4 DEF Deletable
<1>8. SomeoneEdits => SomeoneEdits'
  BY <1>2, <1>4 DEF SomeoneEdits
<1>9. EditsGoOn'
  BY <1>2, <1>3, <1>4, <1>5 DEF EditsGoOn
<1>10. ReadersAreLate'
  <2>1. \A q : AnswersLater(q) => AnswersLater(q)'
    BY <1>2, <1>7, <1>8 DEF AnswersLater
  <2>2. QED
    BY <1>2, <1>3, <2>1 DEF ReadersAreLate
<1>11. CopyIsCurrent'
  BY <1>2, <1>3, <1>6, <1>7 DEF CopyIsCurrent
<1>12. ContentTypes'
  BY <1>2, <1>3, <1>4, <1>6 DEF ContentTypes
<1>13. QED
  BY <1>9, <1>10, <1>11, <1>12 DEF ContentInv

(* Keys that are still to be deleted after the first step of an edit, and   *)
(* keys another editor is to delete.                                        *)
LEMMA StillToDelete ==
  ASSUME ContentInv, NEW e \in Editors, editor[e] # <<>>,
         NEW key, ToBeDeleted(key), key \notin ThisStep(e).keys,
         \/ editor' = [editor EXCEPT ![e] = Tail(editor[e])]
         \/ \E found : NoKey \notin found
                       /\ editor' = [editor EXCEPT ![e] = <<Listed(found)>> \o Tail(editor[e])]
  PROVE  ToBeDeleted(key)'
<1>1. editor = [x \in Editors |-> editor[x]] /\ GoesOn(Shop[page].routes, editor[e])
  BY DEF ContentInv, ContentTypes, EditsGoOn
<1>2. PICK x \in Editors : \E i \in DOMAIN editor[x] : key \in editor[x][i].keys
  BY DEF ToBeDeleted
<1>3. PICK i \in DOMAIN editor[x] : key \in editor[x][i].keys
  BY <1>2
<1>4. CASE x # e
  <2>1. editor'[x] = editor[x]
    BY <1>1, <1>4
  <2>2. QED
    BY <1>3, <2>1 DEF ToBeDeleted
<1>5. CASE x = e
  <2>1. i # 1
    <3>1. IsSteps(editor[e])
      BY <1>1 DEF GoesOn
    <3>2. Head(editor[e]) = editor[e][1]
      BY <3>1, StepsHave
    <3>3. QED
      BY <1>3, <1>5, <3>2 DEF ThisStep
  <2>2. CASE editor' = [editor EXCEPT ![e] = Tail(editor[e])]
    <3>1. editor'[e] = Tail(editor[e])
      BY <1>1, <2>2
    <3>2. i - 1 \in DOMAIN Tail(editor[e]) /\ Tail(editor[e])[i - 1] = editor[e][i]
      BY <1>1, <1>5, <2>1, TailGoesOn
    <3>3. QED
      BY <1>3, <1>5, <3>1, <3>2 DEF ToBeDeleted
  <2>3. CASE \E found : NoKey \notin found
                        /\ editor' = [editor EXCEPT ![e] = <<Listed(found)>> \o Tail(editor[e])]
    <3>1. PICK found : NoKey \notin found
                       /\ editor' = [editor EXCEPT ![e] = <<Listed(found)>> \o Tail(editor[e])]
      BY <2>3
    <3> DEFINE u == <<Listed(found)>> \o Tail(editor[e])
    <3>2. editor'[e] = u
      BY <1>1, <3>1
    <3>3. i \in DOMAIN u /\ u[i] = editor[e][i]
      BY <1>1, <1>5, <2>1, <3>1, ListedGoesOn
    <3> HIDE DEF u
    <3>4. QED
      BY <1>3, <1>5, <3>2, <3>3 DEF ToBeDeleted
  <2>4. QED
    BY <2>2, <2>3
<1>6. QED
  BY <1>4, <1>5

LEMMA MarkIs ==
  ASSUME ContentInv, NEW keys, NEW from \in {"old", "doubt"}, Mark(keys, from)
  PROVE  /\ copies' \in [CacheKeys -> Copies]
         /\ \A key \in CacheKeys : copies'[key] = "old" =>
              (copies[key] = "old" /\ key \notin keys) \/ (key \in keys /\ from = "old")
<1>1. copies \in [CacheKeys -> Copies]
  BY DEF ContentInv, ContentTypes
<1>2. QED
  BY <1>1 DEF Mark, Copies

LEMMA StepIs ==
  ASSUME ContentInv, NEW e \in Editors, editor[e] # <<>>
  PROVE  /\ ThisStep(e) = editor[e][1] /\ 1 \in DOMAIN editor[e]
         /\ GoesOn(Shop[page].routes, editor[e])
         /\ GoesOn(Shop[page].routes, Tail(editor[e]))
<1>1. GoesOn(Shop[page].routes, editor[e]) /\ IsSteps(editor[e])
  BY DEF ContentInv, EditsGoOn, GoesOn
<1>2. QED
  BY <1>1, StepsHave, TailGoesOn DEF ThisStep

LEMMA WriteStoreKeeps ==
  ASSUME ContentInv, NEW e \in Editors, WriteStore(e)
  PROVE  ContentInv'
<1> DEFINE step == ThisStep(e)
           s == editor[e]
<1>1. /\ s # <<>> /\ step.do \in {"write", "around"} /\ page' = page
      /\ editor' = [editor EXCEPT ![e] = Tail(s)] /\ Disturb(step.do \in {"write", "around"})
  BY DEF WriteStore, Does, Goes
<1>2. /\ step = s[1] /\ 1 \in DOMAIN s
      /\ GoesOn(Shop[page].routes, s) /\ GoesOn(Shop[page].routes, Tail(s))
  BY <1>1, StepIs
<1>3. step.keys = {} /\ (step.do = "write" => Pledged(Shop[page].routes, s, 1))
  BY <1>1, <1>2 DEF GoesOn
<1>4. store' \in [Colls -> BOOLEAN]
  BY DEF ContentInv, ContentTypes, WriteStore
<1>5. PICK from \in {"old", "doubt"} :
        Mark(MadeFrom(step.coll), from) /\ (from = "old" => step.do = "write")
  BY DEF WriteStore
<1> HIDE DEF step
<1>6. /\ copies' \in [CacheKeys -> Copies]
      /\ \A key \in CacheKeys : copies'[key] = "old" =>
           \/ copies[key] = "old" /\ key \notin MadeFrom(step.coll)
           \/ key \in MadeFrom(step.coll) /\ from = "old"
  BY <1>5, MarkIs
<1>7. ASSUME NEW key \in CacheKeys, copies'[key] = "old"
      PROVE  ToBeDeleted(key)'
  <2>1. CASE copies[key] = "old"
    <3>1. ToBeDeleted(key) /\ key \notin ThisStep(e).keys
      BY <1>3, <2>1 DEF ContentInv, CopyIsCurrent, step
    <3>2. QED
      BY <1>1, <3>1, StillToDelete DEF s
  <2>2. CASE key \in MadeFrom(step.coll) /\ step.do = "write"
    <3>1. \E route \in Shop[page].routes : \E n \in DOMAIN route.parts :
            step.coll \in CollsOf(route.parts[n]) /\ key \in {route.key, route.parts[n].key}
      BY <2>2 DEF MadeFrom, Parts, PartsOf
    <3>2. key # NoKey
      BY DEF CacheKeys
    <3>3. Later(s, 1, key)
      BY <1>2, <1>3, <2>2, <3>1, <3>2 DEF Pledged
    <3>4. PICK j \in DOMAIN s : j > 1 /\ key \in s[j].keys
      BY <3>3 DEF Later
    <3>5. j # 1
      BY <3>4
    <3>6. j - 1 \in DOMAIN Tail(s) /\ Tail(s)[j - 1] = s[j]
      BY <1>1, <1>2, <3>5, TailGoesOn
    <3>7. editor'[e] = Tail(s)
      BY <1>1 DEF ContentInv, ContentTypes
    <3>8. QED
      BY <3>4, <3>6, <3>7 DEF ToBeDeleted
  <2>3. QED
    BY <1>5, <1>6, <1>7, <2>1, <2>2
<1>8. QED
  BY <1>1, <1>2, <1>4, <1>6, <1>7, EditorMoves

LEMMA DeleteKeysKeeps ==
  ASSUME ContentInv, NEW e \in Editors, DeleteKeys(e)
  PROVE  ContentInv'
<1> DEFINE keys == ThisStep(e).keys
           s == editor[e]
<1>1. /\ s # <<>> /\ page' = page /\ store' = store
      /\ editor' = [editor EXCEPT ![e] = Tail(s)]
      /\ Disturb(ThisStep(e).do \in {"write", "around"})
  BY DEF DeleteKeys, Does, Goes
<1>2. GoesOn(Shop[page].routes, Tail(s))
  BY <1>1, StepIs
<1>3. copies \in [CacheKeys -> Copies] /\ store \in [Colls -> BOOLEAN]
  BY DEF ContentInv, ContentTypes
<1>4. \/ copies' = [key \in CacheKeys |-> IF key \in keys THEN NoCopy ELSE copies[key]]
      \/ Mark(keys, "doubt")
  BY DEF DeleteKeys
<1> HIDE DEF keys
<1>5. /\ copies' \in [CacheKeys -> Copies]
      /\ \A key \in CacheKeys : copies'[key] = "old" => copies[key] = "old" /\ key \notin keys
  <2>1. CASE copies' = [key \in CacheKeys |-> IF key \in keys THEN NoCopy ELSE copies[key]]
    BY <1>3, <2>1 DEF NoCopy, Copies
  <2>2. CASE Mark(keys, "doubt")
    BY <2>2, MarkIs
  <2>3. QED
    BY <1>4, <2>1, <2>2
<1>6. ASSUME NEW key \in CacheKeys, copies'[key] = "old"
      PROVE  ToBeDeleted(key)'
  <2>1. ToBeDeleted(key) /\ key \notin ThisStep(e).keys
    BY <1>5, <1>6 DEF ContentInv, CopyIsCurrent, keys
  <2>2. QED
    BY <1>1, <2>1, StillToDelete
<1> DEFINE written == ThisStep(e).do \in {"write", "around"}
<1>7. written \in BOOLEAN /\ Disturb(written)
  BY <1>1
<1> HIDE DEF written
<1>8. QED
  BY <1>1, <1>2, <1>3, <1>5, <1>6, <1>7, EditorMoves

LEMMA FindKeysKeeps ==
  ASSUME ContentInv, NEW e \in Editors, FindKeys(e)
  PROVE  ContentInv'
<1> DEFINE keys == ThisStep(e).keys
           found == {key \in keys \cap CacheKeys : copies[key] # NoCopy}
           s == editor[e]
           listed == <<Listed(found)>> \o Tail(s)
           written == ThisStep(e).do \in {"write", "around"}
<1>1. s # <<>> /\ page' = page /\ store' = store
  BY DEF FindKeys, Does
<1>2. \/ /\ copies' = copies
         /\ editor' = [editor EXCEPT ![e] = IF found = {} THEN Tail(s) ELSE listed]
         /\ Disturb(written)
      \/ /\ Mark(keys, "doubt") /\ editor' = [editor EXCEPT ![e] = Tail(s)] /\ Disturb(written)
  BY DEF FindKeys, Goes
<1>3. /\ copies \in [CacheKeys -> Copies] /\ store \in [Colls -> BOOLEAN]
      /\ editor = [x \in Editors |-> editor[x]]
  BY DEF ContentInv, ContentTypes
<1>4. GoesOn(Shop[page].routes, s) /\ GoesOn(Shop[page].routes, Tail(s))
  BY <1>1, StepIs
<1>5. NoKey \notin found
  BY DEF CacheKeys
<1>6. /\ GoesOn(Shop[page].routes, listed) /\ DOMAIN listed = DOMAIN s
      /\ \A i \in DOMAIN s : listed[i] = IF i = 1 THEN Listed(found) ELSE s[i]
  <2> HIDE DEF found, s
  <2>1. QED
    BY <1>1, <1>4, <1>5, ListedGoesOn
<1> DEFINE rest == IF found = {} THEN Tail(s) ELSE listed
<1>7. CASE copies' = copies /\ editor' = [editor EXCEPT ![e] = rest] /\ Disturb(written)
  <2>1. GoesOn(Shop[page].routes, rest)
    BY <1>4, <1>6
  <2>2. ASSUME NEW key \in CacheKeys, copies[key] = "old"
        PROVE  ToBeDeleted(key)'
    <3>1. ToBeDeleted(key)
      BY <2>2 DEF ContentInv, CopyIsCurrent
    <3>2. CASE key \in keys
      <4>1. key \in found
        BY <2>2, <3>2 DEF NoCopy
      <4>2. Listed(found).keys = found
        BY DEF Listed, Delete
      <4>3. editor'[e] = listed
        BY <1>3, <1>7, <4>1
      <4>4. 1 \in DOMAIN listed /\ listed[1] = Listed(found)
        BY <1>1, <1>6, StepIs
      <4> HIDE DEF listed, found
      <4>5. QED
        BY <4>1, <4>2, <4>3, <4>4 DEF ToBeDeleted
    <3>3. CASE key \notin keys
      <4>1. \/ editor' = [editor EXCEPT ![e] = Tail(s)]
            \/ \E f : NoKey \notin f /\ editor' = [editor EXCEPT ![e] = <<Listed(f)>> \o Tail(s)]
        BY <1>5, <1>7
      <4>2. QED
        BY <1>1, <3>1, <3>3, <4>1, StillToDelete
    <3>4. QED
      BY <3>2, <3>3
  <2> HIDE DEF rest, written
  <2>3. written \in BOOLEAN
    BY DEF written
  <2>4. QED
    BY <1>1, <1>3, <1>7, <2>1, <2>2, <2>3, EditorMoves
<1>8. CASE Mark(keys, "doubt") /\ editor' = [editor EXCEPT ![e] = Tail(s)] /\ Disturb(written)
  <2> HIDE DEF keys
  <2>1. /\ copies' \in [CacheKeys -> Copies]
        /\ \A key \in CacheKeys : copies'[key] = "old" => copies[key] = "old" /\ key \notin keys
    BY <1>8, MarkIs
  <2>2. ASSUME NEW key \in CacheKeys, copies'[key] = "old"
        PROVE  ToBeDeleted(key)'
    <3>1. ToBeDeleted(key) /\ key \notin ThisStep(e).keys
      BY <2>1, <2>2 DEF ContentInv, CopyIsCurrent, keys
    <3>2. QED
      BY <1>1, <1>8, <3>1, StillToDelete
  <2>3. written \in BOOLEAN
    OBVIOUS
  <2> HIDE DEF written
  <2>4. QED
    BY <1>1, <1>3, <1>4, <1>8, <2>1, <2>2, <2>3, EditorMoves
<1>9. QED
  BY <1>2, <1>7, <1>8

LEMMA EditorDiesKeeps ==
  ASSUME ContentInv, NEW e \in Editors, EditorDies(e)
  PROVE  ContentInv'
<1>1. /\ page' = page /\ store' = store /\ Mark(CacheKeys, "doubt")
      /\ editor' = [editor EXCEPT ![e] = <<>>]
      /\ Disturb(ThisStep(e).do \in {"write", "around"})
  BY DEF EditorDies, Goes
<1>2. store \in [Colls -> BOOLEAN] /\ GoesOn(Shop[page].routes, <<>>)
  BY EmptyGoesOn DEF ContentInv, ContentTypes
<1>3. /\ copies' \in [CacheKeys -> Copies]
      /\ \A key \in CacheKeys : copies'[key] # "old"
  BY <1>1, MarkIs
<1> DEFINE written == ThisStep(e).do \in {"write", "around"}
<1>4. written \in BOOLEAN /\ Disturb(written)
  BY <1>1
<1> HIDE DEF written
<1>5. \A key \in CacheKeys : copies'[key] = "old" => ToBeDeleted(key)'
  BY <1>3
<1>6. QED
  BY <1>1, <1>2, <1>3, <1>4, <1>5, EditorMoves

LEMMA ExpireKeeps ==
  ASSUME ContentInv, Expire
  PROVE  ContentInv'
<1>1. /\ UNCHANGED <<page, store, reader, editor>>
      /\ \E key \in CacheKeys : copies' = [copies EXCEPT ![key] = NoCopy]
  BY DEF Expire
<1>2. Colls' = Colls /\ CacheKeys' = CacheKeys /\ RequestTypes' = RequestTypes
  BY <1>1, SamePage
<1>3. copies \in [CacheKeys -> Copies]
  BY DEF ContentInv, ContentTypes
<1>4. /\ copies' \in [CacheKeys -> Copies]
      /\ \A key \in CacheKeys : copies'[key] = "old" => copies[key] = "old"
  BY <1>1, <1>3 DEF NoCopy, Copies
<1>5. ContentTypes'
  BY <1>1, <1>2, <1>4 DEF ContentInv, ContentTypes
<1>6. EditsGoOn' /\ ReadersAreLate'
  BY <1>1 DEF ContentInv, EditsGoOn, ReadersAreLate, AnswersLater, SomeoneEdits, Deletable, Between, ToBeDeleted
<1>7. CopyIsCurrent'
  BY <1>1, <1>2, <1>4 DEF ContentInv, CopyIsCurrent, ToBeDeleted
<1>8. QED
  BY <1>5, <1>6, <1>7 DEF ContentInv

LEMMA ContentStart == ContentInit => ContentInv
<1> SUFFICES ASSUME ContentInit PROVE ContentInv
  OBVIOUS
<1>1. /\ page \in Pages /\ store \in [Colls -> BOOLEAN]
      /\ copies = [key \in CacheKeys |-> NoCopy]
      /\ reader = [r \in Readers |-> Idle] /\ editor = [e \in Editors |-> <<>>]
  BY DEF ContentInit
<1>2. ContentTypes
  BY <1>1, IdleIs DEF ContentTypes, Copies, NoCopy
<1>3. EditsGoOn
  BY <1>1, EmptyGoesOn DEF EditsGoOn
<1>4. ReadersAreLate
  BY <1>1, IdleIs DEF ReadersAreLate
<1>5. CopyIsCurrent
  BY <1>1 DEF CopyIsCurrent, NoCopy
<1>6. QED
  BY <1>2, <1>3, <1>4, <1>5 DEF ContentInv

LEMMA ContentStepKeeps == ContentInv /\ [ContentNext]_contentVars => ContentInv'
<1> SUFFICES ASSUME ContentInv, [ContentNext]_contentVars PROVE ContentInv'
  OBVIOUS
<1>1. ASSUME NEW r \in Readers,
             Ask(r) \/ AskService(r) \/ ReadStore(r) \/ KeepPart(r) \/ Finish(r) \/ Return(r)
      PROVE  ContentInv'
  BY <1>1, AskKeeps, AskServiceKeeps, ReadStoreKeeps, KeepPartKeeps, FinishKeeps, ReturnKeeps
<1>2. ASSUME NEW e \in Editors,
             Edit(e) \/ WriteStore(e) \/ DeleteKeys(e) \/ FindKeys(e) \/ EditorDies(e)
      PROVE  ContentInv'
  BY <1>2, EditKeeps, WriteStoreKeeps, DeleteKeysKeeps, FindKeysKeeps, EditorDiesKeeps
<1>3. CASE Expire
  BY <1>3, ExpireKeeps
<1>4. CASE UNCHANGED contentVars
  <2>1. UNCHANGED <<page, store, copies, reader, editor>>
    BY <1>4 DEF contentVars
  <2>2. Colls' = Colls /\ CacheKeys' = CacheKeys /\ RequestTypes' = RequestTypes
    BY <2>1, SamePage
  <2>3. ContentTypes'
    BY <2>1, <2>2 DEF ContentInv, ContentTypes
  <2>4. EditsGoOn' /\ ReadersAreLate'
    BY <2>1 DEF ContentInv, EditsGoOn, ReadersAreLate, AnswersLater, SomeoneEdits, Deletable, Between, ToBeDeleted
  <2>5. CopyIsCurrent'
    BY <2>1, <2>2 DEF ContentInv, CopyIsCurrent, ToBeDeleted
  <2>6. QED
    BY <2>3, <2>4, <2>5 DEF ContentInv
<1>5. QED
  BY <1>1, <1>2, <1>3, <1>4 DEF ContentNext

(* Every variable of the pages keeps its type, for any pages, requests,     *)
(* editors and faults.                                                      *)
THEOREM ContentTypeOKHolds == ContentSpec => []ContentTypeOK
<1>1. ContentInv => ContentTypeOK
  BY DEF ContentInv, ContentTypes, ContentTypeOK, Copies, RequestTypes, Stages
<1>2. ContentSpec => []ContentInv
  BY ContentStart, ContentStepKeeps, PTL DEF ContentSpec
<1>3. QED
  BY <1>1, <1>2, PTL

(* On every page of the shop, with any number of requests and editors, and  *)
(* whatever fails: a copy that is old is one an editor is still about to    *)
(* delete, unless its making met an edit.                                   *)
THEOREM CopyIsCurrentHolds == ContentSpec => []CopyIsCurrent
<1>1. ContentSpec => []ContentInv
  BY ContentStart, ContentStepKeeps, PTL DEF ContentSpec
<1>2. ContentInv => CopyIsCurrent
  BY DEF ContentInv
<1>3. QED
  BY <1>1, <1>2, PTL
=============================================================================
