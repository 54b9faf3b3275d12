----------------------------- MODULE PMM_proofs -----------------------------
(***************************************************************************)
(* The page allocator's free list is sound, no page has two holders and    *)
(* the counters add up, for every firmware map whose descriptors do not    *)
(* overlap and fit in the table, any number of clients, and whatever they  *)
(* write in their pages.                                                   *)
(***************************************************************************)
EXTENDS PMM, FiniteSetTheorems, TLAPS

-----------------------------------------------------------------------------
(* Lists threaded through memory *)

\* Linking a node that is not on a list before its head gives a list.
LEMMA ListPush ==
    ASSUME NEW n \in Nat, NEW S, NEW s \in [1 .. n -> S], NEW Addr,
           NEW link \in [Addr -> Addr], NEW head, NEW node \in Addr,
           S \subseteq Addr, node \notin S,
           IsList(s, n, S, head, link)
    PROVE  \E t \in [1 .. n + 1 -> S \cup {node}] :
               IsList(t, n + 1, S \cup {node}, node,
                      [link EXCEPT ![node] = head])
<1> DEFINE t == [k \in 1 .. n + 1 |-> IF k = 1 THEN node ELSE s[k - 1]]
<1> DEFINE link2 == [link EXCEPT ![node] = head]
<1>1. t \in [1 .. n + 1 -> S \cup {node}]
  OBVIOUS
<1>2. \A k \in 2 .. n + 1 : k - 1 \in 1 .. n /\ t[k] = s[k - 1]
  OBVIOUS
<1>3. t[1] = node
  OBVIOUS
<1>4. ASSUME NEW k \in 1 .. n + 1, NEW l \in 1 .. n + 1, k # l
      PROVE  t[k] # t[l]
  BY <1>2, <1>3, <1>4 DEF IsList
<1>5. S \cup {node} = {t[k] : k \in 1 .. n + 1}
  <2>1. ASSUME NEW x \in S PROVE x \in {t[k] : k \in 1 .. n + 1}
    <3>1. PICK k \in 1 .. n : x = s[k]
      BY DEF IsList
    <3>2. k + 1 \in 2 .. n + 1 /\ t[k + 1] = s[k]
      OBVIOUS
    <3> QED
      BY <3>1, <3>2
  <2> QED
    BY <1>1, <1>3, <2>1
<1>6. ASSUME NEW k \in 1 .. n + 1
      PROVE  link2[t[k]] = IF k = n + 1 THEN NULL ELSE t[k + 1]
  <2>1. CASE k = 1
    <3>1. link2[t[k]] = head
      BY <2>1, <1>3
    <3>2. n > 0 => 2 \in 2 .. n + 1 /\ t[2] = s[1]
      OBVIOUS
    <3> QED
      BY <2>1, <3>1, <3>2 DEF IsList
  <2>2. CASE k # 1
    <3>1. k - 1 \in 1 .. n /\ t[k] = s[k - 1] /\ s[k - 1] \in S
      BY <2>2, <1>2
    <3>2. link2[t[k]] = link[s[k - 1]]
      BY <3>1
    <3>3. link[s[k - 1]] = IF k - 1 = n THEN NULL ELSE s[k]
      BY <3>1 DEF IsList
    <3>4. k # n + 1 => t[k + 1] = s[k]
      BY <2>2
    <3> HIDE DEF t, link2
    <3> QED
      BY <3>1, <3>2, <3>3, <3>4
  <2> QED
    BY <2>1, <2>2
<1>7. IsList(t, n + 1, S \cup {node}, node, link2)
  <2> HIDE DEF t, link2
  <2>1. node = IF n + 1 = 0 THEN NULL ELSE t[1]
    BY <1>3
  <2> QED
    BY <1>4, <1>5, <1>6, <2>1 DEF IsList
<1> QED
  BY <1>1, <1>7

\* Taking the head off a list that is not empty gives a list.
LEMMA ListPop ==
    ASSUME NEW n \in Nat, NEW S, NEW s \in [1 .. n -> S], NEW link, NEW head,
           head # NULL, IsList(s, n, S, head, link)
    PROVE  /\ n > 0 /\ head \in S
           /\ \E t \in [1 .. n - 1 -> S \ {head}] :
                  IsList(t, n - 1, S \ {head}, link[head], link)
<1> DEFINE t == [k \in 1 .. n - 1 |-> s[k + 1]]
<1>1. n > 0 /\ head = s[1] /\ 1 \in 1 .. n
  BY DEF IsList
<1>2. head \in S
  BY <1>1
<1>3. \A k \in 1 .. n - 1 : k + 1 \in 1 .. n /\ k + 1 # 1 /\ t[k] = s[k + 1]
  OBVIOUS
<1>4. t \in [1 .. n - 1 -> S \ {head}]
  BY <1>1, <1>3 DEF IsList
<1>5. \A k, l \in 1 .. n - 1 : k # l => t[k] # t[l]
  BY <1>3 DEF IsList
<1>6. S \ {head} = {t[k] : k \in 1 .. n - 1}
  <2>1. ASSUME NEW x \in S \ {head} PROVE x \in {t[k] : k \in 1 .. n - 1}
    <3>1. PICK k \in 1 .. n : x = s[k]
      BY DEF IsList
    <3>2. k # 1
      BY <3>1, <1>1
    <3>3. k - 1 \in 1 .. n - 1 /\ t[k - 1] = s[k]
      BY <3>2
    <3> QED
      BY <3>1, <3>3
  <2> QED
    BY <1>4, <2>1
<1>7. link[head] = IF n - 1 = 0 THEN NULL ELSE t[1]
  <2>1. link[head] = IF 1 = n THEN NULL ELSE s[2]
    BY <1>1 DEF IsList
  <2>2. n # 1 => t[1] = s[2]
    BY <1>1
  <2> QED
    BY <1>1, <2>1, <2>2
<1>8. ASSUME NEW k \in 1 .. n - 1
      PROVE  link[t[k]] = IF k = n - 1 THEN NULL ELSE t[k + 1]
  <2>1. link[s[k + 1]] = IF k + 1 = n THEN NULL ELSE s[k + 2]
    BY DEF IsList
  <2>2. k # n - 1 => t[k + 1] = s[k + 2]
    OBVIOUS
  <2> QED
    BY <2>1, <2>2, <1>3
<1>9. IsList(t, n - 1, S \ {head}, link[head], link)
  <2> HIDE DEF t
  <2> QED
    BY <1>5, <1>6, <1>7, <1>8 DEF IsList
<1> QED
  BY <1>1, <1>2, <1>4, <1>9

\* Writes outside a list's nodes leave it a list.
LEMMA ListFrame ==
    ASSUME NEW n \in Nat, NEW S, NEW s \in [1 .. n -> S], NEW head,
           NEW link, NEW link2, \A x \in S : link2[x] = link[x],
           IsList(s, n, S, head, link)
    PROVE  IsList(s, n, S, head, link2)
BY DEF IsList


-----------------------------------------------------------------------------
(* The inductive invariant *)

ParsePhases == {"get_size", "allocate_pool", "get_map", "parse"}

\* g_memory_map is the prefix of the saved map that has been parsed, and the
\* saved map is what the firmware reported last.
TableInv ==
    /\ count = desc_counter /\ count <= Len(mmp.desc)
    /\ \A k \in 0 .. count - 1 : regions[k] = mmp.desc[k + 1]
    /\ ~mmp.map => mmp.desc = <<>>
    /\ mmp.map => mmp.desc = firmware
    /\ pc \in {"get_size", "allocate_pool", "get_map"} => mmp = NoMap
    /\ pc \notin ParsePhases => count = Len(mmp.desc)

\* Where pmm_init's two loops can be, and that nobody holds pages before the
\* end of them.
CursorInv ==
    /\ i <= count
    /\ pc \in ParsePhases => i = 0
    /\ pc = "running" => i = count
    /\ pc # "pmm_push" => p = 0
    /\ p > 0 => /\ i < count
                /\ regions[i].type = EfiConventionalMemory
                /\ p <= regions[i].pages
    /\ pc # "running" => Held = {}

IInv == TypeOK /\ TableInv /\ CursorInv /\ FreeListSound /\ NoPageShared

-----------------------------------------------------------------------------
(* The parsed regions *)

\* The regions parsed so far lie in memory and do not overlap.
LEMMA RegionsDisjoint ==
    ASSUME TypeOK, TableInv
    PROVE  /\ \A k \in 0 .. count - 1 :
                 Frames(regions[k]) \subseteq Page /\ regions[k] \in Descriptor
           /\ \A k, l \in 0 .. count - 1 :
                 k # l => Frames(regions[k]) \cap Frames(regions[l]) = {}
           /\ mmp.desc \in Seq(Descriptor)
           /\ Len(mmp.desc) \in Nat
           /\ Len(mmp.desc) <= MaxRegions
<1>1. mmp.desc = <<>> \/ mmp.desc \in FirmwareMaps
  BY DEF TypeOK
<1>2. count \in Nat /\ count <= Len(mmp.desc)
  BY DEF TypeOK, TableInv
<1>3. CASE mmp.desc = <<>>
  <2>1. Len(mmp.desc) = 0 /\ mmp.desc \in Seq(Descriptor)
    BY <1>3
  <2>2. 0 .. count - 1 = {}
    BY <1>2, <2>1
  <2> QED
    BY <2>1, <2>2, ConstantsAssumption
<1>4. CASE mmp.desc \in FirmwareMaps
  <2> DEFINE m == mmp.desc
  <2>1. m \in Seq(Descriptor) /\ Len(m) \in Nat /\ Len(m) <= MaxRegions
    BY <1>4, FirmwareAssumption, FirmwareFits
  <2>2. \A k \in 1 .. Len(m) : Frames(m[k]) \subseteq Page
    BY <1>4, FirmwareAssumption
  <2>3. \A k, l \in 1 .. Len(m) : k # l => Frames(m[k]) \cap Frames(m[l]) = {}
    BY <1>4, FirmwareAssumption
  <2>4. \A k \in 0 .. count - 1 :
            k + 1 \in 1 .. Len(m) /\ regions[k] = m[k + 1] /\ regions[k] \in Descriptor
    BY <1>2, <2>1 DEF TableInv
  <2>5. \A k, l \in 0 .. count - 1 :
            k # l => Frames(regions[k]) \cap Frames(regions[l]) = {}
    <3> SUFFICES ASSUME NEW k \in 0 .. count - 1, NEW l \in 0 .. count - 1, k # l
                 PROVE  Frames(regions[k]) \cap Frames(regions[l]) = {}
      OBVIOUS
    <3>1. k + 1 # l + 1
      BY <1>2
    <3> HIDE DEF m
    <3> QED
      BY <2>3, <2>4, <3>1
  <2> QED
    BY <2>1, <2>2, <2>4, <2>5
<1> QED
  BY <1>1, <1>3, <1>4

\* Pages under management are memory, and not the null page.
LEMMA ManagedIsMemory ==
    ASSUME TypeOK, TableInv, CursorInv
    PROVE  Managed \subseteq Page \ {NULL}
<1>1. count \in Nat /\ i \in Nat /\ p \in Nat /\ i <= count
  BY DEF TypeOK, CursorInv
<1>2. ASSUME NEW k \in 0 .. i - 1 PROVE Usable(k) \subseteq Page \ {NULL}
  <2>1. k \in 0 .. count - 1
    BY <1>1
  <2> QED
    BY <2>1, RegionsDisjoint DEF Usable
<1>3. Passed \subseteq Page \ {NULL}
  <2>1. CASE p = 0
    BY <2>1 DEF Passed
  <2>2. CASE p > 0
    <3>1. i \in 0 .. count - 1 /\ p <= regions[i].pages
      BY <1>1, <2>2 DEF CursorInv
    <3>2. Frames(regions[i]) \subseteq Page /\ regions[i].pages \in Nat
      BY <3>1, RegionsDisjoint DEF Descriptor
    <3>3. Passed \subseteq Frames(regions[i])
      BY <1>1, <3>1, <3>2 DEF Passed, Frames
    <3> QED
      BY <3>2, <3>3 DEF Passed
  <2> QED
    BY <1>1, <2>1, <2>2
<1> DEFINE U == UNION {Usable(k) : k \in 0 .. i - 1}
<1>4. U \subseteq Page \ {NULL}
  <2> SUFFICES ASSUME NEW x \in U PROVE x \in Page \ {NULL}
    BY Zenon
  <2>1. PICK k \in 0 .. i - 1 : x \in Usable(k)
    OBVIOUS
  <2> QED
    BY <2>1, <1>2
<1>5. Managed = {} \/ Managed = U \cup Passed
  BY Zenon DEF Managed
<1> HIDE DEF U
<1> QED
  BY <1>3, <1>4, <1>5

-----------------------------------------------------------------------------
(* Typing, the table and the cursor: one step per action *)

LEMMA PagesTyped == NULL \in Page /\ Page \subseteq Nat
BY ConstantsAssumption DEF NULL, Page

LEMMA FirmwareTyped == \A m \in FirmwareMaps : m \in Seq(Descriptor) /\ Len(m) \in Nat
<1> SUFFICES ASSUME NEW m \in FirmwareMaps PROVE m \in Seq(Descriptor) /\ Len(m) \in Nat
  OBVIOUS
<1>1. m \in Seq(Descriptor)
  BY FirmwareAssumption
<1> QED
  BY <1>1

\* The head's link is a page, and the head itself is on the list.
LEMMA ListHead ==
    ASSUME TypeOK, FreeListSound, free_list # NULL
    PROVE  free_pages > 0 /\ free_list \in FreePages
<1>1. PICK s \in [1 .. free_pages -> FreePages] :
          IsList(s, free_pages, FreePages, free_list, next)
  BY DEF FreeListSound
<1> QED
  BY <1>1, ListPop DEF TypeOK

LEMMA TypeStep ==
    ASSUME TypeOK, TableInv, CursorInv, FreeListSound, [Next]_vars
    PROVE  TypeOK'
<1> USE PagesTyped, WordsAssumption DEF TypeOK
<1>1. CASE GetMapSize /\ UNCHANGED <<pmmVars, clientVars>>
  <2>1. Len(firmware) \in Nat
    BY FirmwareTyped
  <2> QED
    BY <1>1, <2>1, ConstantsAssumption DEF GetMapSize, pmmVars, clientVars
<1>2. CASE AllocatePool /\ UNCHANGED <<pmmVars, clientVars>>
  BY <1>2 DEF AllocatePool, pmmVars, clientVars
<1>3. CASE GetMap /\ UNCHANGED <<pmmVars, clientVars>>
  BY <1>3 DEF GetMap, NoMap, pmmVars, clientVars
<1>4. CASE ParseDescriptor /\ UNCHANGED <<pmmVars, clientVars>>
  <2>1. desc_counter + 1 \in 1 .. Len(mmp.desc) /\ mmp.desc \in Seq(Descriptor)
    BY <1>4, RegionsDisjoint DEF ParseDescriptor
  <2>2. mmp.desc[desc_counter + 1] \in Descriptor
    <3> DEFINE m == mmp.desc
    <3>1. m \in Seq(Descriptor) /\ desc_counter + 1 \in 1 .. Len(m)
      BY <2>1
    <3> HIDE DEF m, TypeOK
    <3>2. m[desc_counter + 1] \in Descriptor
      BY <3>1
    <3> QED
      BY <3>2 DEF m
  <2>3. mmp.desc[desc_counter + 1].pages \in Nat
    BY <2>2 DEF Descriptor
  <2>4. total_memory' \in Nat /\ free_memory' \in Nat
    <3>1. /\ total_memory' = total_memory + mmp.desc[desc_counter + 1].pages
          /\ \/ free_memory' = free_memory
             \/ free_memory' = free_memory + mmp.desc[desc_counter + 1].pages
      BY <1>4, Zenon DEF ParseDescriptor
    <3>2. total_memory \in Nat /\ free_memory \in Nat
      OBVIOUS
    <3> HIDE DEF TypeOK
    <3> QED
      BY <2>3, <3>1, <3>2
  <2>5. regions' \in [0 .. MaxRegions - 1 -> Descriptor]
    BY <1>4, <2>2 DEF ParseDescriptor
  <2> QED
    BY <1>4, <2>4, <2>5 DEF ParseDescriptor, pmmVars, clientVars
<1>5. CASE ParseDone /\ UNCHANGED <<pmmVars, clientVars>>
  BY <1>5 DEF ParseDone, mapVars, pmmVars, clientVars
<1>6. CASE CountRegion
  <2>1. regions[i] \in Descriptor
    BY <1>6, RegionsDisjoint DEF CountRegion
  <2>2. regions[i].pages \in Nat
    BY <2>1 DEF Descriptor
  <2> QED
    BY <1>6, <2>2 DEF CountRegion, mapVars, clientVars
<1>7. CASE TotalDone
  BY <1>7 DEF TotalDone, mapVars, clientVars
<1>8. CASE PushPage
  <2>1. i \in 0 .. count - 1 /\ p < regions[i].pages
    BY <1>8 DEF PushPage, AtPage
  <2>2. page_addr \in Frames(regions[i])
    <3>1. regions[i].pages \in Nat /\ regions[i].base \in Nat
      BY <2>1, RegionsDisjoint DEF Descriptor
    <3> HIDE DEF TypeOK
    <3>2. p \in 0 .. regions[i].pages - 1
      BY <2>1, <3>1 DEF TypeOK
    <3> QED
      BY <3>2 DEF page_addr, Frames
  <2>3. page_addr \in Page
    BY <2>1, <2>2, RegionsDisjoint
  <2> QED
    BY <1>8, <2>3 DEF PushPage, Push, mapVars, clientVars
<1>9. CASE SkipNullPage
  BY <1>9 DEF SkipNullPage, mapVars, clientVars
<1>10. CASE NextRegion
  BY <1>10 DEF NextRegion, mapVars, clientVars
<1>11. CASE InitDone
  BY <1>11 DEF InitDone, mapVars, pmmVars, clientVars
<1>12. CASE AllocFails
  BY <1>12 DEF AllocFails, mapVars, pmmVars
<1>13. ASSUME NEW c \in Clients, AllocPage(c) PROVE TypeOK'
  BY <1>13, ListHead DEF AllocPage, Take, mapVars
<1>14. ASSUME NEW c \in Clients, NEW page \in Page, FreePage(c, page) PROVE TypeOK'
  BY <1>14 DEF FreePage, GiveBack, Push, mapVars
<1>15. ASSUME NEW c \in Clients, NEW page \in Page, NEW w \in Words,
              ClientWrite(c, page, w)
       PROVE  TypeOK'
  BY <1>15 DEF ClientWrite, mapVars, clientVars
<1>16. CASE UNCHANGED vars
  BY <1>16 DEF vars, mapVars, pmmVars, clientVars
<1> QED
  BY <1>1, <1>2, <1>3, <1>4, <1>5, <1>6, <1>7, <1>8, <1>9, <1>10, <1>11, <1>12,
     <1>13, <1>14, <1>15, <1>16
  DEF Next, MapNext, InitNext, ClientNext

LEMMA TableStep ==
    ASSUME TypeOK, TableInv, [Next]_vars
    PROVE  TableInv'
<1> USE DEF TableInv, ParsePhases
<1>1. CASE GetMapSize
  BY <1>1 DEF GetMapSize, NoMap
<1>2. CASE AllocatePool
  BY <1>2 DEF AllocatePool, NoMap
<1>3. CASE GetMap
  <2>1. count = 0
    BY <1>3 DEF GetMap, NoMap, TypeOK
  <2>2. Len(mmp'.desc) \in Nat
    <3>1. Len(firmware) \in Nat
      BY FirmwareAssumption DEF TypeOK
    <3> QED
      BY <1>3, <3>1 DEF GetMap, NoMap
  <2> QED
    BY <1>3, <2>1, <2>2 DEF GetMap, NoMap
<1>4. CASE ParseDescriptor
  <2>1. count < Len(mmp.desc) /\ count \in 0 .. MaxRegions - 1
    BY <1>4, RegionsDisjoint, ConstantsAssumption DEF ParseDescriptor, TypeOK
  <2>2. regions' = [regions EXCEPT ![count] = mmp.desc[count + 1]]
    BY <1>4 DEF ParseDescriptor
  <2>3. regions'[count] = mmp.desc[count + 1]
    BY <2>1, <2>2 DEF TypeOK
  <2>4. \A k \in 0 .. count - 1 : regions'[k] = regions[k]
    BY <2>1, <2>2 DEF TypeOK
  <2>5. \A k \in 0 .. count' - 1 : k = count \/ k \in 0 .. count - 1
    BY <1>4 DEF ParseDescriptor, TypeOK
  <2>6. \A k \in 0 .. count' - 1 : regions'[k] = mmp'.desc[k + 1]
    BY <1>4, <2>3, <2>4, <2>5 DEF ParseDescriptor
  <2> QED
    BY <1>4, <2>1, <2>6, RegionsDisjoint DEF ParseDescriptor, TypeOK
<1>5. CASE ParseDone
  BY <1>5 DEF ParseDone, mapVars, TypeOK
<1>6. CASE InitNext
  BY <1>6 DEF InitNext, CountRegion, TotalDone, PushPage, AtPage, SkipNullPage,
              NextRegion, InitDone, mapVars
<1>7. CASE ClientNext
  BY <1>7 DEF ClientNext, AllocFails, AllocPage, Take, FreePage, GiveBack,
              ClientWrite, mapVars
<1>8. CASE UNCHANGED vars
  BY <1>8 DEF vars, mapVars
<1> QED
  BY <1>1, <1>2, <1>3, <1>4, <1>5, <1>6, <1>7, <1>8 DEF Next, MapNext

LEMMA CursorStep ==
    ASSUME TypeOK, TableInv, CursorInv, [Next]_vars
    PROVE  CursorInv'
<1> USE DEF CursorInv, ParsePhases, TypeOK
<1>1. CASE MapNext /\ UNCHANGED <<pmmVars, clientVars>>
  <2>1. i = 0 /\ p = 0 /\ Held = {} /\ pc \in ParsePhases
    BY <1>1 DEF MapNext, GetMapSize, AllocatePool, GetMap, ParseDescriptor, ParseDone
  <2>2. i' = 0 /\ p' = 0 /\ Held' = {}
    BY <1>1, <2>1 DEF pmmVars, clientVars, Held
  <2>3. count' \in Nat /\ pc' # "running"
    BY <1>1, <2>1 DEF MapNext, GetMapSize, AllocatePool, GetMap, ParseDescriptor,
                      ParseDone, mapVars
  <2> QED
    BY <2>2, <2>3
<1>2. CASE CountRegion
  BY <1>2 DEF CountRegion, mapVars, clientVars, Held
<1>3. CASE TotalDone
  BY <1>3 DEF TotalDone, mapVars, clientVars, Held
<1>4. CASE PushPage
  <2>1. i \in 0 .. count - 1
    BY <1>4 DEF PushPage, AtPage
  <2>2. regions[i].pages \in Nat
    BY <2>1, RegionsDisjoint DEF Descriptor
  <2> QED
    BY <1>4, <2>2 DEF PushPage, AtPage, mapVars, clientVars, Held
<1>5. CASE SkipNullPage
  <2>1. i \in 0 .. count - 1
    BY <1>5 DEF SkipNullPage, AtPage
  <2>2. regions[i].pages \in Nat
    BY <2>1, RegionsDisjoint DEF Descriptor
  <2> QED
    BY <1>5, <2>2 DEF SkipNullPage, AtPage, mapVars, clientVars, Held
<1>6. CASE NextRegion
  BY <1>6 DEF NextRegion, mapVars, clientVars, Held
<1>7. CASE InitDone
  BY <1>7 DEF InitDone, mapVars, pmmVars, clientVars, Held
<1>8. CASE ClientNext
  BY <1>8 DEF ClientNext, AllocFails, AllocPage, Take, FreePage, GiveBack,
              ClientWrite, mapVars, pmmVars
<1>9. CASE UNCHANGED vars
  BY <1>9 DEF vars, mapVars, pmmVars, clientVars, Held
<1> QED
  BY <1>1, <1>2, <1>3, <1>4, <1>5, <1>6, <1>7, <1>8, <1>9 DEF Next, InitNext

-----------------------------------------------------------------------------
(* What pmm_init has pushed: one page more, or the same pages *)

\* PushPage adds a page that was not pushed before.
LEMMA PushIsFresh ==
    ASSUME TypeOK, TableInv, CursorInv, PushPage
    PROVE  /\ page_addr \in Page \ {NULL}
           /\ page_addr \notin Managed
           /\ Managed' = Managed \cup {page_addr}
<1>1. /\ i \in 0 .. count - 1 /\ pc = "pmm_push" /\ page_addr # NULL
      /\ regions[i].type = EfiConventionalMemory /\ p < regions[i].pages
      /\ p \in Nat /\ i \in Nat /\ count \in Nat
  BY DEF PushPage, AtPage, TypeOK
<1>2. regions[i].base \in Nat /\ regions[i].pages \in Nat
  BY <1>1, RegionsDisjoint DEF Descriptor
<1>3. page_addr \in Frames(regions[i])
  <2>1. p \in 0 .. regions[i].pages - 1
    BY <1>1, <1>2
  <2> QED
    BY <2>1 DEF page_addr, Frames
<1>4. page_addr \in Page \ {NULL}
  BY <1>1, <1>3, RegionsDisjoint
<1> DEFINE U == UNION {Usable(k) : k \in 0 .. i - 1}
<1>5. page_addr \notin U
  <2> SUFFICES ASSUME NEW k \in 0 .. i - 1 PROVE page_addr \notin Usable(k)
    OBVIOUS
  <2>1. k \in 0 .. count - 1 /\ k # i
    BY <1>1
  <2> QED
    BY <2>1, <1>1, <1>3, RegionsDisjoint DEF Usable
<1>6. page_addr \notin Passed
  BY <1>1, <1>2 DEF Passed, page_addr
<1>7. Managed = U \cup Passed
  BY <1>1 DEF Managed
<1>8. /\ regions' = regions /\ i' = i /\ pc' = pc /\ p' = p + 1
  BY DEF PushPage, mapVars
<1>9. Passed' = Passed \cup {page_addr}
  <2>1. Passed' = {regions[i].base + k : k \in 0 .. p} \ {NULL}
    BY <1>1, <1>8 DEF Passed
  <2>2. \A k \in 0 .. p : k = p \/ k \in 0 .. p - 1
    BY <1>1
  <2> QED
    BY <1>1, <1>2, <2>1, <2>2 DEF Passed, page_addr
<1>10. Managed' = U \cup Passed'
  BY <1>1, <1>8 DEF Managed, Usable
<1> HIDE DEF U
<1> QED
  BY <1>4, <1>5, <1>6, <1>7, <1>9, <1>10

\* No other step changes the set of managed pages.
LEMMA ManagedSame ==
    ASSUME TypeOK, TableInv, CursorInv, CursorInv', [Next]_vars, ~PushPage
    PROVE  Managed' = Managed
<1>1. CASE MapNext \/ CountRegion
  <2>1. Managed = {}
    BY <1>1 DEF MapNext, GetMapSize, AllocatePool, GetMap, ParseDescriptor, ParseDone,
                CountRegion, Managed
  <2>2. Managed' = {}
    BY <1>1 DEF MapNext, GetMapSize, AllocatePool, GetMap, ParseDescriptor, ParseDone,
                CountRegion, Managed
  <2> QED
    BY <2>1, <2>2
<1>2. CASE TotalDone
  <2>1. Managed = {} /\ i' = 0 /\ p' = 0 /\ pc' = "pmm_push"
    BY <1>2 DEF TotalDone, Managed, CursorInv
  <2>2. Passed' = {}
    BY <2>1 DEF Passed
  <2>3. Managed' = {}
    BY <2>1, <2>2 DEF Managed
  <2> QED
    BY <2>1, <2>3
<1>3. CASE SkipNullPage
  <2>1. /\ i \in 0 .. count - 1 /\ page_addr = NULL /\ p \in Nat
        /\ regions' = regions /\ i' = i /\ pc' = pc /\ p' = p + 1
    BY <1>3 DEF SkipNullPage, AtPage, mapVars, TypeOK
  <2>2. regions[i].base \in Nat
    BY <2>1, RegionsDisjoint DEF Descriptor
  <2>3. Passed' = Passed
    <3>1. Passed' = {regions[i].base + k : k \in 0 .. p} \ {NULL}
      BY <2>1 DEF Passed
    <3>2. \A k \in 0 .. p : k = p \/ k \in 0 .. p - 1
      BY <2>1
    <3> QED
      BY <2>1, <2>2, <3>1, <3>2 DEF Passed, page_addr
  <2> QED
    BY <2>1, <2>3 DEF Managed, Usable
<1>4. CASE NextRegion
  <2>1. /\ i \in 0 .. count - 1 /\ p \in Nat /\ regions' = regions /\ i' = i + 1
        /\ pc = "pmm_push" /\ pc' = "pmm_push" /\ p' = 0
    BY <1>4 DEF NextRegion, mapVars, TypeOK
  <2>2. regions[i].base \in Nat /\ regions[i].pages \in Nat
    BY <2>1, RegionsDisjoint DEF Descriptor
  <2>3. Passed' = {}
    BY <2>1 DEF Passed
  <2>4. Passed = Usable(i)
    <3>1. CASE regions[i].type = EfiConventionalMemory
      <4>1. p = regions[i].pages
        BY <1>4, <3>1 DEF NextRegion
      <4> QED
        BY <3>1, <4>1 DEF Passed, Usable, Frames
    <3>2. CASE regions[i].type # EfiConventionalMemory
      <4>1. p = 0
        BY <2>1, <3>2 DEF CursorInv
      <4> QED
        BY <3>2, <4>1 DEF Passed, Usable
    <3> QED
      BY <3>1, <3>2
  <2> DEFINE U == UNION {Usable(k) : k \in 0 .. i - 1}
             V == UNION {Usable(k) : k \in 0 .. i}
  <2>5. V = U \cup Usable(i)
    <3>1. \A k \in 0 .. i : k = i \/ k \in 0 .. i - 1
      BY <2>1
    <3>2. i \in 0 .. i /\ \A k \in 0 .. i - 1 : k \in 0 .. i
      BY <2>1
    <3> QED
      BY <3>1, <3>2
  <2>6. Managed' = V
    <3>1. i' - 1 = i
      BY <2>1
    <3> QED
      BY <2>1, <2>3, <3>1 DEF Managed, Usable
  <2>7. Managed = U \cup Passed
    BY <2>1 DEF Managed
  <2> HIDE DEF U, V
  <2> QED
    BY <2>4, <2>5, <2>6, <2>7
<1>5. CASE InitDone
  BY <1>5 DEF InitDone, mapVars, pmmVars, Managed, Usable, Passed
<1>6. CASE ClientNext
  <2>1. /\ pc = "running" /\ UNCHANGED <<pc, regions, i, p>>
    BY <1>6 DEF ClientNext, AllocFails, AllocPage, Take, FreePage, GiveBack,
                ClientWrite, mapVars, pmmVars
  <2> QED
    BY <2>1 DEF Managed, Usable, Passed
<1>7. CASE UNCHANGED vars
  BY <1>7 DEF vars, mapVars, pmmVars, Managed, Usable, Passed
<1> QED
  BY <1>1, <1>2, <1>3, <1>4, <1>5, <1>6, <1>7 DEF Next, InitNext

-----------------------------------------------------------------------------
(* Who holds what *)

\* A client's new page is nobody's, so the holders stay apart.
LEMMA NoPageSharedStep ==
    ASSUME IInv, CursorInv', [Next]_vars
    PROVE  NoPageShared'
<1> USE DEF IInv
<1>1. CASE PushPage
  <2>1. held' = held /\ Managed' = Managed \cup {page_addr}
    BY <1>1, PushIsFresh DEF PushPage, clientVars
  <2> QED
    BY <2>1 DEF NoPageShared, Held
<1>2. CASE ~PushPage
  <2>1. Managed' = Managed
    BY <1>2, ManagedSame
  <2>2. ASSUME NEW c \in Clients, AllocPage(c) PROVE NoPageShared'
    <3>1. free_list \in Managed /\ free_list \notin Held
      BY <2>2, ListHead DEF AllocPage, FreePages
    <3>2. held' = [held EXCEPT ![c] = @ \cup {free_list}]
      BY <2>2 DEF AllocPage, Take
    <3>3. \A d \in Clients : held'[d] = IF d = c THEN held[c] \cup {free_list} ELSE held[d]
      BY <3>2 DEF TypeOK
    <3> QED
      BY <2>1, <3>1, <3>3 DEF NoPageShared, Held
  <2>3. ASSUME NEW c \in Clients, NEW page \in Page, FreePage(c, page)
        PROVE  NoPageShared'
    <3>1. held' = [held EXCEPT ![c] = @ \ {page}]
      BY <2>3 DEF FreePage, GiveBack
    <3>2. \A d \in Clients : held'[d] \subseteq held[d]
      BY <3>1 DEF TypeOK
    <3> QED
      BY <2>1, <3>2 DEF NoPageShared, Held
  <2>4. CASE UNCHANGED held
    BY <2>1, <2>4 DEF NoPageShared, Held
  <2>5. CASE \/ MapNext /\ UNCHANGED <<pmmVars, clientVars>>
             \/ InitNext \/ UNCHANGED vars
    <3>1. UNCHANGED held
      BY <2>5 DEF InitNext, CountRegion, TotalDone, PushPage, SkipNullPage, NextRegion,
                  InitDone, clientVars, vars
    <3> QED
      BY <3>1, <2>4
  <2>6. CASE ClientNext
    BY <2>2, <2>3, <2>4, <2>6 DEF ClientNext, AllocFails, ClientWrite, clientVars
  <2> QED
    BY <2>5, <2>6 DEF Next
<1> QED
  BY <1>1, <1>2

\* How the set of free pages changes, action by action.
LEMMA FreePagesStep ==
    ASSUME IInv, CursorInv', [Next]_vars
    PROVE  /\ PushPage => FreePages' = FreePages \cup {page_addr}
           /\ \A c \in Clients :
                  AllocPage(c) => FreePages' = FreePages \ {free_list}
           /\ \A c \in Clients, page \in Page :
                  FreePage(c, page) => /\ page \in Page \ {NULL}
                                       /\ page \notin FreePages
                                       /\ FreePages' = FreePages \cup {page}
           /\ (UNCHANGED held /\ ~PushPage) => FreePages' = FreePages
<1> USE DEF IInv
<1>1. ASSUME PushPage PROVE FreePages' = FreePages \cup {page_addr}
  <2>1. /\ Managed' = Managed \cup {page_addr} /\ page_addr \notin Managed
        /\ held' = held
    BY <1>1, PushIsFresh DEF PushPage, clientVars
  <2> QED
    BY <2>1 DEF FreePages, Held, NoPageShared
<1>2. ASSUME NEW c \in Clients, AllocPage(c)
      PROVE  FreePages' = FreePages \ {free_list}
  <2>1. Managed' = Managed
    BY <1>2, ManagedSame DEF AllocPage, Take, PushPage, AtPage
  <2>2. \A d \in Clients : held'[d] = IF d = c THEN held[c] \cup {free_list} ELSE held[d]
    BY <1>2 DEF AllocPage, Take, TypeOK
  <2>3. Held' = Held \cup {free_list}
    BY <2>2 DEF Held
  <2> QED
    BY <2>1, <2>3 DEF FreePages
<1>3. ASSUME NEW c \in Clients, NEW page \in Page, FreePage(c, page)
      PROVE  /\ page \in Page \ {NULL} /\ page \notin FreePages
             /\ FreePages' = FreePages \cup {page}
  <2>1. Managed' = Managed
    BY <1>3, ManagedSame DEF FreePage, GiveBack, PushPage, AtPage
  <2>2. page \in held[c]
    BY <1>3 DEF FreePage
  <2>3. page \in Held /\ page \in Managed
    BY <2>2 DEF Held, NoPageShared
  <2>4. \A d \in Clients : held'[d] = IF d = c THEN held[c] \ {page} ELSE held[d]
    BY <1>3 DEF FreePage, GiveBack, TypeOK
  <2>5. Held' = Held \ {page}
    BY <2>2, <2>4 DEF Held, NoPageShared
  <2> QED
    BY <2>1, <2>3, <2>5, ManagedIsMemory DEF FreePages
<1>4. ASSUME UNCHANGED held, ~PushPage PROVE FreePages' = FreePages
  BY <1>4, ManagedSame DEF FreePages, Held
<1> QED
  BY <1>1, <1>2, <1>3, <1>4

\* Every step keeps the list threaded through the pages sound.
LEMMA FreeListStep ==
    ASSUME IInv, CursorInv', [Next]_vars
    PROVE  FreeListSound'
<1> USE DEF IInv
<1>1. free_pages \in Nat /\ next \in [Page -> Page] /\ free_list \in Page
  BY DEF TypeOK
<1>2. FreePages \subseteq Page \ {NULL}
  BY ManagedIsMemory DEF FreePages
<1>3. PICK s \in [1 .. free_pages -> FreePages] :
          IsList(s, free_pages, FreePages, free_list, next)
  BY DEF FreeListSound
<1>4. ASSUME NEW node \in Page, node \notin FreePages, Push(node),
             FreePages' = FreePages \cup {node}
      PROVE  FreeListSound'
  <2>1. \E t \in [1 .. free_pages + 1 -> FreePages \cup {node}] :
            IsList(t, free_pages + 1, FreePages \cup {node}, node,
                   [next EXCEPT ![node] = free_list])
    BY <1>1, <1>2, <1>3, <1>4, ListPush
  <2>2. /\ next' = [next EXCEPT ![node] = free_list]
        /\ free_list' = node /\ free_pages' = free_pages + 1
    BY <1>4 DEF Push
  <2>3. FreeListSound' <=>
            \E t \in [1 .. free_pages' -> FreePages'] :
                IsList(t, free_pages', FreePages', free_list', next')
    BY DEF FreeListSound, IsList
  <2> QED
    BY <1>4, <2>1, <2>2, <2>3
<1>5. CASE PushPage
  <2>1. Push(page_addr) /\ page_addr \in Page /\ page_addr \notin FreePages
    BY <1>5, PushIsFresh DEF PushPage, FreePages
  <2> QED
    BY <1>4, <1>5, <2>1, FreePagesStep
<1>6. ASSUME NEW c \in Clients, NEW page \in Page, FreePage(c, page)
      PROVE  FreeListSound'
  BY <1>4, <1>6, FreePagesStep DEF FreePage, GiveBack
<1>7. ASSUME NEW c \in Clients, AllocPage(c) PROVE FreeListSound'
  <2>1. /\ free_list # NULL /\ free_list' = next[free_list]
        /\ free_pages' = free_pages - 1 /\ next' = next
    BY <1>7 DEF AllocPage, Take
  <2>2. FreePages' = FreePages \ {free_list}
    BY <1>7, FreePagesStep
  <2>3. \E t \in [1 .. free_pages - 1 -> FreePages \ {free_list}] :
            IsList(t, free_pages - 1, FreePages \ {free_list}, next[free_list], next)
    BY <1>1, <1>3, <2>1, ListPop
  <2>4. FreeListSound' <=>
            \E t \in [1 .. free_pages' -> FreePages'] :
                IsList(t, free_pages', FreePages', free_list', next')
    BY DEF FreeListSound, IsList
  <2> QED
    BY <2>1, <2>2, <2>3, <2>4
<1>8. ASSUME UNCHANGED <<free_list, free_pages, held>>, ~PushPage,
             \A x \in FreePages : next'[x] = next[x]
      PROVE  FreeListSound'
  <2>1. FreePages' = FreePages
    BY <1>8, FreePagesStep
  <2>2. IsList(s, free_pages, FreePages, free_list, next')
    BY <1>1, <1>3, <1>8, ListFrame
  <2>3. FreeListSound' <=>
            \E t \in [1 .. free_pages' -> FreePages'] :
                IsList(t, free_pages', FreePages', free_list', next')
    BY DEF FreeListSound, IsList
  <2> QED
    BY <1>8, <2>1, <2>2, <2>3
<1>9. ASSUME NEW c \in Clients, NEW page \in Page, NEW w \in Words,
             ClientWrite(c, page, w)
      PROVE  FreeListSound'
  <2>1. page \notin FreePages
    BY <1>9 DEF ClientWrite, FreePages, Held
  <2>2. \A x \in FreePages : next'[x] = next[x]
    BY <1>9, <2>1 DEF ClientWrite, TypeOK
  <2> QED
    BY <1>8, <1>9, <2>2 DEF ClientWrite, clientVars, PushPage, AtPage
<1>10. CASE UNCHANGED <<next, free_list, free_pages, held>> /\ ~PushPage
  BY <1>8, <1>10
<1>11. CASE \/ MapNext /\ UNCHANGED <<pmmVars, clientVars>>
            \/ InitNext \/ AllocFails \/ UNCHANGED vars
  <2>1. PushPage \/ UNCHANGED <<next, free_list, free_pages, held>>
    BY <1>11 DEF InitNext, CountRegion, TotalDone, SkipNullPage, NextRegion, InitDone,
                 AllocFails, pmmVars, clientVars, vars
  <2> QED
    BY <2>1, <1>5, <1>10
<1> QED
  BY <1>6, <1>7, <1>9, <1>11 DEF Next, ClientNext

-----------------------------------------------------------------------------
(* The theorems *)

LEMMA InitIInv == Init => IInv
<1> SUFFICES ASSUME Init PROVE IInv
  OBVIOUS
<1>1. Held = {} /\ Managed = {} /\ FreePages = {}
  BY DEF Init, MapInit, Held, Managed, FreePages
<1>2. TypeOK
  <2>1. regions \in [0 .. MaxRegions - 1 -> Descriptor]
    BY DEF Init, MapInit, NoRegion, Descriptor
  <2>2. mmp \in [map : BOOLEAN, desc : FirmwareMaps \cup {<<>>}]
    BY DEF Init, MapInit, NoMap
  <2>3. next \in [Page -> Page] /\ NULL \in Page
    BY PagesTyped, WordsAssumption DEF Init
  <2>4. held \in [Clients -> SUBSET Page]
    BY DEF Init
  <2> QED
    BY <2>1, <2>2, <2>3, <2>4 DEF Init, MapInit, TypeOK
<1>3. TableInv /\ CursorInv
  BY <1>1 DEF Init, MapInit, TableInv, CursorInv, ParsePhases, NoMap
<1>4. FreeListSound
  <2>1. free_pages = 0 /\ free_list = NULL
    BY DEF Init
  <2>2. [k \in {} |-> 0] \in [1 .. free_pages -> FreePages]
    BY <1>1, <2>1
  <2>3. IsList([k \in {} |-> 0], 0, {}, NULL, next)
    BY DEF IsList
  <2> QED
    BY <1>1, <2>1, <2>2, <2>3 DEF FreeListSound
<1>5. NoPageShared
  BY <1>1 DEF NoPageShared, Init
<1> QED
  BY <1>2, <1>3, <1>4, <1>5 DEF IInv

\* The inductive invariant holds throughout: each part needs the others, the
\* table's for the cursor's place in memory, the cursor's for a pushed page
\* being new, the holders' for a released page being off the list.
THEOREM Invariance == Spec => []IInv
<1>1. IInv /\ [Next]_vars => IInv'
  <2> SUFFICES ASSUME IInv, [Next]_vars PROVE IInv'
    OBVIOUS
  <2>1. TypeOK' /\ TableInv' /\ CursorInv'
    BY TypeStep, TableStep, CursorStep DEF IInv
  <2> QED
    BY <2>1, NoPageSharedStep, FreeListStep DEF IInv
<1> QED
  BY InitIInv, <1>1, PTL DEF Spec

\* Every variable keeps its type; free_pages never runs below zero.
THEOREM TypeCorrect == Spec => []TypeOK
BY Invariance, PTL DEF IInv

\* The list that pmm.c threads through free pages is sound at every moment of
\* boot and of any later sequence of allocations, releases and client writes.
THEOREM FreeListIsSound == Spec => []FreeListSound
BY Invariance, PTL DEF IInv

\* pmm_alloc_page never hands out a page that somebody holds, nor memory that
\* the firmware map does not call usable.
THEOREM NoPageIsShared == Spec => []NoPageShared
BY Invariance, PTL DEF IInv

\* ParseMemoryMap's table is the firmware's last map.
THEOREM TableIsRight == Spec => []TableIsFirmwareMap
<1>1. IInv => TableIsFirmwareMap
  <2> SUFFICES ASSUME IInv, pc \notin ParsePhases
               PROVE  /\ count <= MaxRegions
                      /\ [k \in 1 .. count |-> regions[k - 1]] = mmp.desc
                      /\ mmp.map => mmp.desc = firmware
    BY DEF TableIsFirmwareMap, ParsePhases
  <2>1. TypeOK /\ TableInv
    BY DEF IInv
  <2>2. count = Len(mmp.desc) /\ count \in Nat /\ count <= MaxRegions
    BY <2>1, RegionsDisjoint DEF TableInv
  <2>3. \A k \in 1 .. count : regions[k - 1] = mmp.desc[k]
    <3>1. \A k \in 1 .. count : k - 1 \in 0 .. count - 1 /\ (k - 1) + 1 = k
      BY <2>2
    <3> QED
      BY <2>1, <3>1 DEF TableInv
  <2>4. mmp.desc \in Seq(Descriptor)
    BY <2>1, RegionsDisjoint
  <2>5. mmp.desc = [k \in 1 .. count |-> mmp.desc[k]]
    BY <2>2, <2>4
  <2> QED
    BY <2>1, <2>2, <2>3, <2>5 DEF TableInv
<1> QED
  BY Invariance, <1>1, PTL

\* Nobody but its holder changes what is written in a held page.
THEOREM ContentsArePrivate == Spec => ContentsPrivate
<1> DEFINE Private ==
        \A c \in Clients : \A page \in held[c] \cap held'[c] :
            next'[page] # next[page] => \E w \in Words : ClientWrite(c, page, w)
<1>1. IInv /\ IInv' /\ [Next]_vars => [Private]_vars
  <2> SUFFICES ASSUME IInv, IInv', [Next]_vars,
                      NEW c \in Clients, NEW page \in held[c] \cap held'[c],
                      next'[page] # next[page]
               PROVE  \E w \in Words : ClientWrite(c, page, w)
    OBVIOUS
  <2>1. page \in Page /\ page \in Held /\ page \in Managed
    BY DEF IInv, TypeOK, NoPageShared, Held
  <2>2. CASE PushPage
    <3>1. page_addr # page
      BY <2>1, <2>2, PushIsFresh DEF IInv
    <3> QED
      BY <2>1, <2>2, <3>1 DEF PushPage, Push, IInv, TypeOK
  <2>3. ASSUME NEW d \in Clients, NEW q \in Page, FreePage(d, q)
        PROVE  \E w \in Words : ClientWrite(c, page, w)
    <3>1. q \in held[d] /\ held' = [held EXCEPT ![d] = @ \ {q}]
      BY <2>3 DEF FreePage, GiveBack
    <3>2. q # page
      <4> SUFFICES ASSUME q = page PROVE FALSE
        OBVIOUS
      <4>1. d = c
        BY <3>1 DEF IInv, NoPageShared
      <4>2. held'[c] = held[c] \ {q}
        BY <3>1, <4>1 DEF IInv, TypeOK
      <4> QED
        BY <4>2
    <3> QED
      BY <2>1, <2>3, <3>2 DEF FreePage, GiveBack, Push, IInv, TypeOK
  <2>4. ASSUME NEW d \in Clients, NEW q \in Page, NEW w \in Words,
               ClientWrite(d, q, w)
        PROVE  \E v \in Words : ClientWrite(c, page, v)
    <3>1. q = page
      BY <2>1, <2>4 DEF ClientWrite, IInv, TypeOK
    <3>2. d = c
      BY <2>4, <3>1 DEF ClientWrite, IInv, NoPageShared
    <3> QED
      BY <2>4, <3>1, <3>2
  <2>5. CASE UNCHANGED next
    BY <2>5
  <2>6. CASE \/ MapNext /\ UNCHANGED <<pmmVars, clientVars>>
             \/ InitNext /\ ~PushPage
             \/ AllocFails \/ UNCHANGED vars
    BY <2>5, <2>6 DEF InitNext, CountRegion, TotalDone, SkipNullPage, NextRegion,
                      InitDone, AllocFails, pmmVars, vars
  <2>7. ASSUME NEW d \in Clients, AllocPage(d) PROVE UNCHANGED next
    BY <2>7 DEF AllocPage, Take
  <2> QED
    BY <2>2, <2>3, <2>4, <2>5, <2>6, <2>7 DEF Next, ClientNext
<1>2. [][Private]_vars <=> ContentsPrivate
  BY DEF ContentsPrivate
<1> QED
  BY Invariance, <1>1, <1>2, PTL DEF Spec

\* pmm.c implements the abstract allocator: a step of the code is an allocation,
\* a release, a page given at boot, a failure with nothing left, or a stutter.
THEOREM Implementation == Spec => ImplementsPageAllocator
<1>1. Init => Abstract!Init
  BY DEF Init, MapInit, Abstract!Init, FreePages, Managed
<1>2. IInv /\ IInv' /\ [Next]_vars
          => [Abstract!Next]_<<FreePages, held, result>>
  <2> SUFFICES ASSUME IInv, IInv', [Next]_vars
               PROVE  Abstract!Next \/ UNCHANGED <<FreePages, held, result>>
    OBVIOUS
  <2>1. CursorInv' /\ TypeOK /\ TableInv /\ CursorInv /\ FreeListSound
    BY DEF IInv
  <2>2. CASE PushPage
    <3>1. page_addr \in Page /\ page_addr \notin Managed
      BY <2>1, <2>2, PushIsFresh
    <3>2. FreePages' = FreePages \cup {page_addr}
      BY <2>1, <2>2, FreePagesStep
    <3>3. page_addr \notin FreePages \cup Abstract!AllHeld
      BY <3>1 DEF FreePages, IInv, NoPageShared, Abstract!AllHeld, Held
    <3>4. Abstract!Donate(page_addr)
      BY <2>2, <3>2, <3>3 DEF Abstract!Donate, PushPage, clientVars
    <3> QED
      BY <3>1, <3>4 DEF Abstract!Next
  <2>3. ASSUME NEW c \in Clients, AllocPage(c) PROVE Abstract!Next
    <3>1. free_list \in FreePages /\ free_list \in Page
      BY <2>1, <2>3, ListHead DEF AllocPage, TypeOK
    <3>2. FreePages' = FreePages \ {free_list}
      BY <2>1, <2>3, FreePagesStep
    <3>3. Abstract!Allocate(c, free_list)
      BY <2>3, <3>1, <3>2 DEF Abstract!Allocate, AllocPage, Take
    <3> QED
      BY <3>1, <3>3 DEF Abstract!Next
  <2>4. ASSUME NEW c \in Clients, NEW page \in Page, FreePage(c, page)
        PROVE  Abstract!Next
    <3>1. FreePages' = FreePages \cup {page}
      BY <2>1, <2>4, FreePagesStep
    <3>2. Abstract!Release(c, page)
      BY <2>4, <3>1 DEF Abstract!Release, FreePage, GiveBack
    <3> QED
      BY <3>2 DEF Abstract!Next
  <2>5. CASE AllocFails
    <3>1. FreePages' = FreePages
      BY <2>1, <2>5, FreePagesStep DEF AllocFails, PushPage, AtPage
    <3>2. FreePages = {}
      <4>1. PICK s \in [1 .. free_pages -> FreePages] :
                IsList(s, free_pages, FreePages, free_list, next)
        BY <2>1 DEF FreeListSound
      <4>2. free_pages # 0 => s[1] \in FreePages /\ free_list = s[1]
        BY <2>1, <4>1 DEF IsList, TypeOK
      <4>3. NULL \notin FreePages
        BY <2>1, ManagedIsMemory DEF FreePages
      <4>4. free_pages = 0
        BY <2>5, <4>2, <4>3 DEF AllocFails
      <4> QED
        BY <4>1, <4>4 DEF IsList
    <3>3. Abstract!AllocateFails
      BY <2>5, <3>1, <3>2 DEF Abstract!AllocateFails, AllocFails
    <3> QED
      BY <3>3 DEF Abstract!Next
  <2>6. CASE UNCHANGED <<held, result>> /\ ~PushPage
    BY <2>1, <2>6, FreePagesStep
  <2>7. CASE \/ MapNext /\ UNCHANGED <<pmmVars, clientVars>>
             \/ InitNext /\ ~PushPage
             \/ UNCHANGED vars
    <3>1. UNCHANGED <<held, result>>
      BY <2>7 DEF InitNext, CountRegion, TotalDone, SkipNullPage, NextRegion,
                  InitDone, clientVars, vars
    <3> QED
      BY <3>1, <2>2, <2>6
  <2>8. ASSUME NEW c \in Clients, NEW page \in Page, NEW w \in Words,
               ClientWrite(c, page, w)
        PROVE  UNCHANGED <<held, result>>
    BY <2>8 DEF ClientWrite, clientVars
  <2> QED
    BY <2>2, <2>3, <2>4, <2>5, <2>6, <2>7, <2>8 DEF Next, ClientNext
<1> QED
  BY Invariance, <1>1, <1>2, PTL DEF Spec, ImplementsPageAllocator, Abstract!Spec

-----------------------------------------------------------------------------
(* The counters *)

ConvPages(k) == IF regions[k].type = EfiConventionalMemory THEN regions[k].pages ELSE 0

\* The regions below n whose first page is the null page.
NullRegions(n) ==
    {k \in 0 .. n - 1 : /\ regions[k].type = EfiConventionalMemory
                        /\ NULL \in Frames(regions[k])}

NullPassed == IF p > 0 /\ regions[i].base = NULL THEN 1 ELSE 0

\* all and conv are the running sums of the regions' pages and of the
\* conventional regions' pages, which the two loops of pmm_init follow.
Sums(all, conv) ==
    /\ all[0] = 0 /\ conv[0] = 0
    /\ \A k \in 0 .. count - 1 : /\ all[k + 1] = all[k] + regions[k].pages
                                 /\ conv[k + 1] = conv[k] + ConvPages(k)
    /\ all[count] = total_memory /\ conv[count] = free_memory
    /\ pc = "pmm_total" => total_pages = all[i]
    /\ pc = "pmm_push" => free_pages + used_pages = conv[i] + p

SumInv == \E all, conv \in [0 .. count -> Nat] : Sums(all, conv)

PhaseInv ==
    /\ pc \in ParsePhases => total_pages = 0
    /\ pc \notin {"pmm_push", "running"} => free_pages = 0 /\ used_pages = 0
    /\ pc \in {"pmm_push", "running"} => total_pages = total_memory
    /\ pc = "running" => free_pages + used_pages = free_memory

UsedInv ==
    /\ pc = "pmm_push" => used_pages = Cardinality(NullRegions(i)) + NullPassed
    /\ pc = "running" => used_pages = Cardinality(Held) + Cardinality(NullRegions(count))

CounterInv == SumInv /\ PhaseInv /\ UsedInv

LEMMA HeldFinite ==
    ASSUME TypeOK
    PROVE  IsFiniteSet(Held) /\ Cardinality(Held) \in Nat
<1>1. IsFiniteSet(Page)
  BY FS_Interval, ConstantsAssumption DEF Page
<1>2. Held \in SUBSET Page
  BY DEF Held, TypeOK
<1> QED
  BY <1>1, <1>2, FS_Subset, FS_CardinalityType

LEMMA NullRegionsFinite ==
    ASSUME NEW n \in Nat
    PROVE  IsFiniteSet(NullRegions(n)) /\ Cardinality(NullRegions(n)) \in Nat
<1>1. IsFiniteSet(0 .. n - 1)
  BY FS_Interval
<1>2. NullRegions(n) \in SUBSET (0 .. n - 1)
  BY DEF NullRegions
<1> QED
  BY <1>1, <1>2, FS_Subset, FS_CardinalityType

\* The null page is a region's first page or none of its pages.
LEMMA NullIsFirst ==
    ASSUME NEW d \in Descriptor
    PROVE  NULL \in Frames(d) <=> d.base = NULL /\ d.pages > 0
BY DEF Frames, Descriptor, NULL

LEMMA NullRegionsNext ==
    ASSUME NEW n \in Nat, regions[n] \in Descriptor
    PROVE  Cardinality(NullRegions(n + 1)) = Cardinality(NullRegions(n))
               + IF /\ regions[n].type = EfiConventionalMemory
                    /\ regions[n].base = NULL /\ regions[n].pages > 0 THEN 1 ELSE 0
<1> DEFINE null == /\ regions[n].type = EfiConventionalMemory
                   /\ regions[n].base = NULL /\ regions[n].pages > 0
<1>1. null <=> regions[n].type = EfiConventionalMemory /\ NULL \in Frames(regions[n])
  BY NullIsFirst
<1>2. n \notin NullRegions(n)
  BY DEF NullRegions
<1>3. 0 .. (n + 1) - 1 = (0 .. n - 1) \cup {n}
  OBVIOUS
<1>4. CASE null
  <2>1. NullRegions(n + 1) = NullRegions(n) \cup {n}
    BY <1>1, <1>3, <1>4 DEF NullRegions
  <2> QED
    BY <1>2, <1>4, <2>1, NullRegionsFinite, FS_AddElement
<1>5. CASE ~null
  <2>1. NullRegions(n + 1) = NullRegions(n)
    BY <1>1, <1>3, <1>5 DEF NullRegions
  <2> QED
    BY <1>5, <2>1, NullRegionsFinite
<1> QED
  BY <1>4, <1>5

\* The region at the cursor is one of the table.
LEMMA CursorRegion ==
    ASSUME TypeOK, TableInv, i < count
    PROVE  i \in 0 .. count - 1 /\ regions[i] \in Descriptor /\ regions[i].pages \in Nat
           /\ regions[i].base \in Nat /\ ConvPages(i) \in Nat
<1>1. i \in 0 .. count - 1
  BY DEF TypeOK
<1>2. regions[i] \in Descriptor
  BY <1>1, RegionsDisjoint
<1> QED
  BY <1>1, <1>2 DEF Descriptor, ConvPages

\* A region is parsed: the sums get one more member.
LEMMA ParseSums ==
    ASSUME IInv, SumInv, ParseDescriptor
    PROVE  SumInv'
<1> USE DEF IInv
<1>1. PICK all \in [0 .. count -> Nat], conv \in [0 .. count -> Nat] : Sums(all, conv)
  BY DEF SumInv
<1>2. /\ count \in Nat /\ count = desc_counter /\ count < Len(mmp.desc)
      /\ count < MaxRegions /\ regions \in [0 .. MaxRegions - 1 -> Descriptor]
      /\ pc = "parse" /\ pc' = pc
  BY RegionsDisjoint, ConstantsAssumption DEF ParseDescriptor, TypeOK, TableInv
<1> DEFINE desc == mmp.desc[desc_counter + 1]
           conventional == IF desc.type = EfiConventionalMemory THEN desc.pages ELSE 0
           all1 == [k \in 0 .. count + 1 |-> IF k <= count THEN all[k] ELSE all[count] + desc.pages]
           conv1 == [k \in 0 .. count + 1 |->
                        IF k <= count THEN conv[k] ELSE conv[count] + conventional]
<1>3. desc \in Descriptor /\ desc.pages \in Nat /\ conventional \in Nat
  <2> DEFINE m == mmp.desc
  <2>1. m \in Seq(Descriptor) /\ desc_counter + 1 \in 1 .. Len(m)
    BY <1>2, RegionsDisjoint
  <2> HIDE DEF m
  <2>2. m[desc_counter + 1] \in Descriptor
    BY <2>1
  <2> QED
    BY <2>2 DEF m, Descriptor
<1>4. /\ total_memory' = total_memory + desc.pages
      /\ free_memory' = free_memory + conventional
      /\ regions' = [regions EXCEPT ![count] = desc] /\ count' = count + 1
  BY <1>3 DEF ParseDescriptor, TypeOK
<1> HIDE DEF desc, conventional
<1>5. all1 \in [0 .. count' -> Nat] /\ conv1 \in [0 .. count' -> Nat]
  <2>1. count \in 0 .. count /\ all[count] + desc.pages \in Nat
        /\ conv[count] + conventional \in Nat
    BY <1>2, <1>3
  <2> QED
    BY <1>2, <1>4, <2>1
<1>6. /\ \A k \in 0 .. count : all1[k] = all[k] /\ conv1[k] = conv[k]
      /\ all1[count + 1] = all[count] + desc.pages
      /\ conv1[count + 1] = conv[count] + conventional
  BY <1>2
<1>7. regions'[count] = desc /\ \A k \in 0 .. count - 1 : regions'[k] = regions[k]
  <2>1. count \in 0 .. MaxRegions - 1
    BY <1>2, ConstantsAssumption
  <2> QED
    BY <1>2, <1>4, <2>1
<1> HIDE DEF all1, conv1
<1>8. \A k \in 0 .. count' - 1 :
          /\ all1[k + 1] = all1[k] + regions'[k].pages
          /\ conv1[k + 1] = conv1[k]
                 + IF regions'[k].type = EfiConventionalMemory THEN regions'[k].pages ELSE 0
  <2> SUFFICES ASSUME NEW k \in 0 .. count' - 1
               PROVE  /\ all1[k + 1] = all1[k] + regions'[k].pages
                      /\ conv1[k + 1] = conv1[k]
                            + IF regions'[k].type = EfiConventionalMemory
                                THEN regions'[k].pages ELSE 0
    OBVIOUS
  <2>1. CASE k = count
    BY <1>2, <1>6, <1>7, <2>1 DEF conventional
  <2>2. CASE k # count
    <3>1. k \in 0 .. count - 1 /\ k \in 0 .. count /\ k + 1 \in 0 .. count
      BY <1>2, <1>4, <2>2
    <3> QED
      BY <1>1, <1>6, <1>7, <3>1 DEF Sums, ConvPages
  <2> QED
    BY <2>1, <2>2
<1>9. all1[0] = 0 /\ conv1[0] = 0
  BY <1>1, <1>2, <1>6 DEF Sums
<1>10. all1[count'] = total_memory' /\ conv1[count'] = free_memory'
  BY <1>1, <1>4, <1>6 DEF Sums
<1>11. SumInv'
  BY <1>2, <1>5, <1>8, <1>9, <1>10 DEF SumInv, Sums, ConvPages
<1> QED
  BY <1>11

\* Where the sums are followed, and which step moves what.
LEMMA SumStep ==
    ASSUME IInv, SumInv, PhaseInv, UsedInv, [Next]_vars
    PROVE  SumInv' /\ PhaseInv'
<1> USE DEF IInv
<1>1. PICK all \in [0 .. count -> Nat], conv \in [0 .. count -> Nat] : Sums(all, conv)
  BY DEF SumInv
<1>2. /\ count \in Nat /\ i \in 0 .. count /\ p \in Nat /\ total_pages \in Nat
      /\ free_pages \in Nat /\ used_pages \in Int /\ total_memory \in Nat
      /\ all[i] \in Nat /\ conv[i] \in Nat
  <2>1. count \in Nat /\ i \in 0 .. count
    BY DEF TypeOK, CursorInv
  <2> QED
    BY <2>1 DEF TypeOK
<1>3. i < count => /\ regions[i].pages \in Nat /\ ConvPages(i) \in Nat
                   /\ all[i + 1] = all[i] + regions[i].pages
                   /\ conv[i + 1] = conv[i] + ConvPages(i)
  BY <1>1, CursorRegion DEF Sums
<1>4. ASSUME UNCHANGED <<count, regions, total_memory, free_memory>>,
             pc' = "pmm_total" => total_pages' = all[i'],
             pc' = "pmm_push" => free_pages' + used_pages' = conv[i'] + p'
      PROVE  SumInv'
  <2>1. Sums(all, conv)'
    BY <1>1, <1>4 DEF Sums, ConvPages
  <2> QED
    BY <1>4, <2>1 DEF SumInv
<1>5. CASE MapNext /\ UNCHANGED <<pmmVars, clientVars>>
  <2>1. total_pages = 0 /\ free_pages = 0 /\ used_pages = 0 /\ i = 0 /\ pc \in ParsePhases
    BY <1>5 DEF MapNext, GetMapSize, AllocatePool, GetMap, ParseDescriptor, ParseDone,
                PhaseInv, ParsePhases, CursorInv
  <2>2. UNCHANGED <<total_pages, free_pages, used_pages, i, p>> /\ pc' \in ParsePhases \cup {"pmm_total"}
    BY <1>5 DEF MapNext, GetMapSize, AllocatePool, GetMap, ParseDescriptor, ParseDone,
                ParsePhases, pmmVars
  <2>3. PhaseInv'
    BY <2>1, <2>2 DEF PhaseInv, ParsePhases
  <2>4. CASE ParseDescriptor
    BY <2>3, <2>4, ParseSums
  <2>5. CASE UNCHANGED <<count, regions, total_memory, free_memory>>
    BY <1>1, <1>4, <2>1, <2>2, <2>3, <2>5 DEF Sums, ParsePhases
  <2> QED
    BY <1>5, <2>4, <2>5 DEF MapNext, GetMapSize, AllocatePool, GetMap, ParseDone, mapVars
<1>6. CASE CountRegion
  <2>1. /\ UNCHANGED <<pc, count, regions, total_memory, free_memory, free_pages, used_pages>>
        /\ pc = "pmm_total" /\ total_pages' = total_pages + regions[i].pages /\ i' = i + 1
        /\ i < count
    BY <1>6 DEF CountRegion, mapVars
  <2>2. total_pages' = all[i']
    BY <1>1, <1>3, <2>1 DEF Sums
  <2>3. SumInv'
    BY <1>4, <2>1, <2>2
  <2>4. PhaseInv'
    BY <2>1 DEF PhaseInv, ParsePhases
  <2> QED
    BY <2>3, <2>4
<1>7. CASE TotalDone
  <2>1. /\ UNCHANGED <<count, regions, total_memory, free_memory, total_pages, free_pages,
                       used_pages, p>>
        /\ pc = "pmm_total" /\ pc' = "pmm_push" /\ i = count /\ i' = 0
    BY <1>7 DEF TotalDone, mapVars
  <2>2. total_pages = total_memory /\ free_pages = 0 /\ used_pages = 0 /\ p = 0 /\ conv[0] = 0
    BY <1>1, <2>1 DEF Sums, PhaseInv, CursorInv
  <2>3. SumInv'
    BY <1>4, <2>1, <2>2
  <2>4. PhaseInv'
    BY <2>1, <2>2 DEF PhaseInv, ParsePhases
  <2> QED
    BY <2>3, <2>4
<1>8. CASE PushPage \/ SkipNullPage
  <2>1. /\ UNCHANGED <<pc, count, regions, total_memory, free_memory, total_pages, i>>
        /\ pc = "pmm_push" /\ p' = p + 1
        /\ free_pages' + used_pages' = free_pages + used_pages + 1
    <3>1. /\ UNCHANGED <<pc, mapVars, total_pages, i>> /\ pc = "pmm_push" /\ p' = p + 1
          /\ \/ free_pages' = free_pages + 1 /\ used_pages' = used_pages
             \/ free_pages' = free_pages /\ used_pages' = used_pages + 1
      BY <1>8 DEF PushPage, Push, SkipNullPage, AtPage
    <3>2. free_pages \in Nat /\ used_pages \in Int
      BY <1>2
    <3>3. free_pages' + used_pages' = free_pages + used_pages + 1
      BY <3>1, <3>2
    <3> QED
      BY <3>1, <3>3 DEF mapVars
  <2>2. free_pages' + used_pages' = conv[i'] + p'
    <3>1. free_pages + used_pages = conv[i] + p
      BY <1>1, <2>1 DEF Sums
    <3>2. conv[i'] = conv[i]
      BY <2>1
    <3>3. conv[i] + p + 1 = conv[i] + (p + 1)
      BY <1>2
    <3> QED
      BY <2>1, <3>1, <3>2, <3>3
  <2>3. SumInv'
    BY <1>4, <2>1, <2>2
  <2>4. PhaseInv'
    BY <2>1 DEF PhaseInv, ParsePhases
  <2> QED
    BY <2>3, <2>4
<1>9. CASE NextRegion
  <2>1. /\ UNCHANGED <<pc, count, regions, total_memory, free_memory, total_pages, free_pages,
                       used_pages>>
        /\ pc = "pmm_push" /\ i' = i + 1 /\ p' = 0 /\ i < count
        /\ regions[i].type = EfiConventionalMemory => p = regions[i].pages
    BY <1>9 DEF NextRegion, mapVars
  <2>2. p = ConvPages(i)
    BY <1>2, <2>1 DEF CursorInv, ConvPages
  <2>3. free_pages' + used_pages' = conv[i'] + p'
    BY <1>1, <1>2, <1>3, <2>1, <2>2 DEF Sums
  <2>4. SumInv'
    BY <1>4, <2>1, <2>3
  <2>5. PhaseInv'
    BY <2>1 DEF PhaseInv, ParsePhases
  <2> QED
    BY <2>4, <2>5
<1>10. CASE InitDone
  <2>1. /\ UNCHANGED <<count, regions, total_memory, free_memory, total_pages, free_pages,
                       used_pages, i, p>>
        /\ pc = "pmm_push" /\ pc' = "running" /\ i = count
    BY <1>10 DEF InitDone, mapVars, pmmVars
  <2>2. free_pages + used_pages = free_memory
    BY <1>1, <1>2, <2>1 DEF Sums, CursorInv
  <2>3. SumInv'
    BY <1>4, <2>1
  <2>4. PhaseInv'
    BY <2>1, <2>2 DEF PhaseInv, ParsePhases
  <2> QED
    BY <2>3, <2>4
<1>11. CASE ClientNext
  <2>1. /\ UNCHANGED <<pc, count, regions, total_memory, free_memory, total_pages>>
        /\ pc = "running"
        /\ free_pages' + used_pages' = free_pages + used_pages
    BY <1>2, <1>11 DEF ClientNext, AllocFails, AllocPage, Take, FreePage, GiveBack, Push,
                       ClientWrite, mapVars, pmmVars
  <2>2. SumInv'
    BY <1>4, <2>1
  <2>3. PhaseInv'
    BY <2>1 DEF PhaseInv, ParsePhases
  <2> QED
    BY <2>2, <2>3
<1>12. CASE UNCHANGED vars
  BY <1>1, <1>4, <1>12 DEF vars, mapVars, pmmVars, clientVars, Sums, PhaseInv
<1> QED
  BY <1>5, <1>6, <1>7, <1>8, <1>9, <1>10, <1>11, <1>12 DEF Next, InitNext

\* used_pages counts the null page once per region that starts with it, and
\* goes up and down with the pages that are held.
LEMMA UsedStep ==
    ASSUME IInv, PhaseInv, UsedInv, [Next]_vars
    PROVE  UsedInv'
<1> USE DEF IInv
<1>1. /\ count \in Nat /\ i \in Nat /\ p \in Nat /\ used_pages \in Int
      /\ Cardinality(NullRegions(i)) \in Nat
  BY NullRegionsFinite DEF TypeOK
<1>2. ASSUME UNCHANGED <<regions, count>>
      PROVE  /\ \A n \in Nat : NullRegions(n)' = NullRegions(n)
             /\ NullRegions(count)' = NullRegions(count)
  BY <1>2 DEF NullRegions
<1>3. CASE MapNext /\ UNCHANGED <<pmmVars, clientVars>>
  <2>1. pc' \notin {"pmm_push", "running"}
    BY <1>3 DEF MapNext, GetMapSize, AllocatePool, GetMap, ParseDescriptor, ParseDone
  <2> QED
    BY <2>1 DEF UsedInv
<1>4. CASE CountRegion
  BY <1>4 DEF CountRegion, UsedInv
<1>5. CASE TotalDone
  <2>1. pc' = "pmm_push" /\ i' = 0 /\ p' = 0 /\ used_pages' = 0
    BY <1>5 DEF TotalDone, PhaseInv, CursorInv
  <2>2. NullRegions(i)' = {}
    BY <2>1 DEF NullRegions
  <2> QED
    BY <2>1, <2>2, FS_EmptySet DEF UsedInv, NullPassed
<1>6. CASE PushPage \/ SkipNullPage
  <2>1. /\ UNCHANGED <<pc, regions, count, i>> /\ pc = "pmm_push" /\ i < count /\ p' = p + 1
        /\ page_addr = regions[i].base + p
        /\ used_pages' = IF page_addr = NULL THEN used_pages + 1 ELSE used_pages
    BY <1>6 DEF PushPage, SkipNullPage, AtPage, mapVars, page_addr
  <2>2. NullPassed' = IF page_addr = NULL THEN NullPassed + 1 ELSE NullPassed
    <3>1. regions[i].base \in Nat
      BY <2>1, CursorRegion
    <3> QED
      BY <1>1, <2>1, <3>1 DEF NullPassed, NULL
  <2>3. NullRegions(i)' = NullRegions(i)
    BY <2>1 DEF NullRegions
  <2>4. NullPassed \in Nat
    BY DEF NullPassed
  <2> QED
    BY <1>1, <2>1, <2>2, <2>3, <2>4 DEF UsedInv
<1>7. CASE NextRegion
  <2>1. /\ UNCHANGED <<pc, regions, count, used_pages>> /\ pc = "pmm_push" /\ i < count
        /\ i' = i + 1 /\ p' = 0
        /\ regions[i].type = EfiConventionalMemory => p = regions[i].pages
    BY <1>7 DEF NextRegion, mapVars
  <2>2. NullPassed' = 0
    BY <2>1 DEF NullPassed
  <2>3. regions[i] \in Descriptor /\ regions[i].pages \in Nat
    BY <2>1, CursorRegion
  <2>4. NullPassed = IF /\ regions[i].type = EfiConventionalMemory
                        /\ regions[i].base = NULL /\ regions[i].pages > 0 THEN 1 ELSE 0
    BY <1>1, <2>1, <2>3 DEF NullPassed, CursorInv
  <2>5. NullRegions(i)' = NullRegions(i + 1)
    BY <2>1 DEF NullRegions
  <2>6. Cardinality(NullRegions(i + 1)) = Cardinality(NullRegions(i)) + NullPassed
    BY <1>1, <2>3, <2>4, NullRegionsNext
  <2>7. used_pages = Cardinality(NullRegions(i)) + NullPassed
    BY <2>1 DEF UsedInv
  <2> QED
    BY <2>1, <2>2, <2>5, <2>6, <2>7, <1>1 DEF UsedInv
<1>8. CASE InitDone
  <2>1. /\ UNCHANGED <<regions, count, used_pages, held>> /\ pc = "pmm_push"
        /\ pc' = "running" /\ i = count
    BY <1>8 DEF InitDone, mapVars, pmmVars, clientVars
  <2>2. NullPassed = 0
    BY <1>1, <2>1 DEF NullPassed, CursorInv
  <2>3. Held' = {}
    BY <2>1 DEF CursorInv, Held
  <2>4. NullRegions(count)' = NullRegions(i)
    BY <2>1 DEF NullRegions
  <2> QED
    BY <1>1, <2>1, <2>2, <2>3, <2>4, FS_EmptySet DEF UsedInv
<1>9. CASE ClientNext
  <2>1. UNCHANGED <<pc, regions, count>> /\ pc = "running"
    BY <1>9 DEF ClientNext, AllocFails, AllocPage, Take, FreePage, GiveBack, Push,
                ClientWrite, mapVars, pmmVars
  <2>2. NullRegions(count)' = NullRegions(count)
    BY <1>2, <2>1
  <2>3. used_pages = Cardinality(Held) + Cardinality(NullRegions(count))
    BY <2>1 DEF UsedInv
  <2>4. Cardinality(NullRegions(count)) \in Nat /\ Cardinality(Held) \in Nat /\ IsFiniteSet(Held)
    BY <1>1, NullRegionsFinite, HeldFinite
  <2>5. ASSUME NEW c \in Clients, AllocPage(c)
        PROVE  used_pages' = Cardinality(Held') + Cardinality(NullRegions(count))
    <3>1. free_list \notin Held
      BY <2>5, ListHead DEF AllocPage, FreePages
    <3>2. \A d \in Clients : held'[d] = IF d = c THEN held[c] \cup {free_list} ELSE held[d]
      BY <2>5 DEF AllocPage, Take, TypeOK
    <3>3. Held' = Held \cup {free_list}
      BY <3>2 DEF Held
    <3>4. Cardinality(Held') = Cardinality(Held) + 1
      BY <2>4, <3>1, <3>3, FS_AddElement
    <3>5. used_pages' = used_pages + 1
      BY <2>5 DEF AllocPage, Take
    <3> QED
      BY <2>3, <2>4, <3>4, <3>5
  <2>6. ASSUME NEW c \in Clients, NEW page \in Page, FreePage(c, page)
        PROVE  used_pages' = Cardinality(Held') + Cardinality(NullRegions(count))
    <3>1. page \in held[c] /\ page \in Held
      BY <2>6 DEF FreePage, Held
    <3>2. \A d \in Clients : held'[d] = IF d = c THEN held[c] \ {page} ELSE held[d]
      BY <2>6 DEF FreePage, GiveBack, TypeOK
    <3>3. Held' = Held \ {page}
      BY <3>1, <3>2 DEF Held, NoPageShared
    <3>4. Cardinality(Held') = Cardinality(Held) - 1
      BY <2>4, <3>1, <3>3, FS_RemoveElement
    <3>5. used_pages' = used_pages - 1
      BY <2>6 DEF FreePage, GiveBack
    <3> QED
      BY <2>3, <2>4, <3>4, <3>5
  <2>7. used_pages' = Cardinality(Held') + Cardinality(NullRegions(count))
    <3>1. CASE AllocFails \/ \E c \in Clients, page \in Page, w \in Words : ClientWrite(c, page, w)
      BY <2>3, <3>1 DEF AllocFails, ClientWrite, pmmVars, clientVars, Held
    <3> QED
      BY <1>9, <2>5, <2>6, <3>1 DEF ClientNext
  <2> QED
    BY <2>1, <2>2, <2>7 DEF UsedInv
<1>10. CASE UNCHANGED vars
  BY <1>10 DEF vars, mapVars, pmmVars, clientVars, UsedInv, NullRegions, NullPassed, Held
<1> QED
  BY <1>3, <1>4, <1>5, <1>6, <1>7, <1>8, <1>9, <1>10 DEF Next, InitNext

\* Whatever the memory map and however the clients allocate and free, g_pmm's
\* counters add up: used pages are the held ones and the null page, and used and
\* free pages together are what ParseMemoryMap counted as free.
THEOREM CountersAreTrue == Spec => []CountersTrue
<1>1. Init => CounterInv
  <2> SUFFICES ASSUME Init PROVE CounterInv
    OBVIOUS
  <2>1. pc = "get_size" /\ count = 0 /\ total_memory = 0 /\ free_memory = 0
        /\ total_pages = 0 /\ free_pages = 0 /\ used_pages = 0
    BY DEF Init, MapInit
  <2>2. Sums([k \in 0 .. count |-> 0], [k \in 0 .. count |-> 0])
    BY <2>1 DEF Sums
  <2>3. SumInv
    <3>1. [k \in 0 .. count |-> 0] \in [0 .. count -> Nat]
      OBVIOUS
    <3> QED
      BY <2>2, <3>1 DEF SumInv
  <2> QED
    BY <2>1, <2>3 DEF CounterInv, PhaseInv, UsedInv
<1>2. IInv /\ CounterInv /\ [Next]_vars => CounterInv'
  BY SumStep, UsedStep DEF CounterInv
<1>3. CounterInv => CountersTrue
  <2>1. NullRegions(count) = {k \in 0 .. count - 1 : /\ regions[k].type = EfiConventionalMemory
                                                     /\ NULL \in Frames(regions[k])}
    BY DEF NullRegions
  <2> QED
    BY <2>1 DEF CounterInv, PhaseInv, UsedInv, CountersTrue
<1> QED
  BY <1>1, <1>2, <1>3, Invariance, PTL DEF Spec

=============================================================================
