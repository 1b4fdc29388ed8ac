--------------------------- MODULE ServiceRegistry --------------------------
(***************************************************************************)
(* The services the helper offers (userSpace/service.c): libraries are     *)
(* opened with dlopen, their init_service registers a service, and         *)
(* finit_service unregisters it by name before dlclose.  Names need not be *)
(* different, and a library may be loaded more than once.  The name in an  *)
(* entry lies in its library, so looking at an entry needs it open.        *)
(***************************************************************************)
EXTENDS LinkedLists, FiniteSets

CONSTANTS
  Libraries,   \* the files that kh_load_all_services may find
  Name,        \* the name of the service each one registers
  HasInit,     \* those that have init_service
  HasFinit,    \* those that have finit_service
  Items,       \* memory for struct _kgpu_sitem; malloc fails when it is used up
  NULL         \* no entry; for list_for_each_safe, the head of the list

ASSUME RegistryAssumption ==
  /\ HasInit \subseteq Libraries /\ HasFinit \subseteq Libraries
  /\ IsFiniteSet(Items) /\ NULL \notin Items

VARIABLES
  services,   \* the list of entries
  lib,        \* of each entry: the library, for libhandle and s
  opens,      \* how often each library is open
  call,       \* the call in progress
  todo,       \* kh_load_all_services: the files of gl_pathv still to load
  p, n,       \* kh_unload_all_services: the entry, and the saved next one
  e,          \* either: the errors counted so far
  wild        \* an entry that has been freed is used

registry == <<services, lib, opens>>
rvars    == <<registry, call, todo, p, n, e, wild>>

RegistryInit ==
  /\ services = <<>>
  /\ lib = [i \in Items |-> CHOOSE l \in Libraries : TRUE]
  /\ opens = [l \in Libraries |-> 0]
  /\ call = "none" /\ todo = {} /\ e = 0
  /\ p = NULL /\ n = NULL /\ wild = FALSE

-----------------------------------------------------------------------------
\* The positions of the entries with this name.
Matches(name) == { k \in DOMAIN services : Name[lib[services[k]]] = name }

\* Faulty variant: the last entry with the name.
lookup_kgpu_sitem_Last(name) ==
  LET K == Matches(name) IN
  IF K = {} THEN NULL ELSE services[CHOOSE k \in K : \A j \in K : j <= k]

\* The first entry with the name.
lookup_kgpu_sitem(name) ==
  LET K == Matches(name) IN
  IF K = {} THEN NULL ELSE services[CHOOSE k \in K : \A j \in K : k <= j]

\* kh_register_service, which init_service of library l calls.
kh_register_service(l) ==
  \E i \in Items \ Range(services) :
    /\ services' = Append(services, i)
    /\ lib' = [lib EXCEPT ![i] = l]

\* __unregister_service: what it leaves of the list, and what it returns.
unregister_service(i) == IF i = NULL THEN services ELSE list_del(services, i)
unregister_result(i)  == IF i = NULL THEN 1 ELSE 0

\* kh_load_service returns 0: the service of l is registered.
kh_load_service(l) ==
  /\ l \in HasInit
  /\ kh_register_service(l)
  /\ opens' = [opens EXCEPT ![l] = @ + 1]
  /\ UNCHANGED e

\* Faulty variant: the library stays open when init_service fails.
load_fails_NoClose(l) ==
  /\ opens' = [opens EXCEPT ![l] = @ + 1]
  /\ UNCHANGED <<services, lib>>
  /\ e' = e + 1

\* kh_load_service returns 1: dlopen fails, the library has no init_service, or
\* that finds no memory to register; a library that was opened is closed.
load_fails(l) ==
  /\ UNCHANGED registry
  /\ e' = e + 1

\* __unload_service, for an entry i.  finit_service unregisters by name; a
\* library without it has its entry taken out.  dlclose follows in any case.
unload_service(i) ==
  LET gone == IF lib[i] \in HasFinit THEN lookup_kgpu_sitem(Name[lib[i]]) ELSE i IN
  /\ services' = unregister_service(gone)
  /\ opens' = [opens EXCEPT ![lib[i]] = @ - 1]
  /\ e' = e + unregister_result(gone)
  /\ UNCHANGED lib

-----------------------------------------------------------------------------
\* kh_load_all_services: glob finds some of the libraries.
kh_load_all_services ==
  /\ call = "none"
  /\ call' = "load_all"
  /\ todo' \in SUBSET Libraries
  /\ e' = 0
  /\ UNCHANGED <<registry, p, n, wild>>

load_next ==
  /\ call = "load_all"
  /\ \E l \in todo : /\ kh_load_service(l) \/ load_fails(l)
                     /\ todo' = todo \ {l}
  /\ UNCHANGED <<call, p, n, wild>>

load_end ==
  /\ call = "load_all" /\ todo = {}
  /\ call' = "none"
  /\ UNCHANGED <<registry, todo, p, n, e, wild>>

\* kh_unload_service(name).
kh_unload_service(name) ==
  LET i == lookup_kgpu_sitem(name) IN
  /\ call = "none"
  /\ i # NULL
  /\ unload_service(i)
  /\ UNCHANGED <<call, todo, p, n, wild>>

\* The entry after i in list s, where NULL is the head.
NextOf(s, i) ==
  LET k == IF i = NULL THEN 0 ELSE CHOOSE j \in DOMAIN s : s[j] = i IN
  IF k = Len(s) THEN NULL ELSE s[k + 1]

\* kh_unload_all_services, the start of list_for_each_safe: with an empty list
\* pos and n are both the head.
kh_unload_all_services ==
  /\ call = "none"
  /\ call' = "unload_all"
  /\ p' = NextOf(services, NULL)
  /\ n' = IF services = <<>> THEN NULL ELSE NextOf(services, p')
  /\ e' = 0
  /\ UNCHANGED <<registry, todo, wild>>

\* Its body, and the step to the saved next entry, whose own next is read.
unload_next ==
  /\ call = "unload_all" /\ p # NULL /\ ~wild
  /\ unload_service(p)
  /\ p' = n
  /\ IF n = NULL \/ n \in Range(services')
     THEN n' = NextOf(services', n) /\ UNCHANGED wild
     ELSE wild' = TRUE /\ UNCHANGED n
  /\ UNCHANGED <<call, todo>>

unload_end ==
  /\ call = "unload_all" /\ p = NULL
  /\ call' = "none"
  /\ UNCHANGED <<registry, todo, p, n, e, wild>>

RegistryNext ==
  \/ kh_load_all_services \/ load_next \/ load_end
  \/ \E l \in Libraries : kh_unload_service(Name[l])
  \/ kh_unload_all_services \/ unload_next \/ unload_end

RegistrySpec == RegistryInit /\ [][RegistryNext]_rvars

-----------------------------------------------------------------------------
\* Every library is open exactly as often as the list has entries for it: no
\* failing load or unload leaves one open, and lookup_kgpu_sitem, which reads
\* names inside the libraries, finds the library of every entry open, however
\* names and libraries are repeated and in whatever order they are unloaded.
OpenAsOftenAsRegistered ==
  \A l \in Libraries :
    opens[l] = Cardinality({ i \in Range(services) : lib[i] = l })

\* kh_unload_all_services never follows its saved next pointer to an entry
\* that finit_service of the current library has freed, and when it is through
\* nothing is registered, nothing is open and it reports no error.
UnloadAllEmpties ==
  /\ ~wild
  /\ call = "unload_all" /\ p = NULL =>
       services = <<>> /\ e = 0 /\ \A l \in Libraries : opens[l] = 0

=============================================================================
