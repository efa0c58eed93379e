--------------------------- MODULE ServerRegistry ---------------------------
(***************************************************************************)
(* The services of a Server (rpc_server.cc): three maps that AddService    *)
(* fills, lookups by name, and the destructor.  Service objects may share  *)
(* a ServiceDescriptor; a MethodDescriptor is a record of its descriptor   *)
(* and its index there.                                                    *)
(*                                                                         *)
(* AddService reports a name that is taken with GOOGLE_LOG(FATAL), which   *)
(* throws (or aborts) before it has changed a map: that is no step here.   *)
(***************************************************************************)
EXTENDS Naming

CONSTANTS
  Service,      \* service objects
  Descriptor,   \* ServiceDescriptors
  Of,           \* GetDescriptor() of each service object
  ServiceName,  \* name() of each descriptor
  MethodNames,  \* name() of each of a descriptor's methods, in order
  NULL

MethodDescriptors == [service : Descriptor, index : Nat \ {0}]

\* Names of descriptors have passed ValidateSymbolName (descriptor.cc:2920).
ASSUME RegistryAssumption ==
  /\ Of \in [Service -> Descriptor]
  /\ ServiceName \in [Descriptor -> Identifier]
  /\ MethodNames \in [Descriptor -> Seq(Identifier)]
  /\ NULL \notin Service \cup MethodDescriptors

VARIABLES
  service_map,            \* names to service objects
  service_ownership_map,  \* names to whether the server owns the object
  service_method_map,     \* full names to MethodDescriptors
  added,                  \* history: what AddService accepted
  alive,                  \* the destructor has not run
  deleted                 \* service objects the destructor deleted

vars == <<service_map, service_ownership_map, service_method_map, added, alive, deleted>>

Names == DOMAIN service_map
FullNames == DOMAIN service_method_map

TypeOK ==
  /\ service_map \in [Names -> Service]
  /\ service_ownership_map \in [Names -> BOOLEAN]
  /\ service_method_map \in [FullNames -> MethodDescriptors]
  /\ added \subseteq [service : Service, ownership : BOOLEAN]
  /\ alive \in BOOLEAN
  /\ deleted \subseteq Service

Empty == [n \in {} |-> NULL]

Init ==
  /\ service_map = Empty
  /\ service_ownership_map = Empty
  /\ service_method_map = Empty
  /\ added = {}
  /\ alive = TRUE
  /\ deleted = {}

\* The map f with f[n] = v.
Put(f, n, v) == [x \in DOMAIN f \cup {n} |-> IF x = n THEN v ELSE f[x]]

GetServiceName(d) == CamelCase(ServiceName[d])

\* Mutant: the service's name is taken as it is.
GetServiceMethodNameRaw(m) ==
  Dotted(ServiceName[m.service], CamelCase(MethodNames[m.service][m.index]))

GetServiceMethodName(m) ==
  Dotted(CamelCase(ServiceName[m.service]), CamelCase(MethodNames[m.service][m.index]))

NamesOf(d) == {GetServiceMethodName([service |-> d, index |-> i]) : i \in DOMAIN MethodNames[d]}

(* The loop over a descriptor's methods: of those that share a name, the   *)
(* last stays in the map.                                                  *)
LastNamed(d, n) ==
  CHOOSE i \in DOMAIN MethodNames[d] :
    /\ GetServiceMethodName([service |-> d, index |-> i]) = n
    /\ \A j \in DOMAIN MethodNames[d] :
         GetServiceMethodName([service |-> d, index |-> j]) = n => j <= i
PutMethods(f, d) == [n \in DOMAIN f \cup NamesOf(d) |->
  IF n \in NamesOf(d) THEN [service |-> d, index |-> LastNamed(d, n)] ELSE f[n]]

\* Mutant: only the same object is refused, not another one of that name.
AddServiceTwice(s, own) ==
  LET d == Of[s] IN
  /\ alive
  /\ \A n \in Names : service_map[n] # s
  /\ service_map' = Put(service_map, GetServiceName(d), s)
  /\ service_ownership_map' = Put(service_ownership_map, GetServiceName(d), own)
  /\ service_method_map' = PutMethods(service_method_map, d)
  /\ added' = added \cup {[service |-> s, ownership |-> own]}
  /\ UNCHANGED <<alive, deleted>>

AddService(s, own) ==
  LET d == Of[s] IN
  /\ alive
  /\ GetServiceName(d) \notin Names
  /\ service_map' = Put(service_map, GetServiceName(d), s)
  /\ service_ownership_map' = Put(service_ownership_map, GetServiceName(d), own)
  /\ service_method_map' = PutMethods(service_method_map, d)
  /\ added' = added \cup {[service |-> s, ownership |-> own]}
  /\ UNCHANGED <<alive, deleted>>

DestroyServer ==
  /\ alive
  /\ alive' = FALSE
  /\ deleted' = {service_map[n] : n \in {x \in Names : service_ownership_map[x]}}
  /\ UNCHANGED <<service_map, service_ownership_map, service_method_map, added>>

Next ==
  \/ \E s \in Service, own \in BOOLEAN : AddService(s, own)
  \/ DestroyServer

Spec == Init /\ [][Next]_vars

-----------------------------------------------------------------------------
(* Lookups, by the name of a RequestHeader.                                *)

FindMethodDescriptor(method) ==
  IF CamelCase(method) \in FullNames THEN service_method_map[CamelCase(method)] ELSE NULL

\* The private findService, of a method's descriptor.
ServiceOf(m) ==
  IF GetServiceName(m.service) \in Names THEN service_map[GetServiceName(m.service)] ELSE NULL

FindService(method) ==
  IF FindMethodDescriptor(method) = NULL THEN NULL ELSE ServiceOf(FindMethodDescriptor(method))

-----------------------------------------------------------------------------
(* Whatever name a request carries, the service ProcessOneCall finds for   *)
(* it is one whose descriptor has the method found: a service is never     *)
(* called with a method of another (rpc_service.h, preconditions of        *)
(* CallMethod: "method->service() == GetDescriptor()").                    *)
DispatchOwn ==
  \A n \in FullNames :
    LET m == service_method_map[n] IN
    GetServiceName(m.service) \in Names /\ Of[ServiceOf(m)] = m.service

Spelled(m) == Dotted(ServiceName[m.service], MethodNames[m.service][m.index])

(* What CamelCase does to the names in use, which are .proto identifiers:  *)
(* it leaves the names it made as they are, makes the same of the names as *)
(* they are spelled, and, as no identifier has a dot, no two services it   *)
(* tells apart come to share a method's name.                              *)
NamesFit ==
  \A d \in Descriptor : \A i \in DOMAIN MethodNames[d] :
    LET m == [service |-> d, index |-> i]  full == GetServiceMethodName(m) IN
    /\ CamelCase(full) = full
    /\ MethodNames[d][i][1] # "_" => CamelCase(Spelled(m)) = full
    /\ \A e \in Descriptor : full \in NamesOf(e) => GetServiceName(e) = GetServiceName(d)

(* A client that calls a method of a service added, by its descriptor or   *)
(* by its names as they stand in the .proto file, gets to that service and *)
(* to a method of that name; only one whose name is the same after         *)
(* CamelCase can stand in for it.  A method name that begins with an       *)
(* underscore must come from the descriptor: behind a dot the underscore   *)
(* does not become X.                                                      *)
CallsArrive ==
  \A a \in added : \A i \in DOMAIN MethodNames[Of[a.service]] :
    LET m == [service |-> Of[a.service], index |-> i] IN
    \A n \in {GetServiceMethodName(m)} \cup
              IF MethodNames[m.service][i][1] = "_" THEN {} ELSE {Spelled(m)} :
      /\ FindService(n) = a.service
      /\ GetServiceMethodName(FindMethodDescriptor(n)) = GetServiceMethodName(m)

(* The destructor deletes the services the server was given, all of them   *)
(* and no other, though other objects of the same name were refused.       *)
DeletesItsOwn ==
  ~alive => deleted = {a.service : a \in {b \in added : b.ownership}}

(* The inductive invariant of the proofs: the three maps tell of the same  *)
(* services, which are those added.                                        *)
IInv ==
  /\ TypeOK
  /\ DOMAIN service_ownership_map = Names
  /\ \A n \in Names : n = GetServiceName(Of[service_map[n]])
  /\ DispatchOwn
  /\ added = {[service |-> service_map[n], ownership |-> service_ownership_map[n]] : n \in Names}
  /\ DeletesItsOwn
=============================================================================
