----------------------------- MODULE Injection ------------------------------
(***************************************************************************)
(* How an application comes by its init jobs and services: the code that   *)
(* inject! and application! of src/src/dependency_injection.rs expand to,  *)
(* run inside the start-up of Application.                                 *)
(*                                                                         *)
(* From<&App> of an injected type asks the application to provide each of  *)
(* its fields in order.  A provided type gives a value the application has *)
(* already, such as a clone of an Arc; any other type is constructed anew, *)
(* which asks for its own fields first.  The compiler wants a provider for *)
(* every field, but nothing keeps the dependencies from being cyclic.      *)
(***************************************************************************)
EXTENDS Application, FiniteSets, Sequences

CONSTANTS
  Type,         \* types that are constructed or provided
  Fields,       \* the types of the fields of each type, in order
  Provided,     \* the types of application!'s section "provided"
  JobTypes,     \* its section "init"
  ServiceTypes, \* its section "services"
  StackLimit    \* how many constructors fit on the thread's stack

ASSUME InjectionAssumption ==
  /\ Provided \subseteq Type
  /\ Fields \in [Type -> Seq(Type)]
  /\ JobTypes \in Seq(Type) /\ Len(JobTypes) = NumJobs
  /\ ServiceTypes \in Seq(Type) /\ Len(ServiceTypes) = NumServices
  /\ StackLimit \in Nat

VARIABLES
  stack,  \* the constructors that are running, the innermost last
  made,   \* how many instances of each type have been begun
  listed  \* how many entries of the lists of jobs and services have been begun

injVars == <<stack, made, listed>>

\* A constructor of the nth instance of its type has asked for args fields.
Frame == [type : Type, n : Nat, args : Nat]

InjTypeOK ==
  /\ AppTypeOK
  /\ stack \in Seq(Frame)
  /\ made \in [Type -> Nat]
  /\ listed \in 0 .. NumJobs + NumServices

InjInit ==
  /\ AppInit
  /\ stack = <<>>
  /\ made = [t \in Type |-> 0]
  /\ listed = 0

-----------------------------------------------------------------------------
Roots == JobTypes \o ServiceTypes

Innermost == stack[Len(stack)]

\* The innermost constructor asks the application to provide a t.
Asks(t) ==
  /\ stack # <<>>
  /\ Innermost.args < Len(Fields[Innermost.type])
  /\ t = Fields[Innermost.type][Innermost.args + 1]

Asked == [stack EXCEPT ![Len(stack)].args = @ + 1]

\* The constructor of a t is called; frames are those it will return to.
Call(t, frames) ==
  /\ Len(frames) < StackLimit
  /\ made' = [made EXCEPT ![t] = @ + 1]
  /\ stack' = Append(frames, [type |-> t, n |-> made[t] + 1, args |-> 0])

\* init() is called to run its jobs, services() after the last of them.
ConstructRoot ==
  /\ phase = "init"
  /\ stack = <<>>
  /\ listed < IF jobsDone = NumJobs THEN NumJobs + NumServices ELSE NumJobs
  /\ listed' = listed + 1
  /\ Call(Roots[listed + 1], stack)

ProvideClone(t) ==
  /\ Asks(t) /\ t \in Provided
  /\ stack' = Asked
  /\ UNCHANGED <<made, listed>>

ProvideFirst(t) ==
  /\ Asks(t) /\ t \notin Provided
  /\ IF made[t] = 0 THEN Call(t, Asked) ELSE stack' = Asked /\ made' = made
  /\ UNCHANGED listed

ProvideComponent(t) ==
  /\ Asks(t) /\ t \notin Provided
  /\ Call(t, Asked)
  /\ UNCHANGED listed

ProvideAnew(t) ==
  /\ Asks(t)
  /\ Call(t, Asked)
  /\ UNCHANGED listed

\* The provider of a type is chosen among "components" and "provided".
Provide(t) == ProvideClone(t) \/ ProvideComponent(t)

\* All fields have their values, and the instance goes to where it is wanted.
Constructed ==
  /\ stack # <<>>
  /\ Innermost.args = Len(Fields[Innermost.type])
  /\ stack' = SubSeq(stack, 1, Len(stack) - 1)
  /\ UNCHANGED <<made, listed>>

Construct ==
  /\ ConstructRoot \/ Constructed \/ \E t \in Type : Provide(t)
  /\ UNCHANGED appVars

-----------------------------------------------------------------------------
\* The lists are complete before a job of theirs is run or a service registered.
ListsReady ==
  phase = "init" =>
    /\ stack = <<>>
    /\ listed = IF jobsDone = NumJobs THEN NumJobs + NumServices ELSE NumJobs

StartUp ==
  /\ ListsReady
  /\ AppNext
  /\ UNCHANGED injVars

InjNext == Construct \/ StartUp

InjSpec == InjInit /\ [][InjNext]_<<appVars, injVars>>

\* A constructor is ordinary code and does not stop half way.
InjFairSpec ==
  /\ InjSpec
  /\ AppFairness
  /\ WF_<<appVars, injVars>>(Construct)

-----------------------------------------------------------------------------
ListsWith(t) == {i \in 1 .. listed : Roots[i] = t}

\* The fields of type t of all instances, each as type, number and field.
FieldsWith(t) ==
  UNION {{u} \X (1 .. made[u]) \X {f \in DOMAIN Fields[u] : Fields[u][f] = t} : u \in Type}

\* "Any components that are automatically constructed by the framework will be
\* instantiated once for every component that depends on it": whenever no
\* constructor is running there are as many instances of a component as there
\* are jobs, services and fields of instances that want one.
InstancePerDependent ==
  stack = <<>> =>
    \A t \in Type \ Provided :
      made[t] = Cardinality(ListsWith(t)) + Cardinality(FieldsWith(t))

\* Components that depend on each other only through a provided singleton can
\* be constructed: no constructor asks for itself until the stack is exhausted.
ConstructionEnds == stack # <<>> ~> stack = <<>>

=============================================================================
