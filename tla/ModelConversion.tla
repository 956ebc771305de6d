--------------------------- MODULE ModelConversion ---------------------------
(***************************************************************************)
(* The finished graph on its way to a device: the nodes that InnerModel    *)
(* makes, handed to the converter of the device's interface.               *)
(***************************************************************************)
EXTENDS InnerModel, NodeConversion

CONSTANT Lossy  \* pairs <<version of the interface, class of primitives>>

(* Where the conversion reads the wrong class, or does not know the        *)
(* argument yet.                                                           *)
KnownLosses ==
  {<<v, "AddFusion">> : v \in HDIVersions}
    \union {<<"V1_0", "QuantDTypeCast">>, <<"V2_0", "QuantDTypeCast">>}

(* What the setters of a builder may assign.                               *)
Members(b) ==
  SetAlong(b, DOMAIN b.params)
    \union UNION {{r.attribute : r \in b.params[p].readings} : p \in DOMAIN b.params}

Converted(version, class) ==
  class \in DOMAIN convertOpMap[version] /\ <<version, class>> \notin Lossy

(* The device gets the arguments the application gave: a node of the       *)
(* finished graph, converted for any version of the interface that has a   *)
(* converter for it, holds every argument its builder handed to the        *)
(* primitive.                                                              *)
ArgumentsReachTheDevice ==
  \A k \in DOMAIN liteGraph.nodes, v \in HDIVersions :
    LET class == Builders[ops[k].type].primitive
        arguments == liteGraph.nodes[k].arguments
    IN Converted(v, class) =>
         \A m \in DOMAIN arguments : Delivers(v, class, arguments, m)

(* The two tables agree: a converter reads, with an accessor of its own    *)
(* class, each member that the builder of an operation hands on.           *)
EveryMemberIsRead ==
  \A type \in DOMAIN Builders, v \in HDIVersions :
    LET b == Builders[type]
    IN Converted(v, b.primitive) =>
         \A m \in Members(b) \ b.drops :
           \E f \in DOMAIN convertOpMap[v][b.primitive] :
             LET accessor == convertOpMap[v][b.primitive][f]
             IN accessor[1] = b.primitive /\ Member(b.primitive, accessor[2]) = m
=============================================================================
