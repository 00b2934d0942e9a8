----------------------------- MODULE MediaLibrary -----------------------------
(***************************************************************************)
(* packages/media: the storage port with its tenant-scoped keys, the plan  *)
(* of an image's responsive variants, and the view of an owner's media.    *)
(* A key is the tenant it lies under and a name; bytes are who wrote them. *)
(***************************************************************************)
EXTENDS Sorting

CONSTANTS MediaTenants,
          AssetNames,
          Breakpoints,     \* target widths by purpose
          Sides            \* widths and heights of the images explored

Absent == "absent"

\* There is no image without a side.
ASSUME MediaAssumption ==
  /\ IsFiniteSet(DOMAIN Breakpoints)
  /\ \A p \in DOMAIN Breakpoints : Breakpoints[p] \in Nat \ {0}
  /\ Sides \subseteq Nat \ {0}
  /\ Absent \notin AssetNames

VARIABLES stored,          \* objects by key: who wrote them
          got,             \* the last read: who asked, and what she was given
          assets,          \* the asset rows, with their size
          attachments      \* what hangs at one owner, in the order of its rows
mediating == <<stored, got, assets, attachments>>

ObjectKeys == MediaTenants \X AssetNames
Media == [asset : AssetNames, role : {"cover", "gallery"}, order : 0..1]

MediaInit ==
  /\ stored = [k \in ObjectKeys |-> Absent]
  /\ got = [by |-> Absent, of |-> Absent]
  /\ assets = [a \in {} |-> <<0, 0>>]
  /\ attachments = <<>>

\* assertTenantKey, which every method starts with.
IsTenantKey(t, key) == key[1] = t
AssertTenantKey(t, key) == IsTenantKey(t, key)

PutObject(t, key) ==
  /\ AssertTenantKey(t, key)
  /\ stored' = [stored EXCEPT ![key] = t]
  /\ UNCHANGED <<got, assets, attachments>>
GetObject(t, key) ==
  /\ AssertTenantKey(t, key)
  /\ got' = [by |-> t, of |-> stored[key]]
  /\ UNCHANGED <<stored, assets, attachments>>
DeleteObject(t, key) ==
  /\ AssertTenantKey(t, key) /\ stored[key] = t
  /\ stored' = [stored EXCEPT ![key] = Absent]
  /\ UNCHANGED <<got, assets, attachments>>
\* The rows around the store, in a database of the host's.
AddAsset(a, w, h) ==
  /\ a \notin DOMAIN assets
  /\ assets' = [b \in DOMAIN assets \cup {a} |-> IF b = a THEN <<w, h>> ELSE assets[b]]
  /\ UNCHANGED <<stored, got, attachments>>
Attach(m) ==
  /\ Len(attachments) < 2 /\ m.asset \in DOMAIN assets
  /\ attachments' = Append(attachments, m)
  /\ UNCHANGED <<stored, got, assets>>
DropAsset(a) ==
  /\ a \in DOMAIN assets
  /\ assets' = [b \in DOMAIN assets \ {a} |-> assets[b]]
  /\ UNCHANGED <<stored, got, attachments>>

MediaNext ==
  \/ \E t \in MediaTenants, key \in ObjectKeys : PutObject(t, key) \/ GetObject(t, key) \/ DeleteObject(t, key)
  \/ \E a \in AssetNames : (\E w, h \in Sides : AddAsset(a, w, h)) \/ DropAsset(a)
  \/ \E m \in Media : Attach(m)

MediaSpec == MediaInit /\ [][MediaNext]_mediating

\* planVariants: never wider than the original, its height to the nearest pixel,
\* the narrowest first and equal widths by their breakpoint.
Mutant_Upscales(target, width) == target
ClampWidth(target, width) == IF target < width THEN target ELSE width
ScaledHeight(w, width, height) == (2 * w * height + width) \div (2 * width)
Variant(p, size) ==
  LET w == ClampWidth(Breakpoints[p], size[1])
  IN [purpose |-> p, width |-> w, height |-> ScaledHeight(w, size[1], size[2])]
PlanVariants(size) ==
  LET variants == {Variant(p, size) : p \in DOMAIN Breakpoints}
      Ascending(v, w) ==
        \/ v.width < w.width
        \/ v.width = w.width /\ Breakpoints[v.purpose] <= Breakpoints[w.purpose]
  IN SortedBy({p \in variants \X variants : Ascending(p[1], p[2])}, variants)

\* orderGallery, coverImage and buildServiceMediaView: rows of equal order keep
\* the order of their ids, which is the order they were attached in.
OrderGallery ==
  LET rows == DOMAIN attachments
      Earlier(i, j) ==
        \/ attachments[i].order < attachments[j].order
        \/ attachments[i].order = attachments[j].order /\ i <= j
  IN SortedBy({p \in rows \X rows : Earlier(p[1], p[2])}, rows)
OfRole(role) == Filtered(OrderGallery, {i \in DOMAIN attachments : attachments[i].role = role})
CoverImage ==
  LET first == OfRole("cover") \o OfRole("gallery")
      asset == attachments[Head(first)].asset
  IN IF first = <<>> \/ asset \notin DOMAIN assets THEN Absent ELSE asset
Gallery ==
  LET kept == {i \in DOMAIN attachments : attachments[i].asset \in DOMAIN assets}
      shown == Filtered(OfRole("gallery"), kept)
  IN [i \in DOMAIN shown |-> attachments[shown[i]].asset]
-----------------------------------------------------------------------------
\* A tenant is given only bytes she wrote, and what lies under her prefix is hers.
OwnMediaOnly ==
  /\ got.of \in {Absent, got.by}
  /\ \A key \in ObjectKeys : stored[key] \in {Absent, key[1]}

Gap(a, b) == IF a < b THEN b - a ELSE a - b
\* The plan serves every layout: of any width asked for, the first variant that
\* fills it is the smallest there is, none is empty or larger than the original in
\* either direction, and each keeps the original's ratio to half a pixel.
PlanServes ==
  \A a \in DOMAIN assets :
    LET size == assets[a]
        plan == PlanVariants(size)
    IN /\ Len(plan) = Cardinality(DOMAIN Breakpoints)
       /\ \A i \in DOMAIN plan :
            /\ plan[i].width <= size[1] /\ plan[i].height \in 1 .. size[2]
            /\ 2 * Gap(plan[i].height * size[1], plan[i].width * size[2]) <= size[1]
            /\ \A j \in DOMAIN plan : i < j => plan[i].width <= plan[j].width

\* A card shows nothing that was dropped, and when it has a gallery it lacks a
\* cover only if some row lost its asset, as the one chosen for the cover did.
CardIsWhole ==
  /\ {CoverImage} \cup Range(Gallery) \subseteq {Absent} \cup DOMAIN assets
  /\ Gallery # <<>> /\ CoverImage = Absent =>
       \E i \in DOMAIN attachments : attachments[i].asset \notin DOMAIN assets

\* ObjectKeys, variants and cards: each tenant's own, never wider than the original,
\* and whole.
MediaIsSound == OwnMediaOnly /\ PlanServes /\ CardIsWhole
=============================================================================
