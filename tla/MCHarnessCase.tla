--------------------------- MODULE MCHarnessCase ----------------------------
(* Three documents of two facets, brand and type; the values of a type     *)
(* contain each other; the name of the third mentions one.  The rules look *)
(* at two documents.  One query names two brands, one contradicts itself.  *)
EXTENDS HarnessCase

CONSTANTS brand, docType, b1, b2, t1, t2, t3, t4, plain, twoBrands, conflicting, exact

MCFacetOrder == <<brand, docType>>
MCContaining == [v \in {b1, b2, t1, t2, t3, t4} |-> IF v = t1 THEN {t1, t2} ELSE {v}]

\* What documents 1, 2 and 3 have: a value that is hidden and needs "other"; more values
\* than are considered; a value past the results looked at.
Listing(b, t) == [d \in Doc |-> [f \in Facet |-> IF f = brand THEN b[d] ELSE t[d]]]
MCCatalogues ==
  {Listing(<<{b1}, {b1, b2}, {b2}>>, <<{t1}, {t2, t3}, {t3}>>),
   Listing(<<{b1}, {b2}, {}>>,       <<{t1, t3}, {t2, t4}, {}>>),
   Listing(<<{b1}, {}, {b2}>>,       <<{t1}, {t2}, {t3}>>)}
MCNamed == <<{}, {}, {t4}>>

Settings(f, p, t, c, e) ==
  [q \in Query |-> [g \in Facet |-> IF g # f THEN {}
                    ELSE CASE q = plain -> p [] q = twoBrands -> t [] q = conflicting -> c
                           [] q = exact -> e]]
MCEntities  == Settings(brand, {}, {b1, b2}, {}, {b1})
MCImplied   == Settings(brand, {}, {}, {}, {b1})
MCHidden    == [q \in Query |-> IF q = exact THEN {t1} ELSE {}]
MCConflicts == [q \in Query |-> IF q = conflicting
                 THEN {[f \in Facet |-> IF f = brand THEN v ELSE NoValue] : v \in {b1, b2}} ELSE {}]
=============================================================================
