----------------------------- MODULE MC_Records ------------------------------
(* Model-checking instance of Records. *)
EXTENDS Records, TLC

CONSTANTS partner, newPartner, address, newAddress, contact, counterparty,
          interaction, product, newProduct, variant, attribute, channel, newChannel,
          mapping, book, report, config1, config2, config3, menu, newMenu, entry,
          bom, customs, event, check, newCheck, order, purchase, item1, item2, node,
          tenant, user, features, properties, q1, q2, v, w, x, d

TwoRequests == {q1, q2}
Some == {partner, address, product, channel, config1, config3, check, order,
         purchase, item1, item2, node, tenant, user, features, properties}
Shared == {partner, address, product, config1, config3, menu, order, item1, user,
           features}
Below == [r \in Parts |-> CASE r = variant -> product
                            [] r = mapping -> channel
                            [] OTHER -> partner]

(* Two rows in turn for one key, and a row for another. *)
Keys == [r \in Configs |-> IF r = config3 THEN "b" ELSE "a"]

(* Requests are told apart only by their name. *)
RequestSymmetry == Permutations(Requests)
=============================================================================
