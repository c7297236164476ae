------------------------------- MODULE Schema -------------------------------
(***************************************************************************)
(* The PostgreSQL schema as database/schemas/drizzle.ts declares it: the   *)
(* foreign keys of the tables, and the relations queries load rows along.  *)
(* Tables without either (event_store, outbox_events, and permissions as a *)
(* child) have no key here.                                                *)
(*                                                                         *)
(* A row is <<table, id>>; of its columns only the references are kept.    *)
(* What a statement may do is PostgreSQL's: an insert needs its parents, a *)
(* delete takes the rows that cascade with it and is refused while any     *)
(* other row refers to what it removes.                                    *)
(***************************************************************************)
EXTENDS Naturals, FiniteSets

CONSTANTS
    Tables,    \* the tables of an instance
    MaxRows,   \* bound on the rows of all tables
    MaxEach    \* bound on the rows of one table

VARIABLES
    rows,   \* the rows there are
    refs    \* references between them: <<row, column, row>>

schemaVars == <<rows, refs>>

-----------------------------------------------------------------------------
(* Foreign keys: <<table, column, referenced table, rule>>.  "notNull" and *)
(* "null" refuse the delete of the parent; "cascade" (never null) follows. *)

\* tenants, locations, lanes, stores, kiosks
StoreKeys ==
    { <<"locations", "tenantId", "tenants", "notNull">>,
      <<"lanes", "locationId", "locations", "notNull">>,
      <<"stores", "tenantId", "tenants", "null">>,
      <<"stores", "locationId", "locations", "null">>,
      <<"kiosks", "storeId", "stores", "notNull">>,
      <<"kiosks", "laneId", "lanes", "null">>,
      <<"kiosks", "tenantId", "tenants", "null">> }

\* categories, items, modifiers
MenuKeys ==
    { <<"categories", "storeId", "stores", "notNull">>,
      <<"categories", "parentId", "categories", "null">>,
      <<"items", "storeId", "stores", "notNull">>,
      <<"items", "categoryId", "categories", "notNull">>,
      <<"modifierGroups", "storeId", "stores", "notNull">>,
      <<"modifierOptions", "modifierGroupId", "modifierGroups", "notNull">>,
      <<"itemModifierGroups", "itemId", "items", "notNull">>,
      <<"itemModifierGroups", "modifierGroupId", "modifierGroups", "notNull">> }

\* inventory, its transactions and reservations
StockKeys ==
    { <<"inventory", "storeId", "stores", "notNull">>,
      <<"inventory", "itemId", "items", "notNull">>,
      <<"inventoryTransactions", "storeId", "stores", "notNull">>,
      <<"inventoryTransactions", "itemId", "items", "notNull">>,
      <<"inventoryTransactions", "kioskId", "kiosks", "null">>,
      <<"inventoryTransactions", "employeeId", "employees", "null">>,
      <<"inventoryReservations", "storeId", "stores", "notNull">>,
      <<"inventoryReservations", "kioskId", "kiosks", "notNull">>,
      <<"inventoryReservations", "itemId", "items", "notNull">>,
      <<"inventoryReservations", "cartId", "carts", "notNull">> }

CartKeys ==
    { <<"carts", "storeId", "stores", "notNull">>,
      <<"carts", "kioskId", "kiosks", "notNull">>,
      <<"cartLines", "cartId", "carts", "cascade">>,
      <<"cartLines", "menuItemId", "items", "notNull">> }

\* Mutant: orders follow their cart, and lines their order.
OrderKeysCascade ==
    { <<"orders", "storeId", "stores", "notNull">>,
      <<"orders", "kioskId", "kiosks", "notNull">>,
      <<"orders", "cartId", "carts", "cascade">>,
      <<"orderItems", "orderId", "orders", "cascade">>,
      <<"orderItems", "itemId", "items", "notNull">> }

OrderKeys ==
    { <<"orders", "storeId", "stores", "notNull">>,
      <<"orders", "kioskId", "kiosks", "notNull">>,
      <<"orders", "cartId", "carts", "notNull">>,
      <<"orderItems", "orderId", "orders", "notNull">>,
      <<"orderItems", "itemId", "items", "notNull">> }

\* payments, refunds, offline tokens (whose cartId refers to nothing)
PaymentKeys ==
    { <<"payments", "orderId", "orders", "notNull">>,
      <<"payments", "kioskId", "kiosks", "notNull">>,
      <<"refunds", "paymentId", "payments", "notNull">>,
      <<"refunds", "orderId", "orders", "notNull">>,
      <<"refunds", "kioskId", "kiosks", "notNull">>,
      <<"refunds", "processedBy", "employees", "null">>,
      <<"offlineTokens", "storeId", "stores", "notNull">>,
      <<"offlineTokens", "kioskId", "kiosks", "notNull">> }

\* employees, roles, permissions, users
PeopleKeys ==
    { <<"employees", "storeId", "stores", "notNull">>,
      <<"roles", "tenantId", "tenants", "notNull">>,
      <<"rolePermissions", "roleId", "roles", "cascade">>,
      <<"rolePermissions", "permissionId", "permissions", "cascade">>,
      <<"users", "tenantId", "tenants", "notNull">>,
      <<"users", "roleId", "roles", "notNull">> }

\* audit, event and analytics logs
LogKeys ==
    { <<"auditLogs", "storeId", "stores", "notNull">>,
      <<"auditLogs", "tenantId", "tenants", "null">>,
      <<"auditLogs", "laneId", "lanes", "null">>,
      <<"auditLogs", "kioskId", "kiosks", "null">>,
      <<"auditLogs", "employeeId", "employees", "null">>,
      <<"auditLogs", "userId", "users", "null">>,
      <<"syncEvents", "storeId", "stores", "notNull">>,
      <<"syncEvents", "kioskId", "kiosks", "notNull">>,
      <<"analyticsEvents", "storeId", "stores", "notNull">>,
      <<"analyticsEvents", "kioskId", "kiosks", "null">>,
      <<"analyticsEvents", "itemId", "items", "null">>,
      <<"analyticsEvents", "categoryId", "categories", "null">> }

AllKeys == UNION { StoreKeys, MenuKeys, StockKeys, CartKeys, OrderKeys,
                   PaymentKeys, PeopleKeys, LogKeys }

Keys == { k \in AllKeys : k[1] \in Tables /\ k[3] \in Tables }

-----------------------------------------------------------------------------
(* relations(): <<table, column of `fields`, table loaded>>.  `many` is    *)
(* the inverse of a `one`, matched by its table.                           *)

\* tenants .. inventory
StoreRelations ==
    { <<"locations", "tenantId", "tenants">>, <<"lanes", "locationId", "locations">>,
      <<"stores", "tenantId", "tenants">>, <<"stores", "locationId", "locations">>,
      <<"kiosks", "storeId", "stores">>, <<"kiosks", "laneId", "lanes">>,
      <<"kiosks", "tenantId", "tenants">>,
      <<"categories", "storeId", "stores">>, <<"categories", "parentId", "categories">>,
      <<"items", "storeId", "stores">>, <<"items", "categoryId", "categories">>,
      <<"modifierGroups", "storeId", "stores">>,
      <<"modifierOptions", "modifierGroupId", "modifierGroups">>,
      <<"itemModifierGroups", "itemId", "items">>,
      <<"itemModifierGroups", "modifierGroupId", "modifierGroups">>,
      <<"inventory", "storeId", "stores">>, <<"inventory", "itemId", "items">> }

\* inventoryTransactions .. offlineTokens
SaleRelations ==
    { <<"inventoryTransactions", "storeId", "stores">>,
      <<"inventoryTransactions", "itemId", "items">>,
      <<"inventoryTransactions", "kioskId", "kiosks">>,
      <<"inventoryTransactions", "employeeId", "employees">>,
      <<"inventoryReservations", "storeId", "stores">>,
      <<"inventoryReservations", "kioskId", "kiosks">>,
      <<"inventoryReservations", "itemId", "items">>,
      <<"inventoryReservations", "cartId", "carts">>,
      <<"carts", "storeId", "stores">>, <<"carts", "kioskId", "kiosks">>,
      <<"cartLines", "cartId", "carts">>, <<"cartLines", "menuItemId", "items">>,
      <<"orders", "storeId", "stores">>, <<"orders", "kioskId", "kiosks">>,
      <<"orders", "cartId", "carts">>,
      <<"orderItems", "orderId", "orders">>, <<"orderItems", "itemId", "items">>,
      <<"payments", "orderId", "orders">>, <<"payments", "kioskId", "kiosks">>,
      <<"refunds", "paymentId", "payments">>, <<"refunds", "orderId", "orders">>,
      <<"refunds", "kioskId", "kiosks">>, <<"refunds", "processedBy", "employees">>,
      <<"offlineTokens", "storeId", "stores">>, <<"offlineTokens", "kioskId", "kiosks">> }

\* employees .. analyticsEvents
PeopleRelations ==
    { <<"employees", "storeId", "stores">>, <<"roles", "tenantId", "tenants">>,
      <<"rolePermissions", "roleId", "roles">>,
      <<"rolePermissions", "permissionId", "permissions">>,
      <<"users", "tenantId", "tenants">>, <<"users", "roleId", "roles">>,
      <<"auditLogs", "storeId", "stores">>, <<"auditLogs", "tenantId", "tenants">>,
      <<"auditLogs", "laneId", "lanes">>, <<"auditLogs", "kioskId", "kiosks">>,
      <<"auditLogs", "employeeId", "employees">>, <<"auditLogs", "userId", "users">>,
      <<"syncEvents", "storeId", "stores">>, <<"syncEvents", "kioskId", "kiosks">>,
      <<"analyticsEvents", "storeId", "stores">>, <<"analyticsEvents", "kioskId", "kiosks">>,
      <<"analyticsEvents", "itemId", "items">>,
      <<"analyticsEvents", "categoryId", "categories">> }

Relations ==
    { r \in StoreRelations \union SaleRelations \union PeopleRelations :
         r[1] \in Tables /\ r[3] \in Tables }

\* The parents of the tables of an instance are in it.
ASSUME SchemaConstants ==
    /\ MaxRows \in Nat /\ MaxEach \in Nat
    /\ \A k \in AllKeys : k[1] \in Tables /\ k[4] # "null" => k[3] \in Tables

-----------------------------------------------------------------------------
(* Statements.                                                             *)

SchemaInit == rows = {} /\ refs = {}

RowsOf(t) == { r \in rows : r[1] = t }

\* The columns of a table that hold a row of the instance.
Columns(t) == { r \in Relations : r[1] = t }

Nullable(col) == <<col[1], col[2], col[3], "null">> \in Keys

\* Primary keys and unique constraints that are made of references.
Unique == { "inventory", "itemModifierGroups", "rolePermissions" }

RefsOf(r) == { <<e[2], e[3]>> : e \in { x \in refs : x[1] = r } }

insert(t) ==
    LET row == <<t, CHOOSE i \in 1..MaxEach : <<t, i>> \notin rows>> IN
    /\ Cardinality(rows) < MaxRows
    /\ Cardinality(RowsOf(t)) < MaxEach
    /\ \E nulls \in SUBSET { c \in Columns(t) : Nullable(c) } :
       \E value \in [Columns(t) \ nulls -> rows] :
          /\ \A c \in DOMAIN value : value[c][1] = c[3]
          /\ t \in Unique =>
               \A r \in RowsOf(t) : RefsOf(r) # { <<c[2], value[c]>> : c \in DOMAIN value }
          /\ refs' = refs \union { <<row, c[2], value[c]>> : c \in DOMAIN value }
    /\ rows' = rows \union {row}

KeyOf(e) == { k \in Keys : k[1] = e[1][1] /\ k[2] = e[2] }

\* ON DELETE CASCADE, transitively.
Cascade(row) ==
    LET more(gone) == gone \union { e[1] : e \in { x \in refs :
                         x[3] \in gone /\ \E k \in KeyOf(x) : k[4] = "cascade" } }
        closure[n \in 0..MaxRows] == IF n = 0 THEN {row} ELSE more(closure[n - 1])
    IN  closure[MaxRows]

\* A key that does not cascade refuses the statement.
deleteRow(row) ==
    LET gone == Cascade(row) IN
    /\ \A e \in refs : e[3] \in gone /\ KeyOf(e) # {} => e[1] \in gone
    /\ rows' = rows \ gone
    /\ refs' = { e \in refs : e[1] \notin gone }

SchemaNext ==
    \/ \E t \in Tables : insert(t)
    \/ \E row \in rows : deleteRow(row)

SchemaSpec == SchemaInit /\ [][SchemaNext]_schemaVars

-----------------------------------------------------------------------------
(* Properties *)

Ledger == { "orders", "orderItems", "payments", "refunds", "auditLogs",
            "inventoryTransactions" }

\* No delete of a cart, a kiosk, an employee or a store takes a row of the
\* sales ledger with it: only a statement that names such a row removes it.
LedgerSurvives ==
    [][ \A r \in rows \ rows' : r[1] \in Ledger => rows \ rows' = {r} ]_schemaVars
=============================================================================
