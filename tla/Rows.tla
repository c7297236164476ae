-------------------------------- MODULE Rows --------------------------------
(***************************************************************************)
(* The three hand-written descriptions of a row: the PostgreSQL tables of  *)
(* database/schemas/drizzle.ts, the zod schemas and the domain types of    *)
(* packages/shared-types.  A row is built as a domain value or written by  *)
(* another service, checked by its zod schema, stored, and read again      *)
(* through drizzle, which hands some columns back in another JavaScript    *)
(* type than the zod schema asks for.                                      *)
(*                                                                         *)
(* The schemas are a library of the repository's own: only its tests call  *)
(* them today, so the path of a row is the one the file names promise.     *)
(*                                                                         *)
(* Of a row three things are kept: a column that is null, an enum column   *)
(* with its value, and whether some value breaks a length, range, pattern  *)
(* or refine() rule of its zod schema.  What the database checks and zod   *)
(* does not (an inet address, the 32 bits of an integer, unique and        *)
(* foreign keys) may refuse any row, so store chooses.  Columns are        *)
(* checked one by one, so one null and one enum value at a time are        *)
(* enough.  A column that every description makes mandatory is not named.  *)
(***************************************************************************)
VARIABLE row   \* the row under way: where it is and where it came from

NoColumn == "none"

-----------------------------------------------------------------------------
(* Enumerations: pgEnum, z.enum and union types. *)
AuditEvents == { "order_created", "order_paid", "order_refunded", "payment_processed",
                 "inventory_adjusted", "employee_login", "employee_logout",
                 "system_boot", "system_shutdown", "sync_event", "security_event" }

pgEnum ==
    [ plan |-> {"standard", "enterprise"},
      syncStatus |-> {"online", "offline", "degraded", "maintenance"},
      taxCategory |-> {"standard", "exempt", "reduced"},
      weightUnit |-> {"g", "kg", "lb", "oz"},
      cartStatus |-> {"active", "finalized", "abandoned", "expired"},
      orderStatus |-> {"pending", "paid", "fulfilled", "cancelled", "refunded"},
      method |-> {"credit_debit", "nfc_apple_pay", "nfc_google_pay", "qr_code", "cash_recycler"},
      paymentStatus |-> {"pending", "authorized", "captured", "declined", "voided", "refunded"},
      role |-> {"cashier", "supervisor", "manager", "admin"},
      audit |-> AuditEvents,
      transactionType |-> {"sale", "restock", "adjustment", "reserved", "released", "waste", "return"},
      syncEvent |-> {"inventory_update", "cart_merge", "transaction_batch", "analytics_batch"},
      refundStatus |-> {"pending", "completed", "failed"} ]

zodEnum ==
    [ plan |-> {"standard", "enterprise"},
      syncStatus |-> {"online", "offline", "degraded", "maintenance"},
      taxCategory |-> {"standard", "exempt", "reduced"},
      weightUnit |-> {"g", "kg", "lb", "oz"},
      cartStatus |-> {"active", "finalized", "abandoned", "expired"},
      orderStatus |-> {"pending", "paid", "fulfilled", "cancelled", "refunded"},
      method |-> {"credit_debit", "nfc_apple_pay", "nfc_google_pay", "qr_code", "cash_recycler"},
      paymentStatus |-> {"pending", "authorized", "captured", "declined", "voided", "refunded"},
      role |-> {"cashier", "supervisor", "manager", "admin"},
      audit |-> AuditEvents,
      transactionType |-> {"sale", "restock", "adjustment", "reserved", "released", "waste", "return"},
      syncEvent |-> {"inventory_update", "cart_merge", "transaction_batch", "analytics_batch"},
      refundStatus |-> {"pending", "completed", "failed"} ]

\* PaymentStatus has a value the other two have not.
domainEnum ==
    [ plan |-> {"standard", "enterprise"},
      syncStatus |-> {"online", "offline", "degraded", "maintenance"},
      taxCategory |-> {"standard", "exempt", "reduced"},
      weightUnit |-> {"g", "kg", "lb", "oz"},
      cartStatus |-> {"active", "finalized", "abandoned", "expired"},
      orderStatus |-> {"pending", "paid", "fulfilled", "cancelled", "refunded"},
      method |-> {"credit_debit", "nfc_apple_pay", "nfc_google_pay", "qr_code", "cash_recycler"},
      paymentStatus |-> {"pending", "authorized", "captured", "queued_offline",
                         "declined", "voided", "refunded"},
      role |-> {"cashier", "supervisor", "manager", "admin"},
      audit |-> AuditEvents,
      transactionType |-> {"sale", "restock", "adjustment", "reserved", "released", "waste", "return"},
      syncEvent |-> {"inventory_update", "cart_merge", "transaction_batch", "analytics_batch"},
      refundStatus |-> {"pending", "completed", "failed"} ]

\* The enumerations a table has columns of.
EnumsOf(t) ==
    CASE t = "tenants" -> {"plan"}
      [] t = "kiosks" -> {"syncStatus"}
      [] t = "items" -> {"taxCategory", "weightUnit"}
      [] t = "inventoryTransactions" -> {"transactionType"}
      [] t = "carts" -> {"cartStatus"}
      [] t = "orders" -> {"orderStatus"}
      [] t = "payments" -> {"method", "paymentStatus"}
      [] t = "refunds" -> {"refundStatus"}
      [] t = "employees" -> {"role"}
      [] t = "auditLogs" -> {"audit"}
      [] t = "syncEvents" -> {"syncEvent"}
      [] OTHER -> {}
-----------------------------------------------------------------------------
(* Columns that may be null.  In the tables: neither notNull() nor a       *)
(* primary key.                                                            *)
pgNullable ==
    [ tenants |-> {"deletedAt"},
      locations |-> {"address", "deletedAt"},
      lanes |-> {"deletedAt"},
      stores |-> {"tenantId", "locationId", "address", "deletedAt"},
      kiosks |-> {"laneId", "tenantId", "ipAddress", "lastSeenAt", "firmwareVersion",
                  "deletedAt"},
      categories |-> {"parentId", "description", "imageUrl", "blurhash", "deletedAt"},
      items |-> {"description", "costCents", "plu", "barcode", "sku", "imageUrl",
                 "blurhash", "weightUnit", "metadata", "deletedAt"},
      modifierGroups |-> {"description", "deletedAt"},
      modifierOptions |-> {"deletedAt"},
      itemModifierGroups |-> {},
      inventory |-> {"location", "lastCountedAt"},
      inventoryTransactions |-> {"referenceId", "referenceType", "kioskId",
                                 "employeeId", "notes"},
      inventoryReservations |-> {},
      carts |-> {"customerPhone"},
      cartLines |-> {},
      orders |-> {"taxBreakdownJson", "metadata", "paidAt", "fulfilledAt", "cancelledAt"},
      orderItems |-> {},
      payments |-> {"verifoneToken", "verifoneAuthCode", "cardBrand", "cardLastFour",
                    "declineReason", "receiptText", "offlineTokenHmac", "syncedAt"},
      refunds |-> {"verifoneReference", "processedBy"},
      offlineTokens |-> {"settledAt", "settlementResult"},
      employees |-> {"biometricHash", "webauthnCredentialId", "webauthnPublicKey",
                     "lastLoginAt", "deletedAt"},
      roles |-> {"description"},
      permissions |-> {"description"},
      rolePermissions |-> {},
      users |-> {"webauthnCredentialId", "webauthnPublicKey", "lastLoginAt", "deletedAt"},
      auditLogs |-> {"tenantId", "laneId", "kioskId", "employeeId", "userId"},
      eventStore |-> {},
      outboxEvents |-> {"publishedAtMs"},
      syncEvents |-> {"processedAt"},
      analyticsEvents |-> {"kioskId", "sessionId", "customerHash", "itemId",
                           "categoryId", "quantity", "amountCents", "durationMs",
                           "metadata"} ]

(* In the zod schemas: nullable(). *)
zodStoreRows ==
    [ tenants |-> {"deletedAt"},
      locations |-> {"address", "deletedAt"},
      lanes |-> {"deletedAt"},
      stores |-> {"tenantId", "locationId", "address", "deletedAt"},
      kiosks |-> {"laneId", "tenantId", "ipAddress", "lastSeenAt", "firmwareVersion",
                  "deletedAt"} ]

zodMenuRows ==
    [ categories |-> {"parentId", "description", "imageUrl", "blurhash", "deletedAt"},
      items |-> {"description", "costCents", "plu", "barcode", "sku", "imageUrl",
                 "blurhash", "weightUnit", "metadata", "deletedAt"},
      modifierGroups |-> {"description", "deletedAt"},
      modifierOptions |-> {"deletedAt"},
      itemModifierGroups |-> {} ]

zodStockRows ==
    [ inventory |-> {"location", "lastCountedAt"},
      inventoryTransactions |-> {"referenceId", "referenceType", "kioskId",
                                 "employeeId", "notes"},
      inventoryReservations |-> {} ]

zodCartRows ==
    [ carts |-> {"customerPhone"},
      cartLines |-> {} ]

zodOrderRows ==
    [ orders |-> {"taxBreakdownJson", "metadata", "paidAt", "fulfilledAt", "cancelledAt"},
      orderItems |-> {} ]

zodPaymentRows ==
    [ payments |-> {"verifoneToken", "verifoneAuthCode", "cardBrand", "cardLastFour",
                    "declineReason", "receiptText", "offlineTokenHmac", "syncedAt"},
      refunds |-> {"verifoneReference", "processedBy"},
      offlineTokens |-> {"settledAt", "settlementResult"} ]

zodPeopleRows ==
    [ employees |-> {"biometricHash", "webauthnCredentialId", "webauthnPublicKey",
                     "lastLoginAt", "deletedAt"},
      roles |-> {"description"},
      permissions |-> {"description"},
      rolePermissions |-> {},
      users |-> {"webauthnCredentialId", "webauthnPublicKey", "lastLoginAt", "deletedAt"} ]

zodLogRows ==
    [ auditLogs |-> {"tenantId", "laneId", "kioskId", "employeeId", "userId"},
      eventStore |-> {},
      outboxEvents |-> {"publishedAtMs"},
      syncEvents |-> {"processedAt"},
      analyticsEvents |-> {"kioskId", "sessionId", "customerHash", "itemId",
                           "categoryId", "quantity", "amountCents", "durationMs",
                           "metadata"} ]

(* In the domain types: a union with null. *)
domainStoreRows ==
    [ tenants |-> {"deletedAt"},
      locations |-> {"address", "deletedAt"},
      lanes |-> {"deletedAt"},
      stores |-> {"tenantId", "locationId", "address", "deletedAt"},
      kiosks |-> {"laneId", "tenantId", "ipAddress", "lastSeenAt", "firmwareVersion",
                  "deletedAt"} ]

domainMenuRows ==
    [ categories |-> {"parentId", "description", "imageUrl", "blurhash", "deletedAt"},
      items |-> {"description", "costCents", "plu", "barcode", "sku", "imageUrl",
                 "blurhash", "weightUnit", "metadata", "deletedAt"},
      modifierGroups |-> {"description", "deletedAt"},
      modifierOptions |-> {"deletedAt"},
      itemModifierGroups |-> {} ]

domainStockRows ==
    [ inventory |-> {"location", "lastCountedAt"},
      inventoryTransactions |-> {"referenceId", "referenceType", "kioskId",
                                 "employeeId", "notes"},
      inventoryReservations |-> {} ]

domainCartRows ==
    [ carts |-> {"customerPhone"},
      cartLines |-> {} ]

domainOrderRows ==
    [ orders |-> {"taxBreakdownJson", "metadata", "paidAt", "fulfilledAt", "cancelledAt"},
      orderItems |-> {} ]

domainPaymentRows ==
    [ payments |-> {"verifoneToken", "verifoneAuthCode", "cardBrand", "cardLastFour",
                    "declineReason", "receiptText", "offlineTokenHmac", "syncedAt"},
      refunds |-> {"verifoneReference", "processedBy"},
      offlineTokens |-> {"settledAt", "settlementResult"} ]

domainPeopleRows ==
    [ employees |-> {"biometricHash", "webauthnCredentialId", "webauthnPublicKey",
                     "lastLoginAt", "deletedAt"},
      roles |-> {"description"},
      permissions |-> {"description"},
      rolePermissions |-> {},
      users |-> {"webauthnCredentialId", "webauthnPublicKey", "lastLoginAt", "deletedAt"} ]

domainLogRows ==
    [ auditLogs |-> {"tenantId", "laneId", "kioskId", "employeeId", "userId"},
      eventStore |-> {},
      outboxEvents |-> {"publishedAtMs"},
      syncEvents |-> {"processedAt"},
      analyticsEvents |-> {"kioskId", "sessionId", "customerHash", "itemId",
                           "categoryId", "quantity", "amountCents", "durationMs",
                           "metadata"} ]

\* The tables of several parts; no table is in two of them.
Together(parts) ==
    [t \in UNION {DOMAIN f : f \in parts} |-> (CHOOSE f \in parts : t \in DOMAIN f)[t]]

zodNullable ==
    Together({ zodStoreRows, zodMenuRows, zodStockRows, zodCartRows, zodOrderRows,
               zodPaymentRows, zodPeopleRows, zodLogRows })

domainNullable ==
    Together({ domainStoreRows, domainMenuRows, domainStockRows, domainCartRows,
               domainOrderRows, domainPaymentRows, domainPeopleRows, domainLogRows })

-----------------------------------------------------------------------------
NoRow == [at |-> "nowhere", table |-> NoColumn, null |-> NoColumn, enum |-> NoColumn,
          value |-> NoColumn, broken |-> FALSE, held |-> FALSE, issues |-> {}]

RowsInit == row = NoRow

\* A row of table t: its null column, and the value of one of its enums.
Row(t, c, e, v, broken, at) ==
    [at |-> at, table |-> t, null |-> c, enum |-> e, value |-> v,
     broken |-> broken, held |-> at = "stored", issues |-> {}]

\* What a description with these nullable columns and enums says of a row.
Complaints(nullable, enums, r) ==
    { i \in {"null", "enum"} :
        \/ i = "null" /\ r.null \notin nullable[r.table] \union {NoColumn}
        \/ i = "enum" /\ r.enum # NoColumn /\ r.value \notin enums[r.enum] }

\* A null and an enum value some description may know of.
SomeRow(nullable, enums, at) ==
    \E t \in DOMAIN nullable :
      \E c \in nullable[t] \union {NoColumn}, broken \in BOOLEAN :
        \/ row' = Row(t, c, NoColumn, NoColumn, broken, at)
        \/ \E e \in EnumsOf(t) : \E v \in enums[e] : row' = Row(t, c, e, v, broken, at)

\* The tables without a timestamp() column, which drizzle reads as a Date,
\* and without a decimal(), which it reads as a string.
Unconverted == {"inventoryReservations", "cartLines", "permissions"}

\* TypeScript code builds a value of the domain type.
build == row.at = "nowhere" /\ SomeRow(domainNullable, domainEnum, "typed")

\* A Go service inserts a row itself; the database checks it.
write == row.at = "nowhere" /\ SomeRow(pgNullable, pgEnum, "stored")

\* safeParse by the row's zod schema, which reports every issue it finds.  A
\* Date is not an ISO string, nor a string a number.
parse ==
    /\ row.at \in {"typed", "loaded"}
    /\ LET found == Complaints(zodNullable, zodEnum, row)
                    \union (IF row.broken THEN {"rule"} ELSE {})
                    \union (IF row.at = "loaded" /\ row.table \notin Unconverted
                            THEN {"type"} ELSE {})
       IN row' = [row EXCEPT !.at = IF found = {} THEN "parsed" ELSE "rejected",
                             !.issues = found]

\* The insert of a parsed row; the compiler has its author turn the ISO
\* strings into the Dates the columns take.  What zod does not know of may
\* make the database refuse it.
store ==
    /\ row.at = "parsed" /\ ~row.held
    /\ \E unfit \in SUBSET {"value"} :
         LET found == Complaints(pgNullable, pgEnum, row) \union unfit
         IN row' = IF found = {}
                   THEN [row EXCEPT !.at = "stored", !.held = TRUE]
                   ELSE [row EXCEPT !.at = "refused", !.issues = found]

\* A select through drizzle; parse sees the converted columns.
load == row.at = "stored" /\ row' = [row EXCEPT !.at = "loaded"]

RowsNext == build \/ write \/ parse \/ store \/ load

RowsSpec == RowsInit /\ [][RowsNext]_row

-----------------------------------------------------------------------------
(* What a comment says, and the code does not do: the enums of the domain  *)
(* types are aligned with the pgEnum values (domain.ts).  A value of a     *)
(* domain type would then always have a place in its table, and the        *)
(* queued_offline of PaymentStatus has none.                               *)
EnumsAreAligned ==
    row.at = "typed" /\ row.enum # NoColumn => row.value \in pgEnum[row.enum]

(* Tables and zod schemas agree on nulls and enum values.  A row that was  *)
(* in the database is rejected on the way back only for a rule of its      *)
(* schema or for a column drizzle converts, never for a null or a status   *)
(* the table allows; a row its schema let through is refused only for its  *)
(* values or keys: a status without a place in the tables, such as         *)
(* queued_offline, is stopped before a failed insert.                      *)
NullsAndEnumsAgree ==
    /\ row.held /\ row.at = "rejected" => row.issues \subseteq {"rule", "type"}
    /\ row.at = "refused" => row.issues = {"value"}
=============================================================================
