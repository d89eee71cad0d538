------------------------------ MODULE Catalogue ------------------------------
(***************************************************************************)
(* The catalogue of one organization and the import of a file into it:     *)
(* apps/api/src/modules/products (products.service.ts,                     *)
(* products-import.service.ts) and apps/web/src/import (ImportWizard.tsx,  *)
(* parseImportFile.ts).  An import validates its rows, reads which SKUs    *)
(* exist and inserts the others in one transaction; products are created   *)
(* and renamed meanwhile, and the wizard may lose the answer.              *)
(***************************************************************************)
EXTENDS Naturals, Sequences, FiniteSets, Selection

CONSTANTS
  Skus,           \* SKUs
  Blank,          \* an empty row of a file
  Bad,            \* a row that validateRow refuses
  Files,          \* files that can be chosen
  Content,        \* the rows of each file
  NoFile,         \* no file parsed
  MaxRows,        \* MAX_IMPORT_ROWS
  ShopCalls,      \* other HTTP calls in progress
  MaxProducts,    \* bound of the catalogue
  MaxImports      \* bound of the imports

ASSUME CatalogueAssumption ==
  /\ Skus # {}
  /\ Blank \notin Skus /\ Bad \notin Skus /\ Blank # Bad
  /\ NoFile \notin Files
  /\ Content \in [Files -> Seq(Skus \cup {Blank, Bad})]
  /\ {MaxRows, MaxProducts, MaxImports} \subseteq Nat

VARIABLES
  products,   \* in the order of their creation
  imports,    \* POST /products/import, in the order of the clicks
  shop,       \* what each other call is doing
  wizard,     \* the state of ImportWizard
  reading     \* the files being parsed

catalogueVars == <<products, imports, shop, wizard, reading>>

-----------------------------------------------------------------------------
(* "from" is the import that created the product, 0 for POST /products,    *)
(* and "line" the line it gives; both only observe.                        *)
CatalogueProduct == [sku: Skus, from: Nat, line: Nat]

Import == [at: {"sent", "insert", "answer"}, file: Files, mapped: BOOLEAN,
           chosen: SUBSET Nat, errors: SUBSET Nat, count: Nat]

ShopCall == [at: {"idle", "create", "update"}, sku: Skus, id: Nat]

NoShopCall == [at |-> "idle", sku |-> CHOOSE s \in Skus : TRUE, id |-> 0]

(* "complete" tells whether every required field has a column, "waiting"   *)
(* is the import in flight.                                                *)
Wizard == [step: {"upload", "mapping", "preview", "result"}, parsed: Files \cup {NoFile},
           complete: BOOLEAN, waiting: Nat]

FreshWizard == [step |-> "upload", parsed |-> NoFile, complete |-> FALSE, waiting |-> 0]

(* Archived products keep their SKU: what archive changes is not read here. *)
Holder(s) == {p \in DOMAIN products : products[p].sku = s}

-----------------------------------------------------------------------------
(* parseImportFile: blank rows are dropped, and what is left must be 1 to  *)
(* MAX_IMPORT_ROWS rows.                                                   *)
Rows(f) ==
  Chosen(Content[f], {i \in DOMAIN Content[f] : Content[f][i] # Blank})

Readable(f) == Len(Rows(f)) \in 1..MaxRows

(* buildMappedRows: the line given is the rank among the rows kept, plus   *)
(* the line of the headers.                                                *)
Lines(f) == {i + 1 : i \in DOMAIN Rows(f)}

RowAt(f, line) == Rows(f)[line - 1]

(* handleFileChange: the file is read while the wizard goes on; another    *)
(* may be chosen meanwhile.                                                *)
ChooseFile(f) ==
  /\ wizard.step = "upload"
  /\ reading' = reading \cup {f}
  /\ UNCHANGED <<products, imports, shop, wizard>>

\* Variant: the wizard goes to the mapping from the choice of a file only.
FileReadInPlace(f) ==
  /\ f \in reading
  /\ reading' = reading \ {f}
  /\ IF Readable(f)
     THEN \E suggested \in BOOLEAN :
            wizard' = [wizard EXCEPT !.parsed = f, !.complete = suggested,
                         !.step = IF @ = "upload" THEN "mapping" ELSE @]
     ELSE wizard' = [wizard EXCEPT !.parsed = NoFile]
  /\ UNCHANGED <<products, imports, shop>>

FileRead(f) ==
  /\ f \in reading
  /\ reading' = reading \ {f}
  /\ IF Readable(f)
     THEN \E suggested \in BOOLEAN :
            wizard' = [wizard EXCEPT !.parsed = f, !.complete = suggested, !.step = "mapping"]
     ELSE wizard' = [wizard EXCEPT !.parsed = NoFile]
  /\ UNCHANGED <<products, imports, shop>>

Associate ==
  /\ wizard.step = "mapping" /\ wizard.parsed # NoFile
  /\ wizard' = [wizard EXCEPT !.complete = ~@]
  /\ UNCHANGED <<products, imports, shop, reading>>

Preview ==
  /\ wizard.step = "mapping" /\ wizard.parsed # NoFile /\ wizard.complete
  /\ wizard' = [wizard EXCEPT !.step = "preview"]
  /\ UNCHANGED <<products, imports, shop, reading>>

BackToMapping ==
  /\ wizard.step = "preview" /\ wizard.parsed # NoFile /\ wizard.waiting = 0
  /\ wizard' = [wizard EXCEPT !.step = "mapping"]
  /\ UNCHANGED <<products, imports, shop, reading>>

(* Annuler, Terminer: reset; an import in flight stays in flight.          *)
ResetWizard ==
  /\ \/ wizard.step = "mapping" /\ wizard.parsed # NoFile
     \/ wizard.step = "preview" /\ wizard.parsed # NoFile /\ wizard.waiting = 0
     \/ wizard.step = "result"
  /\ wizard' = [FreshWizard EXCEPT !.waiting = wizard.waiting]
  /\ UNCHANGED <<products, imports, shop, reading>>

(* ProductsStepPage leaves the import panel and opens another.             *)
RemountWizard ==
  /\ wizard' = FreshWizard
  /\ reading' = {}
  /\ UNCHANGED <<products, imports, shop>>

ClickImport ==
  /\ wizard.step = "preview" /\ wizard.parsed # NoFile /\ wizard.waiting = 0
  /\ Len(imports) < MaxImports
  /\ imports' = Append(imports, [at |-> "sent", file |-> wizard.parsed,
                                 mapped |-> wizard.complete,
                                 chosen |-> {}, errors |-> {}, count |-> 0])
  /\ wizard' = [wizard EXCEPT !.waiting = Len(imports) + 1]
  /\ UNCHANGED <<products, shop, reading>>

-----------------------------------------------------------------------------
(* ProductsImportService.import: a row that is not valid, or repeats the   *)
(* SKU of an earlier valid row, is an error.                               *)
Valid(f, line) == RowAt(f, line) # Bad

Repeated(f, line) == \E l \in Lines(f) : l < line /\ RowAt(f, l) = RowAt(f, line)

Parsed(f) == {l \in Lines(f) : Valid(f, l) /\ ~Repeated(f, l)}

(* The SKUs that exist are read; the rows that bear one are errors.        *)
ReadExisting(n) ==
  LET f == imports[n].file
      new == {l \in Parsed(f) : Holder(RowAt(f, l)) = {}}
  IN
  /\ imports[n].at = "sent"
  /\ imports' = [imports EXCEPT ![n].chosen = new, ![n].errors = Lines(f) \ new,
                                ![n].at = IF new = {} THEN "answer" ELSE "insert"]
  /\ UNCHANGED <<products, shop, wizard, reading>>

(* The products of the lines, in the order of the file.                    *)
Created(n, lines) ==
  [k \in 1..Cardinality(lines) |->
     [sku |-> RowAt(imports[n].file, Nth(lines, k)), from |-> n, line |-> Nth(lines, k)]]

Insertable(n) ==
  {l \in imports[n].chosen : Holder(RowAt(imports[n].file, l)) = {}}

\* Variant: the rows are inserted one by one, outside any transaction.
InsertRowsOneByOne(n) ==
  /\ imports[n].at = "insert"
  /\ Len(products) + Cardinality(Insertable(n)) <= MaxProducts
  /\ products' = products \o Created(n, Insertable(n))
  /\ imports' = [imports EXCEPT ![n].at = "answer",
       ![n].count = IF Insertable(n) = imports[n].chosen THEN Cardinality(Insertable(n)) ELSE 0,
       ![n].errors = IF Insertable(n) = imports[n].chosen THEN @ ELSE @ \cup {0}]
  /\ UNCHANGED <<shop, wizard, reading>>

(* One transaction: a SKU taken meanwhile, or any failure, undoes all of   *)
(* it and is told as an error of line 0.                                   *)
InsertRows(n) ==
  /\ imports[n].at = "insert"
  /\ \/ /\ Insertable(n) = imports[n].chosen
        /\ Len(products) + Cardinality(imports[n].chosen) <= MaxProducts
        /\ products' = products \o Created(n, imports[n].chosen)
        /\ imports' = [imports EXCEPT ![n].at = "answer",
                                      ![n].count = Cardinality(imports[n].chosen)]
     \/ /\ imports' = [imports EXCEPT ![n].at = "answer", ![n].errors = @ \cup {0}]
        /\ UNCHANGED products
  /\ UNCHANGED <<shop, wizard, reading>>

(* The answer reaches the wizard that waits for it.                        *)
ImportAnswered(n) ==
  /\ imports[n].at = "answer"
  /\ wizard.waiting = n
  /\ wizard' = [wizard EXCEPT !.waiting = 0, !.step = "result"]
  /\ UNCHANGED <<products, imports, shop, reading>>

(* The connection breaks: the wizard says that nothing was imported; the   *)
(* API goes on, or stops.                                                  *)
LoseImport(n) ==
  /\ wizard.waiting = n
  /\ wizard' = [wizard EXCEPT !.waiting = 0]
  /\ UNCHANGED <<products, imports, shop, reading>>

-----------------------------------------------------------------------------
(* create, update: the SKU is tested, then written; the unique index       *)
(* refuses what the test could not see.                                    *)
TestSku(c) ==
  /\ shop[c].at = "idle"
  /\ \E s \in Skus :
       \/ /\ Holder(s) = {}
          /\ shop' = [shop EXCEPT ![c] = [at |-> "create", sku |-> s, id |-> 0]]
       \/ \E p \in DOMAIN products :
            /\ Holder(s) \subseteq {p}
            /\ shop' = [shop EXCEPT ![c] = [at |-> "update", sku |-> s, id |-> p]]
  /\ UNCHANGED <<products, imports, wizard, reading>>

CreateProduct(c) ==
  /\ shop[c].at = "create"
  /\ Len(products) < MaxProducts
  /\ products' = IF Holder(shop[c].sku) # {}
                 THEN products
                 ELSE Append(products, [sku |-> shop[c].sku, from |-> 0, line |-> 0])
  /\ shop' = [shop EXCEPT ![c] = NoShopCall]
  /\ UNCHANGED <<imports, wizard, reading>>

UpdateProduct(c) ==
  /\ shop[c].at = "update"
  /\ products' = IF Holder(shop[c].sku) \subseteq {shop[c].id}
                 THEN [products EXCEPT ![shop[c].id].sku = shop[c].sku]
                 ELSE products
  /\ shop' = [shop EXCEPT ![c] = NoShopCall]
  /\ UNCHANGED <<imports, wizard, reading>>

-----------------------------------------------------------------------------
CatalogueInit ==
  /\ products = <<>>
  /\ imports = <<>>
  /\ shop = [c \in ShopCalls |-> NoShopCall]
  /\ wizard = FreshWizard
  /\ reading = {}

ImportSteps(n) == ReadExisting(n) \/ InsertRows(n) \/ ImportAnswered(n) \/ LoseImport(n)

CatalogueNext ==
  \/ \E f \in Files : ChooseFile(f) \/ FileRead(f)
  \/ Associate \/ Preview \/ BackToMapping \/ ResetWizard \/ RemountWizard \/ ClickImport
  \/ \E n \in DOMAIN imports : ImportSteps(n)
  \/ \E c \in ShopCalls : TestSku(c) \/ CreateProduct(c) \/ UpdateProduct(c)

CatalogueSpec == CatalogueInit /\ [][CatalogueNext]_catalogueVars

-----------------------------------------------------------------------------
CatalogueTypeOK ==
  /\ products \in Seq(CatalogueProduct)
  /\ imports \in Seq(Import)
  /\ shop \in [ShopCalls -> ShopCall]
  /\ wizard \in Wizard
  /\ reading \subseteq Files

CreatedBy(n) == {p \in DOMAIN products : products[p].from = n}

(* What an import answers accounts for every row, whatever creations,      *)
(* renamings and other imports it raced: it counts the products it         *)
(* created, all or none of the rows it chose, and every other row, or the  *)
(* whole, has its error (products-import.service.ts:87-119).               *)
ImportAccounted ==
  \A n \in DOMAIN imports : imports[n].at = "answer" =>
    /\ imports[n].count = Cardinality(CreatedBy(n))
    /\ \/ 0 \in imports[n].errors /\ CreatedBy(n) = {}
       \/ Lines(imports[n].file) \ imports[n].errors
            = {products[p].line : p \in CreatedBy(n)}

(* Nothing is imported while a required field has no column, however the   *)
(* readings of several files, the way back and an import in flight         *)
(* interleave (ImportWizard.tsx:98-124, 289-291).                          *)
NothingUnmapped == \A n \in DOMAIN imports : imports[n].mapped

=============================================================================
