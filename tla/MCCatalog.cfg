SPECIFICATION FairSpec
CONSTANTS
  b1 = b1
  ann = ann
  novel = novel
  sale = sale
  Book = {b1}
  Seeded = {b1}
  Reader = {ann}
  Genre = {novel}
  Promo = {sale}
  PromoBook <- MCPromoBook
  Star = {1, 5}
  Price = {0, 2}
  Percent = {50}
  Amount = {0, 300}
  MaxReactions = 1
INVARIANTS
  RatingsSummarised
  StoredPathHasFile
  
PROPERTIES
  SweptOnce
  EndedPromotionFreesBook
